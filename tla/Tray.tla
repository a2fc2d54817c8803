-------------------------------- MODULE Tray --------------------------------
(***************************************************************************)
(* Who keeps the gateway and the burner running: the tray icon             *)
(* (scripts/tray_launcher.py), which owns its one child process and reads  *)
(* request files the console leaves, or systemd, which the console calls   *)
(* (app/services/burner_service/restart.py, app/services/                  *)
(* gateway_restart.py, app/services/systemd_ctl.py).                       *)
(*                                                                         *)
(* The tray's threads interleave: its main thread (the menu), the          *)
(* heartbeat, and one thread for every restart from the menu or, for the   *)
(* gateway, from the console.  start() holds a lock, stop() does not.  A   *)
(* tick is a heartbeat's sleep; what a thread waits for takes any number   *)
(* of ticks.                                                               *)
(*                                                                         *)
(* A configuration is the number of what burner.yaml says under the keys   *)
(* that count from the next start only (_RESTART_ONLY_KEYS: the keys and   *)
(* accounts that burn, the windows' anchors).  The other keys reach a      *)
(* burner that runs, in every summary: BurnerLedger has that               *)
(* (reload_config).                                                        *)
(***************************************************************************)
EXTENDS Naturals, FiniteSets

CONSTANTS
    Restarts,       \* threads of restart_child
    Kids,           \* places for child processes
    Window,         \* ticks for which burner_alive counts as fresh
    MaxUpsets,      \* bound: requests, saves, menu clicks, crashes
    Nobody

VARIABLES
    mode,       \* what keeps the child: "gateway", "burner" (the tray) or "systemd"
    kids,       \* [Kids -> {"none", "up", "told"}], told: terminated but not gone
    loaded,     \* [Kids -> Nat], the configuration it started with
    proc,       \* _proc
    forgotten,  \* history: children up that a stop() has forgotten without having read them
    lock,       \* the thread that holds _lock
    pc,         \* [Threads -> place]
    mine,       \* [Threads -> proc of stop()]
    then,       \* [Threads -> the place after start() or stop()]
    box,        \* request files
    yaml,       \* the configuration in the file, its restart-only keys
    saving,     \* a save that has written the file and not yet its request
    promised,   \* the last configuration saved with a restart
    marker,     \* age of burner_alive
    slept,      \* ticks of the heartbeat's sleep
    upsets

threads == <<pc, mine, then, lock>>
processes == <<kids, loaded, proc, forgotten>>
console == <<box, yaml, saving, promised, upsets>>
clock == <<marker, slept>>
vars == <<mode, threads, processes, console, clock>>

Threads == Restarts \cup {"main", "beat"}

\* alive: the child the tray knows.
Alive == proc # Nobody /\ kids[proc] = "up"

Goes(t, place) == pc' = [pc EXCEPT ![t] = place]

Init ==
    /\ mode \in {"gateway", "burner", "systemd"}
    /\ \/ /\ mode = "systemd" /\ proc \in Kids
          /\ kids = [k \in Kids |-> IF k = proc THEN "up" ELSE "none"]
          /\ pc = [t \in Threads |-> "absent"]
       \/ /\ mode # "systemd" /\ proc = Nobody
          /\ kids = [k \in Kids |-> "none"]
          /\ pc = [t \in Threads |-> IF t = "main" THEN "start" ELSE "idle"]
    /\ loaded = [k \in Kids |-> 0] /\ forgotten = {}
    /\ lock = Nobody /\ mine = [t \in Threads |-> Nobody]
    /\ then = [t \in Threads |-> IF t = "main" THEN "menu" ELSE "idle"]
    /\ box = {} /\ yaml = 0 /\ saving = FALSE /\ promised = 0
    /\ marker = Window /\ slept = 0 /\ upsets = 0

Upset == upsets < MaxUpsets /\ upsets' = upsets + 1

-----------------------------------------------------------------------------
(* _ChildProcess *)

\* mutant: start() does not take the lock.
AcquireNothing(t) ==
    /\ pc[t] = "start" /\ lock' = t /\ Goes(t, "read")
    /\ UNCHANGED <<mode, mine, then, processes, console, clock>>

\* start: with self._lock.
Acquire(t) ==
    /\ pc[t] = "start" /\ lock = Nobody /\ lock' = t /\ Goes(t, "read")
    /\ UNCHANGED <<mode, mine, then, processes, console, clock>>

\* stop: the process is read, ...
Read(t) ==
    /\ pc[t] = "read" /\ mine' = [mine EXCEPT ![t] = proc] /\ Goes(t, "clear")
    /\ UNCHANGED <<mode, lock, then, processes, console, clock>>

\* ... forgotten and terminated, or another one forgotten that a start() under the lock has
\* put there since, ...
Clear(t) ==
    /\ pc[t] = "clear" /\ proc' = Nobody /\ Goes(t, "wait")
    /\ kids' = [k \in Kids |-> IF k = mine[t] /\ kids[k] = "up" THEN "told" ELSE kids[k]]
    /\ forgotten' = forgotten \cup ({proc} \ {mine[t], Nobody})
    /\ UNCHANGED <<mode, lock, mine, then, loaded, console, clock>>

\* ... and waited for, or killed after ten seconds. Then start() goes on.
Wait(t) ==
    /\ pc[t] = "wait"
    /\ Goes(t, IF lock = t THEN "guard" ELSE then[t])
    /\ mine' = [mine EXCEPT ![t] = Nobody]
    /\ UNCHANGED <<mode, lock, then, processes, console, clock>>

\* main's own start() failing ends the tray.
Unlocks(t, started) ==
    /\ lock' = Nobody
    /\ Goes(t, IF t = "main" /\ ~started THEN "over" ELSE then[t])

\* _guard_port: the gateway's old instances are killed, whatever listens is left, or the
\* guard takes too long and start() fails.
Guard(t) ==
    /\ pc[t] = "guard"
    /\ \/ /\ mode = "gateway"
          /\ kids' = [k \in Kids |-> IF kids[k] = "up" THEN "told" ELSE kids[k]]
          /\ Goes(t, "spawn") /\ UNCHANGED <<lock, upsets>>
       \/ Goes(t, "spawn") /\ UNCHANGED <<lock, kids, upsets>>
       \/ mode = "gateway" /\ Upset /\ Unlocks(t, FALSE) /\ UNCHANGED kids
    /\ UNCHANGED <<mode, mine, then, loaded, proc, forgotten, box, yaml, saving, promised, clock>>

\* Popen.
Spawn(t) ==
    /\ pc[t] = "spawn"
    /\ \/ \E k \in Kids :
            /\ kids[k] = "none" /\ \A j \in Kids : kids[j] = "none" => k <= j
            /\ kids' = [kids EXCEPT ![k] = "up"] /\ loaded' = [loaded EXCEPT ![k] = yaml]
            /\ proc' = k /\ Unlocks(t, TRUE) /\ UNCHANGED <<forgotten, upsets>>
       \/ Upset /\ Unlocks(t, FALSE) /\ UNCHANGED processes
    /\ UNCHANGED <<mode, mine, then, box, yaml, saving, promised, clock>>

\* A child that was terminated is gone; any child may end by itself.
Dies(k) ==
    /\ \/ kids[k] = "told" /\ UNCHANGED upsets
       \/ kids[k] = "up" /\ Upset
    /\ kids' = [kids EXCEPT ![k] = "none"]
    /\ loaded' = [loaded EXCEPT ![k] = 0] /\ forgotten' = forgotten \ {k}
    /\ proc' = IF mode # "systemd" /\ proc = k THEN Nobody ELSE proc
    /\ UNCHANGED <<mode, threads, box, yaml, saving, promised, clock>>

-----------------------------------------------------------------------------
(* TrayLauncher: the menu *)

\* run: when the child was started, the heartbeat is, and the icon shows.
Open ==
    /\ pc["main"] = "menu" /\ pc["beat"] = "idle" /\ Goes("beat", "sleep") /\ slept' = 0
    /\ UNCHANGED <<mode, mine, then, lock, processes, console, marker>>

\* restart_child: a thread of its own.
Restart(r) == pc[r] = "idle" /\ Goes(r, "start")

MenuRestart(r) ==
    /\ pc["main"] = "menu" /\ pc["beat"] # "idle" /\ Restart(r) /\ Upset
    /\ UNCHANGED <<mode, mine, then, lock, processes, box, yaml, saving, promised, clock>>

\* quit_: _running is cleared, the child stopped, and again when run ends.
MenuQuit ==
    /\ \/ pc["main"] = "menu" /\ pc["beat"] # "idle" /\ then' = [then EXCEPT !["main"] = "icon"] /\ Upset
       \/ pc["main"] = "icon" /\ then' = [then EXCEPT !["main"] = "over"] /\ UNCHANGED upsets
    /\ Goes("main", "read")
    /\ UNCHANGED <<mode, mine, lock, processes, box, yaml, saving, promised, clock>>

\* The process ends and its threads with it; children live on.
Exit ==
    /\ pc["main"] = "over" /\ pc["beat"] # "absent"
    /\ pc' = [t \in Threads |-> IF t = "main" THEN "over" ELSE "absent"]
    /\ mine' = [t \in Threads |-> Nobody] /\ lock' = Nobody
    /\ UNCHANGED <<mode, then, processes, console, clock>>

-----------------------------------------------------------------------------
(* TrayLauncher: the heartbeat *)

Running == pc["main"] = "menu"

\* _heartbeat_loop: the sleep is over, and _running is only seen at the next round.
Wake ==
    /\ pc["beat"] = "sleep" /\ slept > 0 /\ slept' = 0
    /\ Goes("beat", IF mode = "gateway" THEN "gateway?" ELSE "stop?")
    /\ UNCHANGED <<mode, mine, then, lock, processes, console, marker>>

\* A request: the file is removed, then served by what the thread does next. Without one
\* the heartbeat goes on.
Serve(here, word, does, next) ==
    /\ pc["beat"] = here
    /\ IF word \in box
       THEN /\ box' = box \ {word} /\ Goes("beat", does)
            /\ then' = [then EXCEPT !["beat"] = next]
       ELSE Goes("beat", next) /\ UNCHANGED <<box, then>>
    /\ UNCHANGED <<mode, mine, lock, processes, yaml, saving, promised, upsets, clock>>

\* mutant: the request is removed when it has been served.
ConsumeThenRemove ==
    \/ Serve("stop?", "stop", "read", "start?")
    \/ Serve("start?", "start", IF Alive THEN "restart?" ELSE "start", "restart?")
    \/ /\ pc["beat"] = "restart?" /\ then["beat"] # "remove"
       /\ Goes("beat", IF "restart" \in box THEN "start" ELSE "mark")
       /\ then' = [then EXCEPT !["beat"] = IF "restart" \in box THEN "remove" ELSE "mark"]
       /\ UNCHANGED <<mode, mine, lock, processes, console, clock>>
    \/ /\ pc["beat"] = "remove" /\ box' = box \ {"restart"}
       /\ Goes("beat", "mark") /\ then' = [then EXCEPT !["beat"] = "mark"]
       /\ UNCHANGED <<mode, mine, lock, processes, yaml, saving, promised, upsets, clock>>

\* _consume_requests: stop, then start unless it runs, then restart, whichever came first.
Consume ==
    \/ Serve("stop?", "stop", "read", "start?")
    \/ Serve("start?", "start", IF Alive THEN "restart?" ELSE "start", "restart?")
    \/ Serve("restart?", "restart", "start", "mark")

\* _consume_gateway_restart: served by a thread.
ConsumeGateway ==
    /\ pc["beat"] = "gateway?"
    /\ \/ "restart" \notin box /\ Goes("beat", "mark") /\ UNCHANGED box
       \/ /\ "restart" \in box /\ box' = box \ {"restart"}
          /\ \E r \in Restarts :
                /\ pc[r] = "idle"
                /\ pc' = [pc EXCEPT !["beat"] = "mark", ![r] = "start"]
    /\ UNCHANGED <<mode, mine, then, lock, processes, yaml, saving, promised, upsets, clock>>

\* burner_alive is written while the child lives.
Mark ==
    /\ pc["beat"] = "mark" /\ Goes("beat", IF Running THEN "sleep" ELSE "ended")
    /\ marker' = IF mode = "burner" /\ Alive THEN 0 ELSE marker
    /\ UNCHANGED <<mode, mine, then, lock, processes, console, slept>>

\* Time passes while the heartbeat sleeps, and it does not oversleep, or while it waits for
\* the lock or in start() and stop().
Waiting == {"start", "wait", "guard", "spawn", "idle", "ended", "absent"}

Tick ==
    /\ pc["beat"] \in Waiting \/ (pc["beat"] = "sleep" /\ slept = 0)
    /\ slept' = IF pc["beat"] = "sleep" THEN 1 ELSE slept
    /\ marker' = IF marker < Window THEN marker + 1 ELSE Window
    /\ UNCHANGED <<mode, threads, processes, console>>

-----------------------------------------------------------------------------
(* The console *)

\* run_unit_action: systemd obeys, or the call fails and the page says so.
Systemctl(verb) ==
    \/ UNCHANGED <<kids, loaded>>
    \/ /\ kids' = [kids EXCEPT ![proc] =
                    IF verb = "stop" THEN "none" ELSE "up"]
       /\ loaded' = [loaded EXCEPT ![proc] =
                    IF verb = "stop" THEN 0 ELSE IF verb = "start" /\ kids[proc] = "up" THEN @ ELSE yaml]

\* stop_burner, start_burner, request_restart_ex and restart_gateway: systemd, or a file
\* for the tray.
Ask(verb) ==
    /\ mode = "gateway" => verb = "restart"
    /\ Upset
    /\ \/ mode = "systemd" /\ Systemctl(verb) /\ UNCHANGED <<box, proc, forgotten>>
       \/ mode # "systemd" /\ box' = box \cup {verb} /\ UNCHANGED processes
    /\ UNCHANGED <<mode, threads, yaml, saving, promised, clock>>

\* Restart=always: systemd starts what ended by itself.
Respawn ==
    /\ mode = "systemd" /\ kids[proc] = "none"
    /\ kids' = [kids EXCEPT ![proc] = "up"] /\ loaded' = [loaded EXCEPT ![proc] = yaml]
    /\ UNCHANGED <<mode, threads, proc, forgotten, console, clock>>

\* burner_save_config: the file, then, if asked, the tray's request file.
Save ==
    /\ mode # "gateway" /\ ~saving /\ Upset
    /\ yaml' = yaml + 1 /\ saving' \in BOOLEAN
    /\ UNCHANGED <<mode, threads, processes, box, promised, clock>>

Request ==
    /\ saving /\ saving' = FALSE
    /\ box' = box \cup {"restart"} /\ promised' = yaml
    /\ UNCHANGED <<mode, threads, processes, yaml, upsets, clock>>

-----------------------------------------------------------------------------
Child(t) == Acquire(t) \/ Read(t) \/ Clear(t) \/ Wait(t) \/ Guard(t) \/ Spawn(t)

Beat == Wake \/ Consume \/ ConsumeGateway \/ Mark

Next ==
    \/ \E t \in Threads : Child(t)
    \/ \E k \in Kids : Dies(k)
    \/ Open \/ (\E r \in Restarts : MenuRestart(r)) \/ MenuQuit \/ Exit
    \/ Beat \/ Tick
    \/ (\E v \in {"stop", "start", "restart"} : Ask(v)) \/ Respawn
    \/ Save \/ Request

\* Every thread goes on when it can: the main thread, the heartbeat, those that restart.
MainGoesOn == Child("main") \/ Open \/ (pc["main"] = "icon" /\ MenuQuit) \/ Exit
BeatGoesOn == Child("beat") \/ Beat

Fair ==
    /\ WF_vars(MainGoesOn) /\ WF_vars(BeatGoesOn) /\ \A r \in Restarts : WF_vars(Child(r))
    /\ WF_vars(Tick) /\ WF_vars(Request)

Spec == Init /\ [][Next]_vars /\ Fair

-----------------------------------------------------------------------------
TypeOK ==
    /\ mode \in {"gateway", "burner", "systemd"}
    /\ kids \in [Kids -> {"none", "up", "told"}] /\ loaded \in [Kids -> 0 .. MaxUpsets]
    /\ proc \in Kids \cup {Nobody} /\ lock \in Threads \cup {Nobody}
    /\ mine \in [Threads -> Kids \cup {Nobody}] /\ forgotten \subseteq Kids
    /\ box \subseteq {"stop", "start", "restart"} /\ yaml \in 0 .. MaxUpsets
    /\ promised <= yaml /\ marker \in 0 .. Window /\ slept \in 0 .. 1 /\ upsets \in 0 .. MaxUpsets

\* Clicks and requests that overlap never leave two gateways: until the tray quits, no more
\* than one that nobody has terminated.
OneGateway ==
    mode = "gateway" /\ then["main"] = "menu"
        => Cardinality({k \in Kids : kids[k] = "up"}) <= 1

\* The children that are up, but for those forgotten: a stop() that overlaps a start() leaves
\* the child that start() has put up, and nothing ends it or tells the console of it.
Up == {k \in Kids : kids[k] = "up"} \ forgotten

\* Three conditions a quiet system comes to and keeps, while the tray is there: it is the tray
\* who tells, and what it has started may outlive it. burner_running tells the console whether
\* a burner is up.
Says == IF mode = "systemd" THEN kids[proc] = "up" ELSE marker < Window

StatusIsTrue == mode # "gateway" /\ pc["main"] # "over" => (Says <=> Up # {})

\* burner_save_config's promise, where systemd keeps the burner too.
SavesTakeEffectEverywhere == pc["main"] # "over" => \A k \in Up : loaded[k] >= promised

\* Of a configuration saved with a restart, what needs the restart is in force in every burner
\* that is up, whatever stop, start and restart requests and menu clicks it meets on the way.
SavesTakeEffect == mode = "burner" => SavesTakeEffectEverywhere

=============================================================================
