------------------------------ MODULE MCWorkers ------------------------------
(***************************************************************************)
(* Programs that work beside the gateway, in four parts that share no      *)
(* state; a behaviour is one of them, chosen at first:                     *)
(*   "burner"      the credit budget of one account (BurnerLedger):        *)
(*                 windows of two and three ticks, budgets that a few      *)
(*                 requests use up, without and with an absolute limit,    *)
(*                 the second with dearer requests;                        *)
(*   "pace"        two workers, two accounts of two requests at a time     *)
(*                 with a key each (BurnerPace);                           *)
(*   "delegation"  a program an agent delegates to (Delegation);           *)
(*   "tray"        who keeps gateway and burner running (Tray), two        *)
(*                 threads that restart and two upsets.                    *)
(***************************************************************************)
EXTENDS Delegation, Integers, TLC

CONSTANTS
    d1,
    W5, WW, Day, QuotaPark, Configs, Fills, NoFill, MaxFlight, MaxTotal,    \* of the burner
    Restarts, Kids, Window, Nobody,             \* of the tray
    LedgerUpsets, TrayUpsets, PaceUpsets        \* bounds

\* The five-hour window is no longer than the week, and what is configured or filled in are
\* numbers (build_parser, BurnerReconcileRequest).
ASSUME BudgetAssumption ==
    /\ W5 \in Nat \ {0} /\ WW \in Nat /\ W5 <= WW
    /\ \A c \in Configs : c.cap5 \in Int /\ c.capw \in Int /\ c.cost \in Nat
    /\ \A f \in Fills : {f.left5, f.leftw} \subseteq Int \cup {NoFill}

\* The threads of the tray are not nobody.
ASSUME ThreadsAssumption == Nobody \notin Restarts \cup {"main", "beat"}

MCTools == {[kind |-> "codebuddy", mode |-> "plan"], [kind |-> "qoder", mode |-> "default"],
            [kind |-> "mcp", mode |-> "default"]}

Budget == [cap5 |-> 2, capw |-> 3, capTotal |-> 0, cost |-> 1]
MCConfigs == {Budget, [Budget EXCEPT !.cost = 2, !.capTotal = 2]}
MCFills == {[left5 |-> 0, leftw |-> 2, total |-> 0]}

VARIABLES
    part,
    clock, anchored, events, total, parked, busy, up, est, args, yaml, file, ledgerUpsets,
    disturbed,
    mode, kids, loaded, child, forgotten, lock, pc, mine, then, box, saved, saving, promised, marker,
    slept, trayUpsets,
    watched,    \* the account of "pace" that WorkGoesOn is about
    load, flight, asleep, cool, dead, target, streak, rest, spent, boost, frequent, quiet,
    hungry, over, paceUpsets

ledgerVars == <<clock, anchored, events, total, parked, busy, up, est, args, yaml, file,
                ledgerUpsets, disturbed>>
paceVars == <<watched, load, flight, asleep, cool, dead, target, streak, rest, spent, boost,
              frequent, quiet, hungry, over, paceUpsets>>
trayVars == <<mode, kids, loaded, child, forgotten, lock, pc, mine, then, box, saved, saving,
              promised, marker, slept, trayUpsets>>

Ledger == INSTANCE BurnerLedger WITH
    OthersExhausted <- TRUE, MaxUpsets <- LedgerUpsets, upsets <- ledgerUpsets

Keeper == INSTANCE Tray WITH
    MaxUpsets <- TrayUpsets, proc <- child, yaml <- saved, upsets <- trayUpsets

Pace == INSTANCE BurnerPace WITH
    Accounts <- <<"a", "b">>, KeysOf <- "a" :> <<"a1">> @@ "b" :> <<"b1">>,
    Workers <- 2, PerAccount <- 2, ParkAfter <- 2, MaxUpsets <- PaceUpsets,
    parked <- spent, upsets <- paceUpsets

\* What is not looked at rests: no delegation, and systemd keeps its unit.
MCInit ==
    /\ part \in {"burner", "pace", "delegation", "tray"}
    /\ Init /\ Ledger!Init /\ Keeper!Init /\ Pace!Init
    /\ watched \in {"a", "b"} /\ (part # "pace" => watched = "a")
    /\ part # "burner" => ~anchored /\ yaml = CHOOSE y \in Configs : TRUE
    /\ part # "delegation" => ~unattended
    /\ part # "tray" => mode = "systemd"
    /\ mode = "systemd" => child = 1

OnlyBurner == UNCHANGED <<part, paceVars, vars, trayVars>>
OnlyPace == UNCHANGED <<part, watched, ledgerVars, vars, trayVars>>
OnlyProgram == UNCHANGED <<part, ledgerVars, paceVars, trayVars>>
OnlyTray == UNCHANGED <<part, ledgerVars, paceVars, vars>>

MCNext ==
    \/ part = "burner" /\ Ledger!Next /\ OnlyBurner
    \/ part = "pace" /\ Pace!Next /\ OnlyPace
    \/ part = "delegation" /\ Next /\ OnlyProgram
    \/ part = "tray" /\ Keeper!Next /\ OnlyTray

\* The fairness of each part. Parts share no state, so one condition may stand for a kind of
\* progress in each of them, and the last one for processes that are done after a few steps:
\* it asks for less than a condition for each would.
TimePasses ==
    \/ part = "burner" /\ Ledger!Tick /\ OnlyBurner
    \/ part = "pace" /\ Pace!Tick /\ OnlyPace
    \/ part = "delegation" /\ Tick /\ OnlyProgram
    \/ part = "tray" /\ Keeper!Tick /\ OnlyTray
FirstGoesOn ==
    \/ part = "burner" /\ Ledger!Look /\ OnlyBurner
    \/ part = "pace" /\ Pace!Wakes /\ OnlyPace
    \/ part = "delegation" /\ GoesOn(d1) /\ OnlyProgram
    \/ part = "tray" /\ Keeper!MainGoesOn /\ OnlyTray
SecondGoesOn ==
    \/ part = "burner" /\ (Ledger!Succeed \/ Ledger!Fail) /\ OnlyBurner
    \/ part = "pace" /\ Pace!Ended /\ OnlyPace
    \/ part = "delegation" /\ TimeOut(d1) /\ OnlyProgram
    \/ part = "tray" /\ Keeper!BeatGoesOn /\ OnlyTray
ThirdGoesOn ==
    \/ part = "burner" /\ (Ledger!Summary \/ Ledger!Start) /\ OnlyBurner
    \/ part = "pace" /\ Pace!Summary /\ OnlyPace
    \/ part = "tray" /\ ((\E r \in Restarts : Keeper!Child(r)) \/ Keeper!Request) /\ OnlyTray

all == <<part, ledgerVars, paceVars, vars, trayVars>>

MCSpec ==
    /\ MCInit /\ [][MCNext]_all
    /\ WF_all(TimePasses) /\ WF_all(FirstGoesOn) /\ WF_all(SecondGoesOn)
    /\ WF_all(ThirdGoesOn)

-----------------------------------------------------------------------------
\* Burner._worker and AccountState: requests in flight fit both windows, and a parked account
\* comes back exactly when there is room.
BudgetIsKept == part = "burner" => Ledger!NeverOversubscribed /\ Ledger!ResumesInTime

\* The burner sends requests again and again until it has burned all it may, and then ends
\* (periodic_summary), and none of its accounts starves (pick_key); the timeout ends every
\* delegation that has started (run_delegation).
WorkGoesOn ==
    []<>(/\ part = "burner" => busy > 0 \/ ~up
         /\ part = "pace" => Pace!Served(watched)
         /\ part = "delegation" => phase[d1] \in {"idle", "asking", "done", "lost"})

\* _ChildProcess.start: no more than one gateway that nobody has terminated.
OneGateway == Keeper!OneGateway

\* TrayLauncher and burner_service.restart: in the end the console says that a burner runs when
\* one is up, and a saved configuration that needs a restart is in force in every burner that
\* is up; but for a burner that a stop overlapping a restart has left behind (forgotten).
ConsoleAndTrayAgree == <>[](part = "tray" => Keeper!StatusIsTrue /\ Keeper!SavesTakeEffect)

\* burner_save_config's promise, where systemd keeps the burner: keys that need a restart are in
\* force after a save with one.
SavesTakeEffectEverywhere == <>[](part = "tray" => Keeper!SavesTakeEffectEverywhere)
=============================================================================
