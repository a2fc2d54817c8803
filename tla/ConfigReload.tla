---------------------------- MODULE ConfigReload ----------------------------
(***************************************************************************)
(* Hot reload: the file watcher (app/core/config_watch.py), the reload the *)
(* watcher and the console share (Container.reload_config), and console    *)
(* saves behind the stale-write gate (app/core/config_writer.py), while    *)
(* the operator edits the files with an editor.                            *)
(*                                                                         *)
(* The files are one file; a version is a number, and so is a signature    *)
(* (mtime, size): every write has a new one.                               *)
(***************************************************************************)
EXTENDS Naturals

CONSTANTS
    NoSignature,    \* pending when no change has been seen
    DbErrors,       \* whether the database may fail in a reload
    MaxWrites       \* bound: writes to the file in a behaviour

ASSUME ReloadAssumption ==
    /\ MaxWrites \in Nat \ {0} /\ DbErrors \in BOOLEAN /\ NoSignature \notin Nat

Callers == {"watcher", "console"}
Versions == 0..MaxWrites
Steps == {"idle", "load", "note", "router", "pool", "assign", "mirror"}

VARIABLES
    disk,       \* the version in the file
    good,       \* whether it parses (an editor may have written half of it)
    seen,       \* ConfigWatcher._seen
    pending,    \* ConfigWatcher._pending
    noted,      \* config_writer._loaded_mtimes
    job,        \* the reload of each caller: where it is, what it read, and (history)
                \* whether no other reload was on and no write came since
    router, pool, config,   \* the versions in use
    disturbed   \* history: a reload was overtaken or failed, no other made up for it

vars == <<disk, good, seen, pending, noted, job, router, pool, config, disturbed>>
InUse == <<router, pool, config>>

TypeOK ==
    /\ disk \in Versions /\ good \in BOOLEAN
    /\ seen \in Versions /\ pending \in Versions \cup {NoSignature} /\ noted \in Versions
    /\ job \in [Callers -> [at : Steps, got : Versions, alone : BOOLEAN]]
    /\ {router, pool, config} \subseteq Versions
    /\ disturbed \in BOOLEAN

\* The configuration is loaded first, the watcher seeded last; the file may have been
\* edited in between.
Init ==
    /\ disk \in {0, 1} /\ good \in BOOLEAN /\ (disk = 0 => good)
    /\ seen = disk /\ pending = NoSignature /\ noted = 0
    /\ job = [c \in Callers |-> [at |-> "idle", got |-> 0, alone |-> FALSE]]
    /\ router = 0 /\ pool = 0 /\ config = 0
    /\ disturbed = (disk # 0)

\* The reload has read the file and is not done with it.
Reloading(c) == job[c].at \notin {"idle", "load"}

-----------------------------------------------------------------------------
(* The watcher and the console *)

Goes(c, step) == job' = [job EXCEPT ![c].at = step]

Adopt == seen' = pending

\* A change is acted on when the signature has stopped moving.  The watcher does not
\* poll while its reload runs.
Poll ==
    /\ job["watcher"].at = "idle"
    /\ \/ /\ disk = seen /\ pending # NoSignature
          /\ pending' = NoSignature
          /\ UNCHANGED <<seen, job>>
       \/ /\ disk # seen /\ pending # disk
          /\ pending' = disk
          /\ UNCHANGED <<seen, job>>
       \/ /\ disk # seen /\ pending = disk
          /\ pending' = NoSignature /\ Adopt
          /\ Goes("watcher", "load")
    /\ UNCHANGED <<disk, good, noted, InUse, disturbed>>

\* POST /admin/config/reload.
Press ==
    /\ job["console"].at = "idle" /\ Goes("console", "load")
    /\ UNCHANGED <<disk, good, seen, pending, noted, InUse, disturbed>>

-----------------------------------------------------------------------------
(* reload_config *)

\* In a thread: the file is read; one that does not parse ends the reload.
Read(c) ==
    /\ job[c].at = "load"
    /\ IF good
       THEN job' = [job EXCEPT ![c] =
                       [at |-> "note", got |-> disk,
                        alone |-> \A d \in Callers \ {c} : ~Reloading(d)]]
       ELSE Goes(c, "idle")
    /\ UNCHANGED <<disk, good, seen, pending, noted, InUse, disturbed>>

\* The signature the stale-write gate goes by is that of the file by now.
Note(c) ==
    /\ job[c].at = "note" /\ Goes(c, "router")
    /\ noted' = disk
    /\ UNCHANGED <<disk, good, seen, pending, InUse, disturbed>>

ReloadRouter(c) ==
    /\ job[c].at = "router" /\ Goes(c, "pool")
    /\ router' = job[c].got
    /\ UNCHANGED <<disk, good, seen, pending, noted, pool, config, disturbed>>

\* mutant: a reload leaves the pool as it was built at startup.
KeepPool(c) ==
    /\ job[c].at = "pool" /\ Goes(c, "assign")
    /\ UNCHANGED <<disk, good, seen, pending, noted, InUse, disturbed>>

\* Register, then reconcile; then the database is asked for overrides.
RebuildPool(c) ==
    /\ job[c].at = "pool" /\ Goes(c, "assign")
    /\ pool' = job[c].got
    /\ UNCHANGED <<disk, good, seen, pending, noted, router, config, disturbed>>

\* Back on the event loop.
Assign(c) ==
    /\ job[c].at = "assign" /\ Goes(c, "mirror")
    /\ config' = job[c].got
    /\ UNCHANGED <<disk, good, seen, pending, noted, router, pool, disturbed>>

\* The reload fails halfway: router and pool are new, the rest is not.
DbFails(c) ==
    /\ DbErrors /\ job[c].at = "assign" /\ Goes(c, "idle")
    /\ disturbed' = TRUE
    /\ UNCHANGED <<disk, good, seen, pending, noted, InUse>>

\* The mirror in the database is renewed or not; the watcher starts from the file as it
\* is by now.
Reseed(c) ==
    /\ job[c].at = "mirror" /\ Goes(c, "idle")
    /\ seen' = disk /\ pending' = NoSignature
    /\ disturbed' = (disturbed /\ ~job[c].alone)
    /\ UNCHANGED <<disk, good, noted, InUse>>

ReloadStep(c) ==
    \/ Read(c) \/ Note(c) \/ ReloadRouter(c) \/ RebuildPool(c)
    \/ Assign(c) \/ DbFails(c) \/ Reseed(c)

-----------------------------------------------------------------------------
(* Writers *)

Write == disk < MaxWrites /\ disk' = disk + 1
Overtakes ==
    /\ disturbed' = (disturbed \/ \E c \in Callers : Reloading(c))
    /\ job' = [c \in Callers |-> [job[c] EXCEPT !.alone = FALSE]]

\* An editor writes the file, or part of it.
Edit ==
    /\ Write /\ good' \in BOOLEAN
    /\ Overtakes
    /\ UNCHANGED <<seen, pending, noted, InUse>>

\* mutant: no gate, as it used to be.
NoGate == TRUE

Gate == noted = disk

\* A change made in the console goes to the file and to what is in use; what was behind
\* the file stays behind.
Save ==
    /\ good /\ Gate /\ Write
    /\ LET changed(v) == IF v = disk THEN disk + 1 ELSE v IN
       router' = changed(router) /\ pool' = changed(pool) /\ config' = changed(config)
    /\ noted' = disk + 1
    /\ seen' = disk + 1 /\ pending' = NoSignature
    /\ Overtakes
    /\ UNCHANGED good

Next ==
    \/ Poll \/ Press \/ Edit \/ Save
    \/ \E c \in Callers : ReloadStep(c)

Spec == Init /\ [][Next]_vars

\* The watcher polls and reloads come to their end.
FairSpec ==
    /\ Spec
    /\ WF_vars(Poll)
    /\ \A c \in Callers : WF_vars(ReloadStep(c))

-----------------------------------------------------------------------------
(* Properties *)

\* A console save does not revert an edit: what it changes is what the file holds, unless
\* the load that opened the gate was overtaken.
SaveKeepsEdits == [][Save /\ ~disturbed /\ ~(\E c \in Callers : Reloading(c)) => config = disk]_vars

UpToDate == router = disk /\ pool = disk /\ config = disk

\* One change, one reload: the watcher comes to rest when the file does, even if the file
\* does not parse and whoever else reloads; and an edit that parses has then taken effect on
\* its own, unless a write or another reload overtook the load.
EditsTakeEffect ==
    <>[](job["watcher"].at = "idle" /\ (UpToDate \/ ~good \/ disturbed))
=============================================================================
