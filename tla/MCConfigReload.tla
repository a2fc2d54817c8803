---------------------------- MODULE MCConfigReload ----------------------------
(***************************************************************************)
(* The configuration, in three parts that share no state; a behaviour is   *)
(* one of them, chosen at first:                                           *)
(*   "reload"  hot reload of one file (ConfigReload);                      *)
(*   "files"   configuration files, memory and database (ConsoleConfig),   *)
(*             two provider ids of which the template has one, with a      *)
(*             model on it and an alias;                                   *)
(*   "keys"    the keys of a provider (KeyRing), two ids and two variables *)
(***************************************************************************)
EXTENDS ConfigReload, TLC

CONSTANTS
    a, b, Names, Template, Gone, ConsoleWork,
    Ids, Vars, Secrets, NoKey, FirstId, FirstVar, FirstSecret, KeyWork

\* There is a credential at first, and no key is mistaken for none.
ASSUME KeysAssumption ==
    /\ NoKey \notin Ids \cup Vars \cup Secrets /\ KeyWork \in Nat
    /\ FirstId \in Ids /\ FirstVar \in Vars /\ FirstSecret \in Secrets

MCTemplate == [quota |-> a :> "own" @@ b :> "absent", deps |-> {a}, alias |-> TRUE]

\* The templates are sound, and stand apart from a file that is not there.
ASSUME TemplateAssumption ==
    /\ Template \in [quota : [Names -> {"own", "absent"}], deps : SUBSET Names, alias : BOOLEAN]
    /\ \A n \in Template.deps : Template.quota[n] # "absent"
    /\ Gone \notin [Names -> {"own", "console", "absent"}] \cup [deps : SUBSET Names, alias : BOOLEAN]
    /\ Names \cap {"model", "alias"} = {}

VARIABLES
    part,
    providers, models, stale, up, inMemory, registry, reload, op, console, unread, gone,
    asked, astray, mishaps, strayed, work,
    envFile, env, file, listed, ring, disabled, keysStale, keysUp, keysOp, had, twin,
    refused, leftover, keysWork

consoleVars == <<providers, models, stale, up, inMemory, registry, reload, op, console,
                 unread, gone, asked, astray, mishaps, strayed, work>>
keysVars == <<envFile, env, file, listed, ring, disabled, keysStale, keysUp, keysOp, had,
              twin, refused, leftover, keysWork>>
all == <<part, vars, consoleVars, keysVars>>

Console == INSTANCE ConsoleConfig WITH MaxWork <- ConsoleWork, config <- inMemory

Keys == INSTANCE KeyRing WITH
    MaxWork <- KeyWork, pool <- ring, off <- disabled, stale <- keysStale, up <- keysUp,
    op <- keysOp, work <- keysWork

\* Parts that are not looked at rest where they start; there is one such start of each.
MCInit ==
    /\ part \in {"reload", "files", "keys"}
    /\ Init /\ Console!Init /\ Keys!Init
    /\ part # "reload" => disk = 0
    /\ part # "files" => providers # Gone

OnlyReload == part = "reload" /\ UNCHANGED <<part, consoleVars, keysVars>>
ReloadNext == Next /\ OnlyReload
ReloadPolls == Poll /\ OnlyReload
ReloadGoesOn(c) == ReloadStep(c) /\ OnlyReload
FilesNext == part = "files" /\ Console!Next /\ UNCHANGED <<part, vars, keysVars>>
KeysNext == part = "keys" /\ Keys!Next /\ UNCHANGED <<part, vars, consoleVars>>

\* FairSpec of the reloads.
MCSpec ==
    /\ MCInit /\ [][ReloadNext \/ FilesNext \/ KeysNext]_all
    /\ WF_all(ReloadPolls) /\ \A c \in Callers : WF_all(ReloadGoesOn(c))

-----------------------------------------------------------------------------
\* Outside of the mishaps ConsoleConfig lists memory is what a restart would load, quotas set
\* in the console hold (apply_db_overrides, set_provider_limits), and what the console deleted
\* stays deleted (config_writer.py).
MemoryIsFile ==
    Console!MemoryIsFile /\ Console!LimitsSurvive /\ Console!DeletedNeverReturns

\* The console writes no file that holds an unread edit (ConfigStaleError).
GateHolds == Console!GateHolds

\* No console operation but a merge leaves a model on a provider that is not there
\* (delete_provider, rename_provider, upsert_model).
DeploymentsHaveProviders == Console!DeploymentsHaveProviders

\* The pool's keys are those a restart would find (update_credential's live export), no
\* credential loses its key, and a deleted one leaves none behind (still_used, delete_env_var).
KeysAreKept == Keys!RestartChangesNothing /\ Keys!NoKeyLost /\ Keys!DeletedKeysGo
=============================================================================
