---------------------------- MODULE ConsoleConfig ----------------------------
(***************************************************************************)
(* Where the configuration lives: providers.yaml and models.yaml, which    *)
(* the console rewrites entry by entry (app/core/config_writer.py), the    *)
(* configuration in memory (app/api/admin), the router's alias registry,   *)
(* and the quota rules kept in the database when there is no file to write *)
(* to (app/database/repositories/config.py); with reloads, editors,        *)
(* refused writes, crashes and restarts.                                   *)
(*                                                                         *)
(* Providers have an id and a quota; there is one model, given by the      *)
(* providers it is deployed on, and one alias of it.  A file that is not   *)
(* there is made up for by its committed template, which is never written. *)
(***************************************************************************)
EXTENDS Naturals, FiniteSets

CONSTANTS
    Names,          \* possible ids of providers
    Template,       \* the templates: [quota, deps, alias]
    Gone,           \* a file that is not there
    MaxWork         \* bound: operations, edits, reloads and crashes in a behaviour

Quotas == {"own", "console"}    \* as written by hand, as set in the console
Absent == "absent"
None == "none"
Entries == [Names -> Quotas \cup {Absent}]
Catalogues == [deps : SUBSET Names, alias : BOOLEAN]
Files == {"providers", "models"}
Idle == [text |-> Gone]

(* The known ways in which memory and files come apart; properties hold outside of them.   *)
(* "lost": the process died between the two renames of a write; "half": a rename was       *)
(* refused half way; "refused": a refused write left its change in memory, or the reverse; *)
(* "overtaken": a reload was overtaken by an operation, or read while one was writing;     *)
(* "peek": a page re-armed the gate against stale writes; "shadow": a rename dropped the   *)
(* quota that the database kept for a provider; "orphan": the database kept the quota of   *)
(* the last provider there was, to be found by the next of that id.                        *)
Mishaps == {"lost", "half", "refused", "overtaken", "peek", "shadow", "orphan"}

VARIABLES
    providers, models,  \* the files: Entries, Catalogues, or Gone
    stale,              \* files changed since their mtimes were noted: _guard_not_stale
    up,
    config,             \* Container.config: [quota, deps, alias, from]; from: source_files
    registry,           \* the alias is in the router's AliasRegistry
    reload,             \* the reload in its thread: Idle or [text, overtaken]
    op,                 \* the operation that has moved its file away: Idle or [o, step, text]
    console,            \* quotas in the database with rate_limits_source = console, or None
    unread,             \* history: files that hold an edit that memory does not
    gone,               \* history: deleted in the console, outside of mishaps, and not added since
    asked,              \* history: quotas that the operator has set in the console
    astray,             \* history: merged as providers while there were none, and still none
    mishaps,            \* history: a set of Mishaps
    strayed,            \* history: an editor has written a file, or there was a mishap
    work

vars == <<providers, models, stale, up, config, registry, reload, op, console,
          unread, gone, asked, astray, mishaps, strayed, work>>
files == <<providers, models>>
memory == <<config, registry>>
history == <<unread, gone, asked, astray>>

Deps(quota) == {n \in Names : quota[n] # Absent}
Holds(f) == IF f = "providers" THEN providers # Gone ELSE models # Gone

TypeOK ==
    /\ providers \in Entries \cup {Gone} /\ models \in Catalogues \cup {Gone}
    /\ stale \subseteq Files /\ unread \subseteq Files /\ mishaps \subseteq Mishaps
    /\ up \in BOOLEAN /\ registry \in BOOLEAN /\ strayed \in BOOLEAN
    /\ config \in [quota : Entries, deps : SUBSET Names, alias : BOOLEAN, from : SUBSET Files]
    /\ console \in [Names -> Quotas \cup {None}] /\ asked \subseteq Names /\ astray \subseteq Names
    /\ gone \subseteq Names \cup {"model", "alias"} /\ work \in 0 .. MaxWork

-----------------------------------------------------------------------------
(* Loading *)

\* load_app_config: each file, or its template.
OnDisk ==
    [quota |-> IF providers = Gone THEN Template.quota ELSE providers,
     deps |-> IF models = Gone THEN Template.deps ELSE models.deps,
     alias |-> IF models = Gone THEN Template.alias ELSE models.alias,
     from |-> {f \in Files : Holds(f)}]

\* apply_db_overrides
Overridden(c) ==
    [c EXCEPT !.quota = [n \in Names |-> IF @[n] # Absent /\ console[n] # None
                                         THEN console[n] ELSE @[n]]]

\* sync_config: the rows of providers that are no more go, console rules are kept.
Mirrored(rows, quota) ==
    IF Deps(quota) = {} THEN rows
    ELSE [n \in Names |-> IF quota[n] = Absent THEN None ELSE rows[n]]

Init ==
    /\ \/ providers = Template.quota /\ models = [deps |-> Template.deps, alias |-> Template.alias]
       \/ providers = Gone /\ models = Gone
    /\ stale = {} /\ unread = {} /\ up = TRUE
    /\ config = OnDisk /\ registry = OnDisk.alias
    /\ reload = Idle /\ op = Idle
    /\ console = [n \in Names |-> None] /\ asked = {}
    /\ gone = {} /\ astray = {} /\ mishaps = {} /\ strayed = FALSE /\ work = 0

Strays == strayed' = (strayed \/ mishaps' # {} \/ unread' # unread)

\* sync_config wipes no table, so the rows of the last providers stay when those are gone.
Orphans == IF \E n \in Names : console'[n] # None /\ config'.quota[n] = Absent
           THEN {"orphan"} ELSE {}

Works == work < MaxWork /\ work' = work + 1

\* What reading both files afresh does not heal.
Lasting == (IF providers # Gone /\ models # Gone THEN {} ELSE {"lost"}) \cup {"half"}

\* Container.startup: mirror, override, mirror again.
Start ==
    /\ ~up /\ up' = TRUE
    /\ console' = Mirrored(console, OnDisk.quota)
    /\ config' = [OnDisk EXCEPT !.quota = [n \in Names |->
                     IF @[n] # Absent /\ console'[n] # None THEN console'[n] ELSE @[n]]]
    /\ registry' = OnDisk.alias /\ stale' = {} /\ unread' = {}
    /\ mishaps' = (mishaps \cap Lasting) \cup Orphans
    /\ UNCHANGED <<files, reload, op, gone, asked, astray, work>>
    /\ Strays

\* The process dies, between the two renames of a write at the worst.
Crash ==
    /\ up /\ up' = FALSE /\ Works
    /\ reload' = Idle /\ op' = Idle
    /\ mishaps' = mishaps \cup (IF op = Idle THEN {} ELSE
          CASE op.step = "put" -> {"lost"} [] op.step = "retarget" -> {"half"}
            [] op.step = "put2" -> {"lost", "half"})
    /\ UNCHANGED <<files, stale, memory, console, history>>
    /\ Strays

\* reload_config, in a thread: the files are read while the console may be writing one, and
\* the router goes by what was read at once.
ReloadRead ==
    /\ up /\ reload = Idle /\ Works
    /\ reload' = [text |-> OnDisk, overtaken |-> op # Idle]
    /\ registry' = OnDisk.alias /\ stale' = {}
    /\ UNCHANGED <<files, up, config, op, console, history, mishaps>>
    /\ Strays

\* reload_config, back on the loop.
ReloadAssign ==
    /\ up /\ reload # Idle /\ op = Idle
    /\ config' = Overridden(reload.text)
    /\ console' = Mirrored(console, reload.text.quota)
    /\ reload' = Idle
    /\ IF reload.overtaken
       THEN mishaps' = mishaps \cup {"overtaken"} /\ asked' = {} /\ UNCHANGED unread
       ELSE mishaps' = (mishaps \cap Lasting) \cup Orphans /\ unread' = {} /\ UNCHANGED asked
    /\ UNCHANGED <<files, stale, up, registry, op, gone, astray, work>>
    /\ Strays

Overtake ==
    reload' = IF reload = Idle THEN reload ELSE [reload EXCEPT !.overtaken = TRUE]

-----------------------------------------------------------------------------
(* Console operations: what each asks of the configuration in memory, what it writes, and
   what it does to memory and database.  n is a provider, to the new name of one. *)

On(do, n, to) == [do |-> do, n |-> n, to |-> to]

FileOf(o) == IF o.do \in {"quota", "provider", "rename", "remove provider"}
             THEN "providers" ELSE "models"

\* mutant: a provider is removed without a look at the deployments on it.
AcceptsAny(o) ==
    CASE o.do \in {"quota", "model", "remove provider"} -> config.quota[o.n] # Absent
      [] o.do = "merge" -> config.deps # {}
      [] o.do = "rename" -> config.quota[o.n] # Absent /\ config.quota[o.to] = Absent
      [] o.do = "remove model" -> config.deps # {} /\ ~config.alias
      [] o.do = "alias" -> config.deps # {}
      [] o.do = "remove alias" -> registry
      [] o.do = "provider" -> TRUE

\* What the endpoint answers 404, 409 or 400 without.  A merge asks for the model only, not
\* whether the provider exists.
Accepts(o) ==
    CASE o.do \in {"quota", "model"} -> config.quota[o.n] # Absent
      [] o.do = "merge" -> config.deps # {}
      [] o.do = "rename" -> config.quota[o.n] # Absent /\ config.quota[o.to] = Absent
      [] o.do = "remove provider" -> config.quota[o.n] # Absent /\ o.n \notin config.deps
      [] o.do = "remove model" -> config.deps # {} /\ ~config.alias
      [] o.do = "alias" -> config.deps # {}
      [] o.do = "remove alias" -> registry
      [] o.do = "provider" -> TRUE

\* The entry is looked for in the file first: a quota and a rename fail without it.
Finds(o) == o.do \in {"quota", "rename"} => providers[o.n] # Absent

Renamed(deps, o) == IF o.n \in deps THEN (deps \ {o.n}) \cup {o.to} ELSE deps

\* A removal writes nothing when the entry is not there: delete_list_entry.
NothingToWrite(o) ==
    \/ o.do = "remove provider" /\ providers[o.n] = Absent
    \/ o.do = "remove model" /\ models.deps = {}
    \/ o.do = "remove alias" /\ ~models.alias

\* What the file will hold: one entry of it replaced, the rest as it was read.
Written(o) ==
    CASE o.do = "quota" -> [providers EXCEPT ![o.n] = "console"]
      [] o.do = "provider" ->
            [providers EXCEPT ![o.n] = IF config.quota[o.n] = Absent THEN "own" ELSE config.quota[o.n]]
      [] o.do = "rename" -> [providers EXCEPT ![o.n] = Absent, ![o.to] = providers[o.n]]
      [] o.do = "remove provider" -> [providers EXCEPT ![o.n] = Absent]
      [] o.do = "model" -> [models EXCEPT !.deps = {o.n}]
      [] o.do = "merge" -> [models EXCEPT !.deps = config.deps \cup {o.n}]
      [] o.do = "remove model" -> [models EXCEPT !.deps = {}]
      [] o.do = "alias" -> [models EXCEPT !.alias = TRUE]
      [] o.do = "remove alias" -> [models EXCEPT !.alias = FALSE]

\* mutant: a rename forgets the deployments in memory.
InMemoryForgetful(o) ==
    CASE o.do = "rename" -> [config EXCEPT !.quota[o.n] = Absent, !.quota[o.to] = config.quota[o.n]]
      [] OTHER -> config

\* What the configuration in memory becomes.
QuotaAfter(o) ==
    CASE o.do = "quota" -> [config.quota EXCEPT ![o.n] = "console"]
      [] o.do = "provider" -> [config.quota EXCEPT ![o.n] = IF @ = Absent THEN "own" ELSE @]
      [] o.do = "rename" -> [config.quota EXCEPT ![o.n] = Absent, ![o.to] = config.quota[o.n]]
      [] o.do = "remove provider" -> [config.quota EXCEPT ![o.n] = Absent]
      [] OTHER -> config.quota
DepsAfter(o) ==
    CASE o.do = "rename" -> Renamed(config.deps, o)
      [] o.do = "model" -> {o.n}
      [] o.do = "merge" -> config.deps \cup {o.n}
      [] o.do = "remove model" -> {}
      [] OTHER -> config.deps
AliasAfter(o) == o.do = "alias" \/ (config.alias /\ o.do # "remove alias")
InMemory(o) ==
    [config EXCEPT !.quota = QuotaAfter(o), !.deps = DepsAfter(o), !.alias = AliasAfter(o)]

\* set_provider_rate_limits, or clear_ when the file holds the quota now; sync_config
\* after the operations on providers.
InDatabase(o) ==
    IF o.do = "quota" THEN [console EXCEPT ![o.n] = IF "providers" \in config.from THEN None ELSE "console"]
    ELSE IF FileOf(o) = "providers" THEN Mirrored(console, InMemory(o).quota)
    ELSE console

\* What the console has deleted, and the quotas it has been asked for, after an operation.
GoneAfter(o) ==
    LET deleted(x) == IF mishaps = {} THEN gone \cup {x} ELSE gone IN
    CASE o.do = "provider" -> gone \ {o.n}
      [] o.do = "rename" -> deleted(o.n) \ {o.to}
      [] o.do = "remove provider" -> deleted(o.n)
      [] o.do \in {"model", "merge"} -> gone \ {"model"}
      [] o.do = "remove model" -> deleted("model")
      [] o.do = "alias" -> gone \ {"alias"}
      [] o.do = "remove alias" -> deleted("alias")
      [] OTHER -> gone
AskedAfter(o) ==
    CASE o.do = "quota" -> asked \cup {o.n}
      [] o.do = "provider" /\ config.quota[o.n] # "console" -> asked \ {o.n}
      [] o.do = "rename" ->
            (asked \ {o.n, o.to}) \cup (IF o.n \in asked /\ console[o.n] = None THEN {o.to} ELSE {})
      [] o.do = "remove provider" -> asked \ {o.n}
      [] OTHER -> asked

\* The providers that deployments were merged onto and that are not there.
AstrayAfter(o) ==
    {n \in astray \cup (IF o.do = "merge" THEN {o.n} ELSE {}) : QuotaAfter(o)[n] = Absent}

\* The end of an operation: memory, router and database, whether a file was written or not.
Done(o) ==
    /\ config' = InMemory(o)
    /\ registry' = (o.do = "alias" \/ (registry /\ o.do # "remove alias"))
    /\ console' = InDatabase(o)
    /\ gone' = GoneAfter(o) /\ asked' = AskedAfter(o) /\ astray' = AstrayAfter(o) /\ Overtake
    /\ mishaps' = mishaps \cup Orphans \cup
                     (IF o.do = "rename" /\ console[o.n] # None THEN {"shadow"} ELSE {})

Asked(o) == up /\ op = Idle /\ Works /\ Accepts(o)

\* mutant: the gate is open.
GateOpen(f) == TRUE

\* _guard_not_stale
Fresh(f) == f \notin stale

\* The write has begun: the file is the backup now, its successor not yet in its place.
Rotate(o, step, text) ==
    /\ op' = [o |-> o, step |-> step, text |-> text]
    /\ IF step = "put" /\ FileOf(o) = "providers" THEN providers' = Gone /\ UNCHANGED models
       ELSE models' = Gone /\ UNCHANGED providers

Begin(o) ==
    /\ Asked(o) /\ FileOf(o) \in config.from /\ Finds(o) /\ ~NothingToWrite(o)
    /\ Fresh(FileOf(o))
    /\ Rotate(o, "put", Written(o)) /\ Overtake
    /\ UNCHANGED <<stale, up, memory, console, history, mishaps>>
    /\ Strays

\* A refused write.  By then a merge has been made in memory, and the alias has left the
\* registry; nothing undoes either.
Refuse(o) ==
    /\ Asked(o) /\ FileOf(o) \in config.from /\ Finds(o) /\ ~NothingToWrite(o)
    /\ ~Fresh(FileOf(o))
    /\ config' = IF o.do = "merge" THEN [config EXCEPT !.deps = @ \cup {o.n}] ELSE config
    /\ registry' = (registry /\ o.do # "remove alias")
    /\ mishaps' = IF o.do \in {"merge", "remove alias"} THEN mishaps \cup {"refused"} ELSE mishaps
    /\ UNCHANGED <<files, stale, up, reload, op, console, history>>
    /\ Strays

\* No file to write: a template is never rewritten, and a removal may find nothing to remove.
\* (A rename still goes on to the other file.)
Unwritten(o) ==
    /\ Asked(o)
    /\ (FileOf(o) \in config.from => NothingToWrite(o))
    /\ IF o.do = "rename"
       THEN /\ op' = [o |-> o, step |-> "retarget", text |-> Gone] /\ Overtake
            /\ UNCHANGED <<memory, console, gone, asked, astray, mishaps>>
       ELSE Done(o) /\ UNCHANGED op
    /\ UNCHANGED <<files, stale, up, unread>>
    /\ Strays

\* The new file takes its place and is noted as our own; a rename has the deployments to
\* retarget, any other operation is done.  When the database fails, the model in memory is
\* put back, and the file is not.
Put ==
    /\ up /\ op # Idle /\ op.step \in {"put", "put2"}
    /\ LET file == IF op.step = "put2" THEN "models" ELSE FileOf(op.o) IN
       /\ IF file = "providers" THEN providers' = op.text /\ UNCHANGED models
          ELSE models' = op.text /\ UNCHANGED providers
       /\ stale' = stale \ {file}
    /\ \/ /\ op.o.do = "rename" /\ op.step = "put"
          /\ op' = [op EXCEPT !.step = "retarget", !.text = Gone] /\ Overtake
          /\ UNCHANGED <<memory, console, gone, asked, astray, mishaps>>
       \/ op.o.do = "rename" /\ op.step = "put2" /\ op' = Idle /\ Done(op.o)
       \/ op.o.do # "rename" /\ op' = Idle /\ Done(op.o)
       \/ /\ op.o.do = "model" /\ op' = Idle /\ mishaps' = mishaps \cup {"refused"} /\ Overtake
          /\ gone' = gone \ {"model"} /\ UNCHANGED <<memory, console, asked, astray>>
    /\ UNCHANGED <<up, unread, work>>
    /\ Strays

\* retarget_deployments, the second file of a rename: not written when nothing refers to the
\* provider there; when it is refused, providers.yaml has the new name already.
Retarget ==
    /\ up /\ op # Idle /\ op.step = "retarget"
    /\ LET o == op.o
           nothing == "models" \in config.from => o.n \notin models.deps
       IN \/ nothing /\ Done(o) /\ op' = Idle /\ UNCHANGED files
          \/ /\ ~nothing /\ Fresh("models")
             /\ Rotate(o, "put2", [models EXCEPT !.deps = Renamed(@, o)])
             /\ UNCHANGED <<memory, reload, console, gone, asked, astray, mishaps>>
          \/ /\ ~nothing /\ ~Fresh("models")
             /\ op' = Idle /\ mishaps' = mishaps \cup {"half"}
             /\ UNCHANGED <<files, memory, reload, console, gone, asked, astray>>
    /\ UNCHANGED <<stale, up, unread, work>>
    /\ Strays

Operate(o) == Begin(o) \/ Refuse(o) \/ Unwritten(o)

SetProviderLimits(n) == Operate(On("quota", n, None))
UpsertProvider(n) == Operate(On("provider", n, None))
RenameProvider(n, to) == Operate(On("rename", n, to))
DeleteProvider(n) == Operate(On("remove provider", n, None))
UpsertModel(n) == Operate(On("model", n, None))
MergeModel(n) == Operate(On("merge", n, None))
DeleteModel == Operate(On("remove model", None, None))
UpsertAlias == Operate(On("alias", None, None))
DeleteAlias == Operate(On("remove alias", None, None))

\* reset_provider_limits reads the files again for one provider's quota, and notes their
\* mtimes: the gate lets a stale configuration through from then on.
ResetProviderLimits(n) ==
    /\ up /\ op = Idle /\ config.quota[n] # Absent /\ Works
    /\ config' = [config EXCEPT !.quota[n] = IF OnDisk.quota[n] = Absent THEN "own" ELSE OnDisk.quota[n]]
    /\ console' = [console EXCEPT ![n] = None]
    /\ asked' = asked \ {n}
    /\ stale' = {} /\ mishaps' = IF stale = {} THEN mishaps ELSE mishaps \cup {"peek"}
    /\ Overtake
    /\ UNCHANGED <<files, up, registry, op, unread, gone, astray>>
    /\ Strays

\* Other pages read the files too, without taking them over: _burner_paths.
Peek ==
    /\ up /\ op = Idle /\ stale # {}
    /\ stale' = {} /\ mishaps' = mishaps \cup {"peek"}
    /\ UNCHANGED <<files, up, memory, reload, op, console, history, work>>
    /\ Strays

-----------------------------------------------------------------------------
(* An editor saves a file: one entry is changed, or a lost file put back.  Not in the
   instant in which the console replaces the same file. *)

EditProviders ==
    /\ op = Idle /\ Works
    /\ \/ \E n \in Names, q \in {"own", Absent} :
            /\ providers # Gone /\ providers[n] # q
            /\ providers' = [providers EXCEPT ![n] = q]
       \/ providers = Gone /\ "lost" \in mishaps /\ providers' = Template.quota
    /\ stale' = stale \cup {"providers"} /\ unread' = unread \cup {"providers"}
    /\ gone' = gone \ Deps(providers') /\ asked' = {}
    /\ Overtake
    /\ UNCHANGED <<models, up, memory, op, console, astray, mishaps>>
    /\ Strays

EditModels ==
    /\ op = Idle /\ Works
    /\ \/ \E deps \in SUBSET Names, alias \in BOOLEAN :
            /\ models # Gone /\ models' = [deps |-> deps, alias |-> alias] /\ models' # models
       \/ /\ models = Gone /\ "lost" \in mishaps
          /\ models' = [deps |-> Template.deps, alias |-> Template.alias]
    /\ stale' = stale \cup {"models"} /\ unread' = unread \cup {"models"}
    /\ gone' = gone \ {"model", "alias"}
    /\ Overtake
    /\ UNCHANGED <<providers, up, memory, op, console, asked, astray, mishaps>>
    /\ Strays

Operation ==
    \/ \E n \in Names : SetProviderLimits(n) \/ ResetProviderLimits(n) \/ UpsertProvider(n)
                        \/ DeleteProvider(n) \/ UpsertModel(n) \/ MergeModel(n)
    \/ \E n, to \in Names : RenameProvider(n, to)
    \/ DeleteModel \/ UpsertAlias \/ DeleteAlias
    \/ Put \/ Retarget \/ Peek

Next ==
    \/ Start \/ Crash \/ ReloadRead \/ ReloadAssign \/ Operation
    \/ EditProviders \/ EditModels

Spec == Init /\ [][Next]_vars

-----------------------------------------------------------------------------
(* Properties *)

Quiet == up /\ op = Idle /\ reload = Idle

\* Whatever sequence of console operations, reloads, edits and restarts came before: outside
\* of the known mishaps the configuration in memory is what a restart would load (read-backs
\* of all the write endpoints, and the overrides of apply_db_overrides).
MemoryIsFile ==
    Quiet /\ mishaps = {} =>
        /\ "providers" \in config.from \ unread => config.quota = Overridden(OnDisk).quota
        /\ "models" \in config.from \ unread =>
              config.deps = models.deps /\ config.alias = models.alias /\ registry = config.alias

\* The console never writes a file that holds an edit the gateway has not taken over
\* (ConfigStaleError), save after a page has re-armed the gate, or while a reload is between
\* noting the files and taking them over.
GateHolds ==
    [][\A f \in Files : op # Idle /\ ~Holds(f) /\ Holds(f)' =>
          \/ f \notin unread
          \/ mishaps \cap {"peek", "overtaken"} # {} \/ reload # Idle]_vars

\* A quota set in the console holds through reloads, crashes and restarts, whether it went
\* to providers.yaml or, where there is only a template, to the database (set_provider_limits).
LimitsSurvive ==
    Quiet /\ mishaps = {} => \A n \in asked : config.quota[n] \in {"console", Absent}

\* Through any sequence of console operations, reloads, crashes and restarts, a deployment
\* without a provider is one that a merge put there (upsert_model checks the providers of a
\* model it saves whole, not of one it merges into; delete_provider's check, rename_provider's
\* sweep).  Editors may write what they like, so the claim ends with the first edit.
DeploymentsHaveProviders ==
    Quiet /\ mishaps = {} /\ ~strayed => config.deps \subseteq Deps(config.quota) \cup astray

\* "A reload/restart can never resurrect an entry the operator removed" (config_writer.py):
\* with files of one's own, what the console deleted stays deleted, outside of the mishaps.
DeletedNeverReturns ==
    Quiet /\ mishaps = {} /\ config.from = Files =>
        /\ \A n \in gone \cap Names : config.quota[n] = Absent
        /\ "model" \in gone => config.deps = {}
        /\ "alias" \in gone => ~config.alias
=============================================================================
