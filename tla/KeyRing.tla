------------------------------- MODULE KeyRing -------------------------------
(***************************************************************************)
(* The keys of a provider, as the console adds, rotates, renames and       *)
(* deletes them (app/api/admin/providers.py): the secret is a variable in  *)
(* .env and in the environment of the process, providers.yaml names the    *)
(* variable (app/core/config_writer.py), and the pool holds the secret     *)
(* itself (app/credentials/pool.py).  An operation writes .env, then       *)
(* providers.yaml, then cleans .env up, and the process may die between.   *)
(*                                                                         *)
(* The entries of a provider are in the order they were added in: each has *)
(* the number of the operation that added it.                              *)
(*                                                                         *)
(* Not modelled: keys written into the YAML (development only), the        *)
(* enabled flag and the priority of an entry, variables that the           *)
(* operating system has set.                                               *)
(***************************************************************************)
EXTENDS Naturals

CONSTANTS
    Ids, Vars, Secrets,     \* credential ids, names of variables, keys
    NoKey,                   \* no such variable, or no such credential
    FirstId, FirstVar, FirstSecret,     \* the credential there is at first
    MaxWork                 \* bound: operations, edits and crashes in a behaviour

VARIABLES
    envFile,    \* .env: [Vars -> Secrets \cup {NoKey}]
    env,        \* os.environ
    file,       \* credentials in providers.yaml: [numbers -> [id, var]]
    listed,     \* provider.credentials in memory
    pool,       \* CredentialRuntime.secret; Unset without a key, NoKey without a credential
    off,        \* credentials disabled at runtime
    stale,      \* providers.yaml has been edited since it was noted
    up,
    op,         \* the console operation under way: Idle or [do, id, var, step]
    had,        \* history: credentials that were given a key and not deleted
    twin,       \* history: an id was added a second time
    refused,    \* history: a refused write left .env ahead of the pool
    leftover,   \* history: a refusal or a crash left a variable behind
    work

vars == <<envFile, env, file, listed, pool, off, stale, up, op, had, twin, refused, leftover, work>>
history == <<had, twin, refused, leftover>>

Unset == "unset"
Idle == [do |-> "idle"]

Entry(c, v) == [id |-> c, var |-> v]
Of(entries, c) == {n \in DOMAIN entries : entries[n].id = c}
IdsIn(entries) == {entries[n].id : n \in DOMAIN entries}
FirstOf(entries, c) == CHOOSE n \in Of(entries, c) : \A m \in Of(entries, c) : n <= m
LastOf(entries, c) == CHOOSE n \in Of(entries, c) : \A m \in Of(entries, c) : m <= n

\* The entry with number n set, and only the entries with these numbers.
Put(entries, n, e) == [m \in DOMAIN entries \cup {n} |-> IF m = n THEN e ELSE entries[m]]
Only(entries, numbers) == [m \in numbers |-> entries[m]]

Lists(entries) ==
    /\ DOMAIN entries \subseteq 0 .. work
    /\ entries \in [DOMAIN entries -> [id : Ids, var : Vars]]

TypeOK ==
    /\ envFile \in [Vars -> Secrets \cup {NoKey}] /\ env \in [Vars -> Secrets \cup {NoKey}]
    /\ Lists(file) /\ Lists(listed)
    /\ pool \in [Ids -> Secrets \cup {Unset, NoKey}]
    /\ off \subseteq Ids /\ had \subseteq Ids /\ work \in 0 .. MaxWork
    /\ {stale, up, twin, refused, leftover} \subseteq BOOLEAN

\* resolve_env_reference and _build_runtime, for every entry in turn: the last of an id wins.
Registered(entries, variables) ==
    [c \in Ids |->
        IF c \notin IdsIn(entries) THEN NoKey
        ELSE LET secret == variables[entries[LastOf(entries, c)].var]
             IN IF secret = NoKey THEN Unset ELSE secret]

Init ==
    /\ envFile = [v \in Vars |-> IF v = FirstVar THEN FirstSecret ELSE NoKey] /\ env = envFile
    /\ file = [n \in {0} |-> Entry(FirstId, FirstVar)] /\ listed = file
    /\ pool = Registered(file, env)
    /\ off = {} /\ stale = FALSE /\ up = TRUE /\ op = Idle
    /\ had = {FirstId} /\ twin = FALSE /\ refused = FALSE /\ leftover = FALSE /\ work = 0

Works == work < MaxWork /\ work' = work + 1

-----------------------------------------------------------------------------
(* The parts of an operation *)

\* upsert_env_var, and the export that makes the key work at once.
Export(v, secret) ==
    envFile' = [envFile EXCEPT ![v] = secret] /\ env' = [env EXCEPT ![v] = secret]

\* mutant: whoever else uses the variable is not asked.
FreedBlindly(v, c) == TRUE

\* No other credential names v: still_used.
Freed(v, c) == \A n \in DOMAIN listed : listed[n].var = v => listed[n].id = c

\* delete_env_var
Drop(v) == envFile' = [envFile EXCEPT ![v] = NoKey] /\ env' = [env EXCEPT ![v] = NoKey]

\* reconcile and register_provider: runtimes are made anew, so a disabled one is back.
Register(entries) ==
    /\ listed' = entries /\ pool' = Registered(entries, env') /\ off' = {}

Disabled(c) == c \in off \/ pool[c] = Unset
Current(c) == listed[FirstOf(listed, c)].var

\* The operation fails after .env was written: the gate, or no such entry in the file.
GivesUp(v) ==
    /\ op' = Idle /\ refused' = TRUE
    /\ leftover' = (leftover \/ \A n \in DOMAIN listed : listed[n].var # v)
    /\ UNCHANGED <<envFile, env, file, listed, pool, off, had, twin>>

-----------------------------------------------------------------------------
(* Operations: the first step, on .env *)

\* add_credential, with a key for .env or, for a variable that is there, without.
Add(c, v, secret) ==
    /\ up /\ op = Idle /\ Works
    /\ IF secret = NoKey THEN UNCHANGED <<envFile, env>> ELSE Export(v, secret)
    /\ op' = [do |-> "add", id |-> c, var |-> v, key |-> secret # NoKey]
    /\ UNCHANGED <<file, listed, pool, off, stale, up, history>>

\* update_credential with a key: rotation, under the name the credential has; no file needs
\* writing.
Rotate(c, secret) ==
    /\ up /\ op = Idle /\ Works /\ c \in IdsIn(listed)
    /\ Export(Current(c), secret)
    /\ Register(listed)
    /\ had' = had \cup {c}
    /\ UNCHANGED <<file, stale, up, op, twin, refused, leftover>>

\* update_credential with another variable: only for a disabled credential; its key moves
\* along, or a new one is written.
RenameVar(c, v, secret) ==
    /\ up /\ op = Idle /\ Works /\ c \in IdsIn(listed) /\ v # Current(c) /\ Disabled(c)
    /\ LET key == IF secret = NoKey THEN env[Current(c)] ELSE secret IN
       /\ IF key = NoKey THEN UNCHANGED <<envFile, env>> ELSE Export(v, key)
       /\ op' = [do |-> "rename", id |-> c, var |-> v, key |-> key # NoKey]
    /\ UNCHANGED <<file, listed, pool, off, stale, up, history>>

\* update_credential with another id.
RenameId(c, d) ==
    /\ up /\ op = Idle /\ Works /\ c \in IdsIn(listed) /\ d \notin IdsIn(listed) /\ Disabled(c)
    /\ op' = [do |-> "id", id |-> c, to |-> d, var |-> Current(c), key |-> FALSE]
    /\ UNCHANGED <<envFile, env, file, listed, pool, off, stale, up, history>>

\* delete_credential: disabled ones only.
Delete(c) ==
    /\ up /\ op = Idle /\ Works /\ c \in IdsIn(listed) /\ Disabled(c)
    /\ op' = [do |-> "delete", id |-> c, var |-> Current(c), key |-> FALSE]
    /\ UNCHANGED <<envFile, env, file, listed, pool, off, stale, up, history>>

-----------------------------------------------------------------------------
(* The second step, on providers.yaml; the third, on .env, memory and pool *)

\* append_credential_to_provider, update_credential_in_provider and
\* delete_credential_from_provider: one entry, the first of its id.
Rewritten(o) ==
    LET at == FirstOf(file, o.id) IN
    CASE o.do = "add" -> Put(file, work, Entry(o.id, o.var))
      [] o.do = "rename" -> Put(file, at, Entry(o.id, o.var))
      [] o.do = "id" -> Put(file, at, Entry(o.to, file[at].var))
      [] o.do = "delete" -> Only(file, DOMAIN file \ {at})

WriteFile ==
    /\ up /\ op # Idle /\ "old" \notin DOMAIN op
    /\ IF stale \/ (op.do # "add" /\ op.id \notin IdsIn(file))
       THEN GivesUp(op.var)
       ELSE /\ file' = Rewritten(op)
            /\ op' = [do |-> op.do, id |-> op.id, var |-> op.var, key |-> op.key,
                      to |-> IF op.do = "id" THEN op.to ELSE op.id,
                      old |-> IF op.do = "add" THEN NoKey ELSE Current(op.id)]
            /\ twin' = (twin \/ (op.do = "add" /\ op.id \in IdsIn(file)))
            /\ UNCHANGED <<envFile, env, listed, pool, off, had, refused, leftover>>
    /\ UNCHANGED <<stale, up, work>>

Finish ==
    /\ up /\ op # Idle /\ "old" \in DOMAIN op /\ op' = Idle
    /\ LET c == op.id
           others == Only(listed, DOMAIN listed \ Of(listed, c))
           entries == CASE op.do = "add" -> Put(others, work, Entry(c, op.var))
                        [] op.do = "delete" -> others
                        [] OTHER -> [n \in DOMAIN listed |->
                               IF listed[n].id = c THEN Entry(op.to, op.var) ELSE listed[n]]
       IN /\ IF op.do \in {"rename", "delete"} /\ Freed(op.old, c)
             THEN Drop(op.old) ELSE UNCHANGED <<envFile, env>>
          /\ Register(entries)
          /\ had' = CASE op.do = "delete" -> had \ {c}
                      [] op.do = "id" -> (had \ {c}) \cup (IF c \in had THEN {op.to} ELSE {})
                      [] op.do = "add" /\ ~op.key -> had \ {c}
                      [] OTHER -> had \cup (IF op.key THEN {c} ELSE {})
    /\ UNCHANGED <<file, stale, up, twin, refused, leftover, work>>

\* disable_credential and enable_credential: the pool only.
Toggle(c) ==
    /\ up /\ op = Idle /\ pool[c] \in Secrets
    /\ off' = IF c \in off THEN off \ {c} ELSE off \cup {c}
    /\ UNCHANGED <<envFile, env, file, listed, pool, stale, up, op, history, work>>

-----------------------------------------------------------------------------

\* An editor saves providers.yaml: nothing about this provider's keys changes.
Edit ==
    /\ ~stale /\ stale' = TRUE /\ op = Idle /\ Works
    /\ UNCHANGED <<envFile, env, file, listed, pool, off, up, op, history>>

\* load_dotenv_file: variables the process has are not overridden.
LoadedEnv == [v \in Vars |-> IF env[v] # NoKey THEN env[v] ELSE envFile[v]]

Reload ==
    /\ up /\ op = Idle
    /\ env' = LoadedEnv /\ Register(file)
    /\ stale' = FALSE /\ refused' = FALSE
    /\ UNCHANGED <<envFile, file, up, op, had, twin, leftover, work>>

Crash ==
    /\ up /\ up' = FALSE /\ Works
    /\ op' = Idle /\ leftover' = (leftover \/ op # Idle)
    /\ had' = CASE op = Idle -> had
                [] op.do = "delete" -> had \ {op.id}
                [] op.do = "id" -> had \ {op.id}
                [] OTHER -> had
    /\ UNCHANGED <<envFile, env, file, listed, pool, off, stale, twin, refused>>

Start ==
    /\ ~up /\ up' = TRUE
    /\ env' = envFile /\ Register(file)
    /\ stale' = FALSE /\ refused' = FALSE
    /\ UNCHANGED <<envFile, file, op, had, twin, leftover, work>>

Next ==
    \/ \E c \in Ids : \/ \E v \in Vars, s \in Secrets \cup {NoKey} : Add(c, v, s) \/ RenameVar(c, v, s)
                      \/ \E s \in Secrets : Rotate(c, s)
                      \/ \E d \in Ids : RenameId(c, d)
                      \/ Delete(c) \/ Toggle(c)
    \/ WriteFile \/ Finish
    \/ Edit \/ Reload \/ Crash \/ Start

Spec == Init /\ [][Next]_vars

-----------------------------------------------------------------------------
(* Properties *)

Quiet == up /\ op = Idle /\ ~twin

\* What the console changed is what a restart finds: every credential of the pool holds the
\* key that .env gives to the variable its entry names (the live export of add_credential and
\* update_credential, the reconcile after each).
RestartChangesNothing ==
    Quiet /\ ~stale /\ ~refused => pool = Registered(file, envFile)

\* A credential that was given a key has one, whatever was renamed, rotated or deleted around
\* it, and wherever the process died ("otherwise the key is lost after a rename";
\* still_used before a variable is dropped).
NoKeyLost == Quiet => \A c \in had : pool[c] \in Secrets

\* "Deleting a credential must also remove its key from .env" (delete_env_var): no key stays
\* behind unless a refusal or a crash cut an operation short.
DeletedKeysGo ==
    Quiet /\ ~leftover =>
        \A v \in Vars : envFile[v] # NoKey => \E n \in DOMAIN listed : listed[n].var = v
=============================================================================
