-------------------------- MODULE ConfigReloadProofs --------------------------
(***************************************************************************)
(* Proofs about MCConfigReload, for any number of writes, providers,       *)
(* operations, edits, reloads and crashes.  ConfigReload: a console save   *)
(* that nothing overtook finds in memory what the file holds.  KeyRing: no *)
(* key is lost.  ConsoleConfig: memory is what the files hold, deployments *)
(* stay on providers, quotas stay set, and what was deleted stays deleted. *)
(***************************************************************************)
EXTENDS MCConfigReload, TLAPS

-----------------------------------------------------------------------------
(* The inductive invariant *)

\* Nothing was written since the reloads that are on have read the file.
Calm == ~disturbed \/ \E c \in Callers : Reloading(c) /\ job[c].alone

\* What the reloads that are on have read, and what those past their assignment have put
\* in use, is the file; the gate is never ahead of the file; and when no reload is on, an
\* open gate means that the file is in use.
Current ==
    /\ Calm => \A c \in Callers : Reloading(c) => job[c].got = disk
    /\ Calm => \A c \in Callers : job[c].at = "mirror" => config = disk
    /\ noted <= disk
    /\ ~disturbed /\ noted = disk /\ (\A c \in Callers : ~Reloading(c)) => config = disk

IInv == TypeOK /\ Current

-----------------------------------------------------------------------------

\* A job goes on to another step, or starts with what it has read.
LEMMA JobTypes ==
    ASSUME TypeOK, NEW c \in Callers
    PROVE  /\ \A step \in Steps : Goes(c, step) =>
                /\ job' \in [Callers -> [at : Steps, got : Versions, alone : BOOLEAN]]
                /\ job'[c].at = step /\ job'[c].got = job[c].got /\ job'[c].alone = job[c].alone
                /\ \A d \in Callers : d # c => job'[d] = job[d]
           /\ \A alone \in BOOLEAN : \A got \in Versions :
                job' = [job EXCEPT ![c] = [at |-> "note", got |-> got, alone |-> alone]] =>
                /\ job' \in [Callers -> [at : Steps, got : Versions, alone : BOOLEAN]]
                /\ job'[c].at = "note" /\ job'[c].got = got /\ job'[c].alone = alone
                /\ \A d \in Callers : d # c => job'[d] = job[d]
  <1>1. job \in [Callers -> [at : Steps, got : Versions, alone : BOOLEAN]]
    BY DEF TypeOK
  <1>2. ASSUME NEW step \in Steps, Goes(c, step)
        PROVE  /\ job' \in [Callers -> [at : Steps, got : Versions, alone : BOOLEAN]]
               /\ job'[c].at = step /\ job'[c].got = job[c].got /\ job'[c].alone = job[c].alone
               /\ \A d \in Callers : d # c => job'[d] = job[d]
    BY <1>1, <1>2 DEF Goes
  <1>3. ASSUME NEW alone \in BOOLEAN, NEW got \in Versions,
               job' = [job EXCEPT ![c] = [at |-> "note", got |-> got, alone |-> alone]]
        PROVE  /\ job' \in [Callers -> [at : Steps, got : Versions, alone : BOOLEAN]]
               /\ job'[c].at = "note" /\ job'[c].got = got /\ job'[c].alone = alone
               /\ \A d \in Callers : d # c => job'[d] = job[d]
    BY <1>1, <1>3 DEF Steps
  <1>. QED BY <1>2, <1>3

LEMMA InitIInv == Init => IInv
  <1>. SUFFICES ASSUME Init PROVE IInv
    OBVIOUS
  <1>1. 0 \in Versions /\ disk \in Versions /\ disk \in Nat
    BY ReloadAssumption DEF Init, Versions
  <1>2. TypeOK
    BY <1>1 DEF Init, TypeOK, Steps
  <1>. QED BY <1>1, <1>2 DEF Init, IInv, Current, Reloading

\* The versions are numbers.
LEMMA VersionFacts ==
    ASSUME TypeOK
    PROVE  /\ disk \in Nat /\ noted \in Nat /\ config \in Nat
           /\ disk < MaxWrites => disk + 1 \in Versions
  BY ReloadAssumption DEF TypeOK, Versions

LEMMA PollStep == ASSUME IInv, Poll PROVE IInv'
  <1>1. /\ UNCHANGED <<disk, good, noted, router, pool, config, disturbed>>
        /\ seen' \in Versions /\ pending' \in Versions \cup {NoSignature}
    BY DEF Poll, IInv, TypeOK, Adopt, InUse
  <1>2. CASE UNCHANGED job
    BY <1>1, <1>2 DEF IInv, TypeOK, Current, Calm, Reloading
  <1>3. CASE job["watcher"].at = "idle" /\ Goes("watcher", "load")
    <2>1. /\ job' \in [Callers -> [at : Steps, got : Versions, alone : BOOLEAN]]
          /\ job'["watcher"].at = "load"
          /\ \A d \in Callers : d # "watcher" => job'[d] = job[d]
      BY <1>3, JobTypes DEF IInv, Callers, Steps
    <2>. QED BY <1>1, <1>3, <2>1 DEF IInv, TypeOK, Current, Calm, Reloading
  <1>. QED BY <1>2, <1>3 DEF Poll

LEMMA PressStep == ASSUME IInv, Press PROVE IInv'
  <1>1. /\ UNCHANGED <<disk, good, seen, pending, noted, router, pool, config, disturbed>>
        /\ job["console"].at = "idle"
    BY DEF Press, InUse
  <1>2. /\ job' \in [Callers -> [at : Steps, got : Versions, alone : BOOLEAN]]
        /\ job'["console"].at = "load"
        /\ \A d \in Callers : d # "console" => job'[d] = job[d]
    BY JobTypes DEF IInv, Callers, Steps, Press
  <1>. QED BY <1>1, <1>2 DEF IInv, TypeOK, Current, Calm, Reloading

LEMMA ReadStep == ASSUME IInv, NEW c \in Callers, Read(c) PROVE IInv'
  <1>1. /\ UNCHANGED <<disk, good, seen, pending, noted, router, pool, config, disturbed>>
        /\ job[c].at = "load"
    BY DEF Read, InUse
  <1>2. CASE Goes(c, "idle")
    <2>1. /\ job' \in [Callers -> [at : Steps, got : Versions, alone : BOOLEAN]]
          /\ job'[c].at = "idle" /\ \A d \in Callers : d # c => job'[d] = job[d]
      BY <1>2, JobTypes DEF IInv, Steps
    <2>. QED BY <1>1, <2>1 DEF IInv, TypeOK, Current, Calm, Reloading
  <1>3. CASE job' = [job EXCEPT ![c] =
                        [at |-> "note", got |-> disk,
                         alone |-> \A d \in Callers \ {c} : ~Reloading(d)]]
    <2> DEFINE alone == \A d \in Callers \ {c} : ~Reloading(d)
    <2>1. alone \in BOOLEAN /\ disk \in Versions
      BY DEF IInv, TypeOK
    <2>2. /\ job' \in [Callers -> [at : Steps, got : Versions, alone : BOOLEAN]]
          /\ job'[c].at = "note" /\ job'[c].got = disk /\ job'[c].alone = alone
          /\ \A d \in Callers : d # c => job'[d] = job[d]
      BY <1>3, <2>1, JobTypes DEF IInv
    <2>3. \A d \in Callers : d # c => (Reloading(d)' <=> Reloading(d))
      BY <2>2 DEF Reloading
    <2>4. CASE alone
      BY <1>1, <2>2, <2>3, <2>4 DEF IInv, TypeOK, Current, Calm, Reloading
    <2>5. CASE ~alone
      BY <1>1, <2>2, <2>3, <2>5 DEF IInv, TypeOK, Current, Calm, Reloading
    <2>. QED BY <2>4, <2>5
  <1>. QED BY <1>2, <1>3 DEF Read

\* The steps of a reload between reading the file and telling the watcher.
LEMMA MiddleStep ==
    ASSUME IInv, NEW c \in Callers,
           Note(c) \/ ReloadRouter(c) \/ RebuildPool(c) \/ Assign(c)
    PROVE  IInv'
  <1>1. PICK step \in {"router", "pool", "assign", "mirror"} : Goes(c, step)
    BY DEF Note, ReloadRouter, RebuildPool, Assign
  <1>2. /\ job' \in [Callers -> [at : Steps, got : Versions, alone : BOOLEAN]]
        /\ job'[c].at = step /\ job'[c].got = job[c].got /\ job'[c].alone = job[c].alone
        /\ \A d \in Callers : d # c => job'[d] = job[d]
    BY <1>1, JobTypes DEF IInv, Steps
  <1>3. /\ UNCHANGED <<disk, good, seen, pending, disturbed>>
        /\ noted' \in {noted, disk} /\ router' \in {router, job[c].got}
        /\ pool' \in {pool, job[c].got} /\ config' \in {config, job[c].got}
        /\ Reloading(c) /\ job[c].at # "mirror"
        /\ step = "mirror" => config' = job[c].got
        /\ job[c].got \in Versions
    <2>1. job[c].got \in Versions
      BY DEF IInv, TypeOK
    <2>2. job'[c].at = step
      BY <1>2
    <2>. QED BY <1>2, <2>1, <2>2, JobTypes
             DEF Note, ReloadRouter, RebuildPool, Assign, InUse, Reloading, IInv, Steps
  <1>4. /\ \A d \in Callers : Reloading(d)' <=> Reloading(d)
        /\ Calm' <=> Calm
    BY <1>1, <1>2, <1>3 DEF Reloading, Calm
  <1>5. TypeOK'
    BY <1>2, <1>3 DEF IInv, TypeOK
  <1>6. Current'
    BY <1>1, <1>2, <1>3, <1>4, VersionFacts DEF IInv, Current
  <1>. QED BY <1>5, <1>6 DEF IInv

LEMMA DbFailsStep == ASSUME IInv, NEW c \in Callers, DbFails(c) PROVE IInv'
  <1>1. /\ UNCHANGED <<disk, good, seen, pending, noted, router, pool, config>>
        /\ disturbed' = TRUE
    BY DEF DbFails, InUse
  <1>2. /\ job' \in [Callers -> [at : Steps, got : Versions, alone : BOOLEAN]]
        /\ job'[c].at = "idle" /\ \A d \in Callers : d # c => job'[d] = job[d]
    BY JobTypes DEF IInv, Steps, DbFails
  <1>. QED BY <1>1, <1>2 DEF IInv, TypeOK, Current, Calm, Reloading

LEMMA ReseedStep == ASSUME IInv, NEW c \in Callers, Reseed(c) PROVE IInv'
  <1>1. /\ UNCHANGED <<disk, good, noted, router, pool, config>>
        /\ seen' = disk /\ pending' = NoSignature
        /\ disturbed' = (disturbed /\ ~job[c].alone) /\ job[c].at = "mirror"
    BY DEF Reseed, InUse
  <1>2. /\ job' \in [Callers -> [at : Steps, got : Versions, alone : BOOLEAN]]
        /\ job'[c].at = "idle" /\ \A d \in Callers : d # c => job'[d] = job[d]
    BY JobTypes DEF IInv, Steps, Reseed
  <1>3. TypeOK'
    BY <1>1, <1>2 DEF IInv, TypeOK
  <1>4. Calm' => Calm
    BY <1>1, <1>2 DEF Calm, Reloading
  <1>5. ~disturbed' => config = disk
    BY <1>1 DEF IInv, Current, Calm, Reloading
  <1>6. Current'
    BY <1>1, <1>2, <1>4, <1>5 DEF IInv, Current, Reloading
  <1>. QED BY <1>3, <1>6 DEF IInv

\* A write takes the calm from the reloads that are on.
LEMMA Overtaken ==
    ASSUME IInv, Overtakes
    PROVE  /\ job' \in [Callers -> [at : Steps, got : Versions, alone : BOOLEAN]]
           /\ disturbed' \in BOOLEAN
           /\ \A c \in Callers : job'[c].at = job[c].at /\ ~job'[c].alone
           /\ Calm' => ~disturbed /\ \A c \in Callers : ~Reloading(c) /\ ~Reloading(c)'
  <1>1. \A c \in Callers : /\ job'[c] \in [at : Steps, got : Versions, alone : BOOLEAN]
                           /\ job'[c].at = job[c].at /\ ~job'[c].alone
    BY DEF Overtakes, IInv, TypeOK
  <1>2. job' = [c \in Callers |-> job'[c]]
    BY DEF Overtakes
  <1>3. disturbed' \in BOOLEAN
    BY DEF Overtakes, IInv, TypeOK
  <1>4. Calm' => ~disturbed /\ \A c \in Callers : ~Reloading(c) /\ ~Reloading(c)'
    BY <1>1 DEF Overtakes, Calm, Reloading
  <1>. QED BY <1>1, <1>2, <1>3, <1>4

LEMMA EditStep == ASSUME IInv, Edit PROVE IInv'
  <1>1. /\ UNCHANGED <<seen, pending, noted, router, pool, config>> /\ good' \in BOOLEAN
        /\ disk' = disk + 1 /\ disk' \in Versions /\ noted <= disk
        /\ disk \in Nat /\ noted \in Nat
    BY VersionFacts DEF Edit, Write, InUse, IInv, Current
  <1>2. TypeOK'
    BY <1>1, Overtaken DEF Edit, IInv, TypeOK
  <1>3. Current'
    BY <1>1, Overtaken DEF Edit, Current, Reloading
  <1>. QED BY <1>2, <1>3 DEF IInv

LEMMA SaveStep == ASSUME IInv, Save PROVE IInv'
  <1>1. /\ disk' = disk + 1 /\ disk' \in Versions /\ noted' = disk' /\ good' = good
        /\ seen' = disk' /\ pending' = NoSignature /\ noted = disk
        /\ disk \in Nat
    BY VersionFacts DEF Save, Write, Gate, IInv
  <1>2. /\ router' \in {router, disk'} /\ pool' \in {pool, disk'} /\ config' \in {config, disk'}
        /\ config = disk => config' = disk'
    BY <1>1 DEF Save
  <1>3. TypeOK'
    BY <1>1, <1>2, Overtaken DEF Save, IInv, TypeOK
  <1>4. Current'
    <2>1. Calm' => config' = disk'
      BY <1>1, <1>2, Overtaken DEF Save, IInv, Current
    <2>2. ~disturbed' => Calm'
      BY DEF Calm
    <2>. QED BY <1>1, <2>1, <2>2, Overtaken DEF Save, Current
  <1>. QED BY <1>3, <1>4 DEF IInv

LEMMA NextIInv == IInv /\ [Next]_vars => IInv'
  <1>. SUFFICES ASSUME IInv, [Next]_vars PROVE IInv'
    OBVIOUS
  <1>1. CASE UNCHANGED vars
    BY <1>1 DEF vars, InUse, IInv, TypeOK, Current, Calm, Reloading
  <1>2. CASE Next
    BY <1>2, PollStep, PressStep, ReadStep, MiddleStep, DbFailsStep, ReseedStep, EditStep,
       SaveStep DEF Next, ReloadStep
  <1>. QED BY <1>1, <1>2

\* The inductive invariant holds in every reachable state.
THEOREM Inductive == Spec => []IInv
  BY InitIInv, NextIInv, PTL DEF Spec

\* Versions, signatures and the steps of both reloads stay in their ranges.
THEOREM ReloadTypesCorrect == Spec => []TypeOK
  <1>1. IInv => TypeOK
    BY DEF IInv
  <1>. QED BY <1>1, Inductive, PTL

\* A console save that no reload is overtaking starts from what the file holds: it reverts
\* no edit, however often and by whomever the file was written before.
THEOREM SavesRevertNothing == Spec => SaveKeepsEdits
  <1>1. IInv /\ [Next]_vars =>
            [Save /\ ~disturbed /\ ~(\E c \in Callers : Reloading(c)) => config = disk]_vars
    BY DEF IInv, Current, Save, Gate
  <1>. QED BY <1>1, Inductive, PTL DEF Spec, SaveKeepsEdits

-----------------------------------------------------------------------------
(* The keys of a provider: the inductive invariant *)

Variables == [Vars -> Secrets \cup {NoKey}]

\* Every entry has an id of its own.
Unique(entries) ==
    \A m, n \in DOMAIN entries : entries[m].id = entries[n].id => m = n

\* A list of entries with numbers of operations that there have been.
Listing(entries) == Keys!Lists(entries) /\ Unique(entries)

HasKey(entries, c) ==
    \E n \in DOMAIN entries : entries[n].id = c /\ env[entries[n].var] \in Secrets

\* An operation has begun: .env is written.
First ==
    keysOp \in [do : {"add", "rename", "delete"}, id : Ids, var : Vars, key : BOOLEAN]
               \cup [do : {"id"}, id : Ids, to : Ids, var : Vars, key : {FALSE}]

\* providers.yaml is written too.
Second ==
    keysOp \in [do : {"add", "rename", "delete", "id"}, id : Ids, var : Vars, key : BOOLEAN,
                to : Ids, old : Vars \cup {NoKey}]

\* What an operation under way goes by: entry n is the one it works on.
WorksOn(n) ==
    /\ n \in DOMAIN listed /\ listed[n].id = keysOp.id
    /\ keysOp.do = "rename" => keysOp.var # listed[n].var
    /\ keysOp.do # "rename" => keysOp.var = listed[n].var
    /\ Second =>
        /\ keysOp.old = listed[n].var
        /\ keysOp.do = "rename" =>
             keysOp.to = keysOp.id /\ file = Keys!Put(listed, n, Keys!Entry(keysOp.id, keysOp.var))
        /\ keysOp.do = "id" => file = Keys!Put(listed, n, Keys!Entry(keysOp.to, keysOp.var))
        /\ keysOp.do = "delete" => file = Keys!Only(listed, DOMAIN listed \ {n})

Underway ==
    /\ keysOp = Keys!Idle \/ First \/ Second
    /\ keysOp # Keys!Idle =>
        /\ keysUp
        /\ keysOp.key /\ keysOp.do \in {"add", "rename"} => env[keysOp.var] \in Secrets
        /\ keysOp.do = "add" =>
            /\ keysWork \notin DOMAIN listed
            /\ Second => /\ keysOp.id \notin Keys!IdsIn(listed)
                         /\ file = Keys!Put(listed, keysWork, Keys!Entry(keysOp.id, keysOp.var))
        /\ keysOp.do # "add" => \E n \in DOMAIN listed : WorksOn(n)
        /\ keysOp.do = "rename" /\ ~keysOp.key => keysOp.id \notin had
        /\ keysOp.do = "id" => keysOp.to \notin Keys!IdsIn(listed)

\* Files, environment, memory and pool say the same, as far as no operation is in between.
InStep ==
    /\ envFile = env
    /\ (keysUp \/ ~leftover) /\ ~Second => listed = file
    /\ keysUp /\ keysOp = Keys!Idle /\ ~refused => ring = Keys!Registered(listed, env)

\* No key is lost: memory and pool have it, and so does the file, for the next start, unless
\* the operation under way takes it out.
KeysHeld ==
    /\ keysUp => \A c \in had : HasKey(listed, c) /\ ring[c] \in Secrets
    /\ \A c \in had : \/ HasKey(file, c)
                      \/ keysOp # Keys!Idle /\ keysOp.do \in {"delete", "id"} /\ keysOp.id = c

\* No key stays behind.
KeysNamed ==
    ~leftover => \A v \in Vars : env[v] # NoKey =>
        \/ \E n \in DOMAIN listed : listed[n].var = v
        \/ keysOp # Keys!Idle /\ keysOp.do \in {"add", "rename"} /\ keysOp.var = v

KeysCalm ==
    /\ env \in Variables /\ had \subseteq Ids /\ keysWork \in Nat
    /\ Listing(file) /\ Listing(listed)
    /\ Underway /\ InStep /\ KeysHeld /\ KeysNamed

\* All of this as long as no id was added twice.
KeysInv == twin \in BOOLEAN /\ (~twin => KeysCalm)

-----------------------------------------------------------------------------
(* Entries, and what is made of them *)

\* An entry is the first and the last of its id.
LEMMA EntriesAt ==
    ASSUME NEW entries, Listing(entries), keysWork \in Nat, NEW n \in DOMAIN entries
    PROVE  /\ n \in 0 .. keysWork /\ n \in Nat
           /\ entries[n].id \in Ids /\ entries[n].var \in Vars
           /\ Keys!Of(entries, entries[n].id) = {n}
           /\ Keys!FirstOf(entries, entries[n].id) = n /\ Keys!LastOf(entries, entries[n].id) = n
  <1>1. /\ n \in 0 .. keysWork /\ n \in Nat /\ entries[n] \in [id : Ids, var : Vars]
    BY DEF Listing, Keys!Lists
  <1>2. Keys!Of(entries, entries[n].id) = {n}
    BY DEF Listing, Unique, Keys!Of
  <1>3. /\ Keys!FirstOf(entries, entries[n].id) = n
        /\ Keys!LastOf(entries, entries[n].id) = n
    BY <1>1, <1>2 DEF Keys!FirstOf, Keys!LastOf
  <1>. QED BY <1>1, <1>2, <1>3

\* The pool has the key that the variable of an entry holds.
LEMMA RegisteredKeys ==
    ASSUME NEW entries, Listing(entries), keysWork \in Nat, NEW variables,
           NEW n \in DOMAIN entries, variables[entries[n].var] \in Secrets
    PROVE  Keys!Registered(entries, variables)[entries[n].id] \in Secrets
  <1>1. /\ entries[n].id \in Keys!IdsIn(entries) /\ entries[n].id \in Ids
        /\ Keys!LastOf(entries, entries[n].id) = n
    BY EntriesAt DEF Keys!IdsIn
  <1>. QED BY <1>1, KeysAssumption DEF Keys!Registered

\* One entry set, under an id that no other has.
LEMMA PutLists ==
    ASSUME NEW entries, Listing(entries), keysWork \in Nat, NEW n \in 0 .. keysWork,
           NEW c \in Ids, NEW v \in Vars,
           \A m \in DOMAIN entries : m # n => entries[m].id # c
    PROVE  LET more == Keys!Put(entries, n, Keys!Entry(c, v)) IN
           /\ Listing(more) /\ DOMAIN more = DOMAIN entries \cup {n}
           /\ more[n].id = c /\ more[n].var = v
           /\ \A m \in DOMAIN entries : m # n => more[m] = entries[m]
  <1> DEFINE more == Keys!Put(entries, n, Keys!Entry(c, v))
  <1>1. /\ DOMAIN more = DOMAIN entries \cup {n}
        /\ more = [m \in DOMAIN more |-> more[m]]
        /\ more[n] = [id |-> c, var |-> v]
        /\ \A m \in DOMAIN entries : m # n => more[m] = entries[m]
    BY DEF Keys!Put, Keys!Entry
  <1>2. /\ DOMAIN entries \subseteq 0 .. keysWork
        /\ entries \in [DOMAIN entries -> [id : Ids, var : Vars]]
    BY DEF Listing, Keys!Lists
  <1> HIDE DEF more
  <1>3. more[n] \in [id : Ids, var : Vars] /\ more[n].id = c /\ more[n].var = v
    BY <1>1
  <1>4. \A m \in DOMAIN more : more[m] \in [id : Ids, var : Vars]
    BY <1>1, <1>2, <1>3
  <1>5. Keys!Lists(more)
    BY <1>1, <1>2, <1>4 DEF Keys!Lists
  <1>6. Unique(more)
    BY <1>1, <1>3 DEF Listing, Unique
  <1>7. /\ Listing(more) /\ DOMAIN more = DOMAIN entries \cup {n}
        /\ more[n].id = c /\ more[n].var = v
        /\ \A m \in DOMAIN entries : m # n => more[m] = entries[m]
    BY <1>1, <1>3, <1>5, <1>6 DEF Listing
  <1>. QED BY <1>7 DEF more

\* Some of the entries.
LEMMA OnlyLists ==
    ASSUME NEW entries, Listing(entries), NEW numbers \in SUBSET DOMAIN entries
    PROVE  LET less == Keys!Only(entries, numbers) IN
           /\ Listing(less) /\ DOMAIN less = numbers
           /\ \A m \in numbers : less[m] = entries[m]
  <1>1. /\ DOMAIN entries \subseteq 0 .. keysWork
        /\ entries \in [DOMAIN entries -> [id : Ids, var : Vars]]
    BY DEF Listing, Keys!Lists
  <1>. QED BY <1>1 DEF Listing, Unique, Keys!Lists, Keys!Only

\* At rest, begun, and with both files written are three states of an operation.
LEMMA OpKinds ==
    /\ keysOp = Keys!Idle => ~First /\ ~Second
    /\ First => keysOp # Keys!Idle /\ "old" \notin DOMAIN keysOp /\ ~Second
    /\ Second => keysOp # Keys!Idle /\ "old" \in DOMAIN keysOp
  <1>1. First => keysOp.do # "idle" /\ "old" \notin DOMAIN keysOp
    BY DEF First
  <1>2. Second => keysOp.do # "idle" /\ "old" \in DOMAIN keysOp
    BY DEF Second
  <1>3. keysOp = Keys!Idle => keysOp.do = "idle"
    BY DEF Keys!Idle
  <1>. QED BY <1>1, <1>2, <1>3

LEMMA OpKindsNext ==
    /\ keysOp' = Keys!Idle => ~First' /\ ~Second'
    /\ First' => keysOp' # Keys!Idle /\ ~Second'
    /\ Second' => keysOp' # Keys!Idle
  <1>1. First' => keysOp'.do # "idle" /\ "old" \notin DOMAIN keysOp'
    BY DEF First
  <1>2. Second' => keysOp'.do # "idle" /\ "old" \in DOMAIN keysOp'
    BY DEF Second
  <1>3. keysOp' = Keys!Idle => keysOp'.do = "idle"
    BY DEF Keys!Idle
  <1>. QED BY <1>1, <1>2, <1>3

-----------------------------------------------------------------------------
(* Every operation keeps the invariant *)

\* A key in the environment stays one when variables only get keys.
LEMMA KeysStay ==
    ASSUME NEW entries, Listing(entries), NEW c \in Ids, HasKey(entries, c),
           \A v \in Vars : env[v] \in Secrets => env'[v] \in Secrets
    PROVE  \E n \in DOMAIN entries : entries[n].id = c /\ env'[entries[n].var] \in Secrets
  BY DEF HasKey, Listing, Keys!Lists

LEMMA InitKeys == MCInit => KeysInv
  <1>. SUFFICES ASSUME Keys!Init PROVE KeysInv
    BY DEF MCInit
  <1>1. /\ env = [v \in Vars |-> IF v = FirstVar THEN FirstSecret ELSE NoKey] /\ envFile = env
        /\ file = [n \in {0} |-> Keys!Entry(FirstId, FirstVar)] /\ listed = file
        /\ ring = Keys!Registered(file, env)
        /\ keysUp = TRUE /\ keysOp = Keys!Idle
        /\ had = {FirstId} /\ twin = FALSE /\ keysWork = 0
    BY DEF Keys!Init
  <1>2. env \in Variables /\ had \subseteq Ids /\ keysWork \in Nat
    BY <1>1, KeysAssumption DEF Variables
  <1>3. DOMAIN file = {0} /\ file[0] = [id |-> FirstId, var |-> FirstVar]
    BY <1>1 DEF Keys!Entry
  <1>4. Listing(file)
    <2>1. /\ file[0] \in [id : Ids, var : Vars] /\ file = [n \in {0} |-> file[0]]
          /\ 0 \in 0 .. keysWork
      BY <1>1, <1>3, KeysAssumption
    <2>. QED BY <1>3, <2>1 DEF Listing, Unique, Keys!Lists
  <1>5. env[file[0].var] = FirstSecret /\ file[0].id = FirstId /\ file[0].var = FirstVar
    BY <1>1, <1>3, KeysAssumption
  <1>6. ring[FirstId] \in Secrets
    BY <1>1, <1>2, <1>3, <1>4, <1>5, RegisteredKeys, KeysAssumption
  <1>7. Underway /\ InStep
    BY <1>1, OpKinds DEF Underway, InStep
  <1>8. KeysHeld
    BY <1>1, <1>3, <1>5, <1>6, KeysAssumption DEF KeysHeld, HasKey
  <1>9. KeysNamed
    BY <1>1, <1>3, <1>5 DEF KeysNamed
  <1>. QED BY <1>1, <1>2, <1>4, <1>7, <1>8, <1>9 DEF KeysInv, KeysCalm

\* The lists are in order as long as the files and memory stay.
LEMMA ListingsStay ==
    ASSUME KeysCalm, keysWork' \in {keysWork, keysWork + 1}, UNCHANGED <<file, listed>>
    PROVE  Listing(file)' /\ Listing(listed)' /\ keysWork' \in Nat
  <1>1. 0 .. keysWork \subseteq 0 .. keysWork' /\ keysWork' \in Nat
    BY DEF KeysCalm
  <1>2. Keys!Lists(file)' /\ Keys!Lists(listed)'
    BY <1>1 DEF KeysCalm, Listing, Keys!Lists
  <1>. QED BY <1>1, <1>2 DEF KeysCalm, Listing, Unique

\* The first step of an operation, whichever it is.
LEMMA Begins ==
    ASSUME KeysCalm, keysUp, keysOp = Keys!Idle, keysWork' = keysWork + 1,
           UNCHANGED <<file, listed, ring, keysUp, had, twin, refused, leftover>>,
           First', env' \in Variables, envFile' = env',
           \A v \in Vars : env'[v] # env[v] =>
               /\ v = keysOp'.var /\ keysOp'.do \in {"add", "rename"} /\ env'[v] \in Secrets,
           keysOp'.key /\ keysOp'.do \in {"add", "rename"} => env'[keysOp'.var] \in Secrets,
           keysOp'.do # "add" => \E n \in DOMAIN listed : WorksOn(n)',
           keysOp'.do = "rename" /\ ~keysOp'.key => keysOp'.id \notin had,
           keysOp'.do = "id" => keysOp'.to \notin Keys!IdsIn(listed)
    PROVE  KeysCalm'
  <1>1. Listing(file)' /\ Listing(listed)' /\ keysWork' \in Nat
    BY ListingsStay
  <1>2. had' \subseteq Ids
    BY DEF KeysCalm
  <1>3. keysOp' # Keys!Idle /\ ~Second' /\ ~Second /\ listed = file
    BY OpKinds, OpKindsNext DEF KeysCalm, InStep
  <1>4. Underway'
    <2>1. keysWork' \notin DOMAIN listed
      BY DEF KeysCalm, Listing, Keys!Lists
    <2>2. Keys!IdsIn(listed)' = Keys!IdsIn(listed) /\ DOMAIN listed' = DOMAIN listed
      BY DEF Keys!IdsIn
    <2>. QED BY <1>3, <2>1, <2>2 DEF Underway
  <1>5. InStep'
    BY <1>3 DEF InStep
  <1>6. KeysHeld'
    <2>1. \A v \in Vars : env[v] \in Secrets => env'[v] \in Secrets
      OBVIOUS
    <2>2. \A c \in had : HasKey(file, c) /\ HasKey(listed, c) /\ ring[c] \in Secrets /\ c \in Ids
      BY <1>3 DEF KeysCalm, KeysHeld
    <2>3. \A c \in had : HasKey(file, c)' /\ HasKey(listed, c)'
      <3>1. TAKE c \in had
      <3>2. \E n \in DOMAIN file : file[n].id = c /\ env'[file[n].var] \in Secrets
        BY <2>1, <2>2, KeysStay DEF KeysCalm
      <3>. QED BY <1>3, <3>2 DEF HasKey
    <2>. QED BY <2>2, <2>3 DEF KeysHeld
  <1>7. KeysNamed'
    BY <1>3 DEF KeysCalm, KeysNamed
  <1>. QED BY <1>1, <1>2, <1>4, <1>5, <1>6, <1>7 DEF KeysCalm

LEMMA Exported ==
    ASSUME KeysCalm, NEW v \in Vars, NEW secret \in Secrets, Keys!Export(v, secret)
    PROVE  /\ env' \in Variables /\ envFile' = env' /\ env'[v] = secret
           /\ \A w \in Vars : w # v => env'[w] = env[w]
  BY DEF KeysCalm, InStep, Variables, Keys!Export

LEMMA AddKeys ==
    ASSUME KeysCalm, NEW c \in Ids, NEW v \in Vars, NEW secret \in Secrets \cup {NoKey},
           Keys!Add(c, v, secret)
    PROVE  KeysCalm'
  <1>1. /\ keysUp /\ keysOp = Keys!Idle /\ keysWork' = keysWork + 1
        /\ keysOp' = [do |-> "add", id |-> c, var |-> v, key |-> secret # NoKey]
        /\ UNCHANGED <<file, listed, ring, keysUp, had, twin, refused, leftover>>
    BY DEF Keys!Add, Keys!Works, Keys!history
  <1>2. /\ keysOp'.do = "add" /\ keysOp'.var = v /\ (keysOp'.key <=> secret # NoKey)
    BY <1>1
  <1>3. First'
    <2>1. (secret # NoKey) \in BOOLEAN
      OBVIOUS
    <2>. QED BY <1>1, <2>1 DEF First
  <1>4. /\ env' \in Variables /\ envFile' = env' /\ (secret # NoKey => env'[v] \in Secrets)
        /\ \A w \in Vars : env'[w] # env[w] => w = v /\ env'[w] \in Secrets
    <2>1. CASE secret = NoKey
      BY <2>1 DEF Keys!Add, KeysCalm, InStep
    <2>2. CASE secret # NoKey
      BY <2>2, Exported DEF Keys!Add
    <2>. QED BY <2>1, <2>2
  <1>. QED BY <1>1, <1>2, <1>3, <1>4, Begins

\* The credential an operation is asked for has one entry.
LEMMA EntryOf ==
    ASSUME KeysCalm, NEW c \in Keys!IdsIn(listed)
    PROVE  \E n \in DOMAIN listed :
             /\ n \in 0 .. keysWork /\ listed[n].id = c /\ c \in Ids
             /\ listed[n].var \in Vars /\ Keys!Current(c) = listed[n].var
             /\ Keys!FirstOf(listed, c) = n /\ Keys!Of(listed, c) = {n}
  <1>1. PICK n \in DOMAIN listed : listed[n].id = c
    BY DEF Keys!IdsIn
  <1>. QED BY <1>1, EntriesAt DEF KeysCalm, Keys!Current

LEMMA RenameVarKeys ==
    ASSUME KeysCalm, NEW c \in Ids, NEW v \in Vars, NEW secret \in Secrets \cup {NoKey},
           Keys!RenameVar(c, v, secret)
    PROVE  KeysCalm'
  <1> DEFINE key == IF secret = NoKey THEN env[Keys!Current(c)] ELSE secret
  <1>1. /\ keysUp /\ keysOp = Keys!Idle /\ keysWork' = keysWork + 1
        /\ c \in Keys!IdsIn(listed) /\ v # Keys!Current(c)
        /\ keysOp' = [do |-> "rename", id |-> c, var |-> v, key |-> key # NoKey]
        /\ IF key = NoKey THEN UNCHANGED <<envFile, env>> ELSE Keys!Export(v, key)
        /\ UNCHANGED <<file, listed, ring, keysUp, had, twin, refused, leftover>>
    BY DEF Keys!RenameVar, Keys!Works, Keys!history
  <1>2. PICK n \in DOMAIN listed :
            /\ listed[n].id = c /\ listed[n].var \in Vars /\ Keys!Current(c) = listed[n].var
            /\ Keys!Of(listed, c) = {n}
    BY <1>1, EntryOf
  <1>3. key \in Secrets \cup {NoKey}
    BY <1>2 DEF KeysCalm, Variables
  <1>4. key = NoKey => c \notin had
    <2>. SUFFICES ASSUME key = NoKey, c \in had PROVE FALSE
      OBVIOUS
    <2>1. env[listed[n].var] = NoKey
      BY <1>2, KeysAssumption
    <2>2. HasKey(listed, c)
      BY <1>1 DEF KeysCalm, KeysHeld
    <2>. QED BY <1>2, <2>1, <2>2, KeysAssumption DEF HasKey, Keys!Of
  <1> HIDE DEF key
  <1>5. /\ keysOp'.do = "rename" /\ keysOp'.id = c /\ keysOp'.var = v
        /\ (keysOp'.key <=> key # NoKey)
    BY <1>1
  <1>6. First'
    <2>1. (key # NoKey) \in BOOLEAN
      OBVIOUS
    <2>. QED BY <1>1, <2>1 DEF First
  <1>7. /\ env' \in Variables /\ envFile' = env' /\ (key # NoKey => env'[v] \in Secrets)
        /\ \A w \in Vars : env'[w] # env[w] => w = v /\ env'[w] \in Secrets
    <2>1. CASE key = NoKey
      BY <1>1, <2>1 DEF KeysCalm, InStep
    <2>2. CASE key # NoKey
      BY <1>1, <1>3, <2>2, Exported
    <2>. QED BY <2>1, <2>2
  <1>8. WorksOn(n)'
    BY <1>1, <1>2, <1>5, <1>6, OpKindsNext DEF WorksOn
  <1>. QED BY <1>1, <1>4, <1>5, <1>6, <1>7, <1>8, Begins

\* The operations that leave .env alone at first.
LEMMA PlainKeys ==
    ASSUME KeysCalm, NEW c \in Ids, (\E d \in Ids : Keys!RenameId(c, d)) \/ Keys!Delete(c)
    PROVE  KeysCalm'
  <1>1. /\ keysUp /\ keysOp = Keys!Idle /\ keysWork' = keysWork + 1 /\ c \in Keys!IdsIn(listed)
        /\ UNCHANGED <<env, envFile, file, listed, ring, keysUp, had, twin, refused, leftover>>
    BY DEF Keys!RenameId, Keys!Delete, Keys!Works, Keys!history
  <1>2. PICK n \in DOMAIN listed :
            listed[n].id = c /\ listed[n].var \in Vars /\ Keys!Current(c) = listed[n].var
    BY <1>1, EntryOf
  <1>3. /\ keysOp'.do \in {"id", "delete"} /\ keysOp'.id = c /\ keysOp'.var = listed[n].var
        /\ ~keysOp'.key /\ (keysOp'.do = "id" => keysOp'.to \notin Keys!IdsIn(listed))
        /\ First'
    <2>1. CASE \E d \in Ids : Keys!RenameId(c, d)
      <3>1. PICK d \in Ids : Keys!RenameId(c, d)
        BY <2>1
      <3>2. /\ d \notin Keys!IdsIn(listed)
            /\ keysOp' = [do |-> "id", id |-> c, to |-> d, var |-> listed[n].var, key |-> FALSE]
        BY <1>2, <3>1 DEF Keys!RenameId
      <3>. QED BY <1>2, <3>2 DEF First
    <2>2. CASE Keys!Delete(c)
      <3>1. keysOp' = [do |-> "delete", id |-> c, var |-> listed[n].var, key |-> FALSE]
        BY <1>2, <2>2 DEF Keys!Delete
      <3>. QED BY <1>2, <3>1 DEF First
    <2>. QED BY <2>1, <2>2
  <1>4. WorksOn(n)'
    BY <1>1, <1>2, <1>3, OpKindsNext DEF WorksOn
  <1>5. env' \in Variables /\ envFile' = env'
    BY <1>1 DEF KeysCalm, InStep
  <1>. QED BY <1>1, <1>3, <1>4, <1>5, Begins

\* A key for a credential that stays what it is.
LEMMA RotateKeys ==
    ASSUME KeysCalm, NEW c \in Ids, NEW secret \in Secrets, Keys!Rotate(c, secret)
    PROVE  KeysCalm'
  <1>1. /\ keysUp /\ keysOp = Keys!Idle /\ keysWork' = keysWork + 1 /\ c \in Keys!IdsIn(listed)
        /\ Keys!Export(Keys!Current(c), secret)
        /\ listed' = listed /\ ring' = Keys!Registered(listed, env') /\ had' = had \cup {c}
        /\ UNCHANGED <<file, keysUp, keysOp, twin, refused, leftover>>
    BY DEF Keys!Rotate, Keys!Works, Keys!Register
  <1>2. PICK n \in DOMAIN listed :
            listed[n].id = c /\ listed[n].var \in Vars /\ Keys!Current(c) = listed[n].var
    BY <1>1, EntryOf
  <1>3. /\ env' \in Variables /\ envFile' = env' /\ env'[listed[n].var] = secret
        /\ \A w \in Vars : w # listed[n].var => env'[w] = env[w]
    BY <1>1, <1>2, Exported
  <1>4. Listing(file)' /\ Listing(listed)' /\ keysWork' \in Nat
    BY <1>1, ListingsStay
  <1>5. listed = file /\ ~Second'
    BY <1>1, OpKinds, OpKindsNext DEF KeysCalm, InStep
  <1>6. Underway'
    BY <1>1 DEF Underway
  <1>7. InStep'
    BY <1>1, <1>3, <1>5 DEF InStep
  <1>8. \A d \in had' : d \in Ids /\ HasKey(file, d)' /\ HasKey(listed, d)'
    <2>. SUFFICES ASSUME NEW d \in had'
                  PROVE  d \in Ids /\ HasKey(file, d)' /\ HasKey(listed, d)'
      OBVIOUS
    <2>1. CASE d = c
      BY <1>1, <1>2, <1>3, <1>5, <2>1 DEF HasKey
    <2>2. CASE d # c
      <3>1. d \in had /\ d \in Ids /\ HasKey(listed, d)
        BY <1>1, <2>2 DEF KeysCalm, KeysHeld
      <3>2. \A v \in Vars : env[v] \in Secrets => env'[v] \in Secrets
        BY <1>3
      <3>3. \E m \in DOMAIN listed : listed[m].id = d /\ env'[listed[m].var] \in Secrets
        BY <3>1, <3>2, KeysStay DEF KeysCalm
      <3>. QED BY <1>1, <1>5, <3>1, <3>3 DEF HasKey
    <2>. QED BY <2>1, <2>2
  <1>9. KeysHeld'
    <2>1. \A d \in had' : ring'[d] \in Secrets
      <3>1. TAKE d \in had'
      <3>2. PICK m \in DOMAIN listed : listed[m].id = d /\ env'[listed[m].var] \in Secrets
        BY <1>1, <1>8 DEF HasKey
      <3>. QED BY <1>1, <3>2, RegisteredKeys DEF KeysCalm
    <2>. QED BY <1>8, <2>1 DEF KeysHeld
  <1>10. KeysNamed'
    BY <1>1, <1>2, <1>3 DEF KeysCalm, KeysNamed
  <1>. QED BY <1>3, <1>4, <1>6, <1>7, <1>8, <1>9, <1>10 DEF KeysCalm

LEMMA EditKeys ==
    ASSUME KeysCalm, Keys!Edit \/ \E c \in Ids : Keys!Toggle(c)
    PROVE  KeysCalm'
  <1>1. /\ keysOp = Keys!Idle /\ keysWork' \in {keysWork, keysWork + 1}
        /\ UNCHANGED <<envFile, env, file, listed, ring, keysUp, keysOp, had, twin, refused,
                       leftover>>
    BY DEF Keys!Edit, Keys!Toggle, Keys!Works, Keys!history
  <1>2. Listing(file)' /\ Listing(listed)' /\ keysWork' \in Nat
    BY <1>1, ListingsStay
  <1>3. Underway' /\ InStep'
    BY <1>1, OpKinds, OpKindsNext DEF KeysCalm, Underway, InStep
  <1>4. KeysHeld' /\ KeysNamed'
    BY <1>1 DEF KeysCalm, KeysHeld, KeysNamed, HasKey
  <1>. QED BY <1>1, <1>2, <1>3, <1>4 DEF KeysCalm

\* Whatever memory was, it is the file again: a reload and a start.
LEMMA LoadedKeys ==
    ASSUME KeysCalm, keysOp = Keys!Idle, keysOp' = Keys!Idle, keysWork' = keysWork, keysUp',
           env' = env, listed' = file, ring' = Keys!Registered(file, env'),
           UNCHANGED <<envFile, file, had, leftover>>, keysUp \/ ~leftover => listed = file
    PROVE  KeysCalm'
  <1>1. Listing(file)' /\ Listing(listed)' /\ keysWork' \in Nat
    BY DEF KeysCalm, Listing, Unique, Keys!Lists
  <1>2. Underway' /\ InStep'
    BY OpKindsNext DEF KeysCalm, Underway, InStep
  <1>3. KeysHeld'
    <2>1. \A c \in had : HasKey(file, c)
      BY DEF KeysCalm, KeysHeld
    <2>2. \A c \in had : ring'[c] \in Secrets
      <3>1. TAKE c \in had
      <3>2. PICK n \in DOMAIN file : file[n].id = c /\ env[file[n].var] \in Secrets
        BY <2>1 DEF HasKey
      <3>. QED BY <3>2, RegisteredKeys DEF KeysCalm
    <2>. QED BY <2>1, <2>2 DEF KeysHeld, HasKey
  <1>4. KeysNamed'
    BY DEF KeysCalm, KeysNamed
  <1>. QED BY <1>1, <1>2, <1>3, <1>4 DEF KeysCalm

LEMMA LoadKeys == ASSUME KeysCalm, Keys!Reload \/ Keys!Start PROVE KeysCalm'
  <1>1. /\ keysOp = Keys!Idle /\ keysOp' = Keys!Idle /\ keysWork' = keysWork /\ keysUp'
        /\ listed' = file /\ ring' = Keys!Registered(file, env')
        /\ UNCHANGED <<envFile, file, had, leftover>>
    BY DEF Keys!Reload, Keys!Start, Keys!Register, KeysCalm, Underway
  <1>2. env' = env
    <2>1. CASE Keys!Reload
      <3>1. env' = [v \in Vars |-> IF env[v] # NoKey THEN env[v] ELSE env[v]]
        BY <2>1 DEF Keys!Reload, Keys!LoadedEnv, KeysCalm, InStep
      <3>. QED BY <3>1 DEF KeysCalm, Variables
    <2>2. CASE Keys!Start
      BY <2>2 DEF Keys!Start, KeysCalm, InStep
    <2>. QED BY <2>1, <2>2
  <1>3. keysUp \/ ~leftover => listed = file
    BY <1>1, OpKinds DEF KeysCalm, InStep
  <1>. QED BY <1>1, <1>2, <1>3, LoadedKeys

LEMMA CrashKeys == ASSUME KeysCalm, Keys!Crash PROVE KeysCalm'
  <1>1. /\ keysUp' = FALSE /\ keysUp /\ keysWork' = keysWork + 1 /\ keysOp' = Keys!Idle
        /\ leftover' = (leftover \/ keysOp # Keys!Idle)
        /\ UNCHANGED <<envFile, env, file, listed, ring, twin, refused>>
    BY DEF Keys!Crash, Keys!Works
  <1>2. /\ had' \subseteq had
        /\ keysOp # Keys!Idle /\ keysOp.do \in {"delete", "id"} => keysOp.id \notin had'
    BY DEF Keys!Crash
  <1>3. Listing(file)' /\ Listing(listed)' /\ keysWork' \in Nat
    BY <1>1, ListingsStay
  <1>4. Underway' /\ InStep'
    <2>1. ~leftover' => listed = file
      BY <1>1, OpKinds DEF KeysCalm, InStep
    <2>. QED BY <1>1, <2>1 DEF KeysCalm, Underway, InStep
  <1>5. KeysHeld' /\ KeysNamed'
    BY <1>1, <1>2 DEF KeysCalm, KeysHeld, KeysNamed, HasKey
  <1>. QED BY <1>1, <1>2, <1>3, <1>4, <1>5 DEF KeysCalm

\* The operation fails after .env was written.
LEMMA GivesUpKeys ==
    ASSUME KeysCalm, keysUp, First, Keys!GivesUp(keysOp.var), keysWork' = keysWork,
           keysUp' = keysUp
    PROVE  KeysCalm'
  <1>1. /\ keysOp' = Keys!Idle /\ refused' = TRUE
        /\ leftover' = (leftover \/ \A n \in DOMAIN listed : listed[n].var # keysOp.var)
        /\ UNCHANGED <<envFile, env, file, listed, ring, had, twin>>
    BY DEF Keys!GivesUp
  <1>2. Listing(file)' /\ Listing(listed)' /\ keysWork' \in Nat
    BY <1>1, ListingsStay
  <1>3. listed = file /\ ~Second'
    BY <1>1, OpKinds, OpKindsNext DEF KeysCalm, InStep
  <1>4. Underway' /\ InStep'
    BY <1>1, <1>3 DEF KeysCalm, Underway, InStep
  <1>5. KeysHeld' /\ KeysNamed'
    BY <1>1, <1>3 DEF KeysCalm, KeysHeld, KeysNamed, HasKey
  <1>. QED BY <1>1, <1>2, <1>4, <1>5 DEF KeysCalm

\* The entry an operation under way works on is the only one of its id.
LEMMA WorkedOn ==
    ASSUME KeysCalm, NEW n \in DOMAIN listed, WorksOn(n)
    PROVE  /\ n \in 0 .. keysWork /\ keysOp.id \in Ids /\ listed[n].var \in Vars
           /\ listed[n].id = keysOp.id /\ Keys!Current(keysOp.id) = listed[n].var
           /\ Keys!FirstOf(listed, keysOp.id) = n /\ Keys!Of(listed, keysOp.id) = {n}
           /\ \A m \in DOMAIN listed : m # n => listed[m].id # keysOp.id
  <1>1. n \in 0 .. keysWork /\ listed[n].id \in Ids /\ listed[n].var \in Vars
    BY EntriesAt DEF KeysCalm
  <1>2. Keys!FirstOf(listed, listed[n].id) = n /\ Keys!Of(listed, listed[n].id) = {n}
    BY EntriesAt DEF KeysCalm
  <1>3. listed[n].id = keysOp.id
    BY DEF WorksOn
  <1>. QED BY <1>1, <1>2, <1>3 DEF Keys!Current, Keys!Of

\* providers.yaml gets the entry that the operation is about, or loses it.
LEMMA WrittenKeys ==
    ASSUME KeysCalm, keysUp, First, keysWork' = keysWork,
           file' = Keys!Rewritten(keysOp),
           keysOp' = [do |-> keysOp.do, id |-> keysOp.id, var |-> keysOp.var, key |-> keysOp.key,
                      to |-> IF keysOp.do = "id" THEN keysOp.to ELSE keysOp.id,
                      old |-> IF keysOp.do = "add" THEN NoKey ELSE Keys!Current(keysOp.id)],
           keysOp.do = "add" => keysOp.id \notin Keys!IdsIn(file),
           UNCHANGED <<envFile, env, listed, ring, keysUp, had, refused, leftover>>
    PROVE  KeysCalm'
  <1>1. /\ listed = file /\ keysOp # Keys!Idle /\ Listing(file) /\ keysWork \in Nat
        /\ keysOp.do \in {"add", "rename", "delete", "id"} /\ keysOp.id \in Ids
        /\ keysOp.var \in Vars /\ keysOp.key \in BOOLEAN
        /\ keysOp.do = "id" => keysOp.to \in Ids
    <2>1. listed = file /\ keysOp # Keys!Idle /\ Listing(file) /\ keysWork \in Nat
      BY OpKinds DEF KeysCalm, InStep
    <2>2. /\ keysOp.do \in {"add", "rename", "delete", "id"} /\ keysOp.id \in Ids
          /\ keysOp.var \in Vars /\ keysOp.key \in BOOLEAN
          /\ keysOp.do = "id" => keysOp.to \in Ids
      BY DEF First
    <2>. QED BY <2>1, <2>2
  <1>2. /\ keysOp'.do = keysOp.do /\ keysOp'.id = keysOp.id /\ keysOp'.var = keysOp.var
        /\ keysOp'.key = keysOp.key
        /\ keysOp'.to = IF keysOp.do = "id" THEN keysOp.to ELSE keysOp.id
        /\ keysOp'.old = IF keysOp.do = "add" THEN NoKey ELSE Keys!Current(keysOp.id)
    OBVIOUS
  <1>3. Second'
    <2>1. keysOp'.old \in Vars \cup {NoKey} /\ keysOp'.to \in Ids
      <3>1. CASE keysOp.do = "add"
        BY <1>1, <1>2, <3>1
      <3>2. CASE keysOp.do # "add"
        BY <1>1, <1>2, <3>2, WorkedOn DEF KeysCalm, Underway
      <3>. QED BY <3>1, <3>2
    <2>. QED BY <1>1, <1>2, <2>1 DEF Second
  <1>4. ASSUME keysOp.do = "delete"
        PROVE  \E n \in DOMAIN listed : WorksOn(n) /\ file' = Keys!Only(file, DOMAIN file \ {n})
    <2>1. PICK n \in DOMAIN listed : WorksOn(n)
      BY <1>1, <1>4 DEF KeysCalm, Underway
    <2>. QED BY <1>1, <1>4, <2>1, WorkedOn DEF Keys!Rewritten
  <1>5. ASSUME keysOp.do # "delete"
        PROVE  \E k \in 0 .. keysWork :
                 /\ file' = Keys!Put(file, k, Keys!Entry(keysOp'.to, keysOp.var))
                 /\ \A m \in DOMAIN file : m # k => file[m].id # keysOp'.to
                 /\ IF keysOp.do = "add" THEN k = keysWork /\ k \notin DOMAIN file
                                         ELSE k \in DOMAIN listed /\ WorksOn(k)
    <2>1. CASE keysOp.do = "add"
      <3>1. file' = Keys!Put(file, keysWork, Keys!Entry(keysOp'.to, keysOp.var))
        BY <1>2, <2>1 DEF Keys!Rewritten
      <3>2. keysWork \notin DOMAIN file /\ keysWork \in 0 .. keysWork
        BY <1>1, <2>1 DEF KeysCalm, Underway
      <3>3. \A m \in DOMAIN file : file[m].id # keysOp'.to
        BY <1>2, <2>1 DEF Keys!IdsIn
      <3>. QED BY <2>1, <3>1, <3>2, <3>3
    <2>2. CASE keysOp.do # "add"
      <3>1. PICK n \in DOMAIN listed : WorksOn(n)
        BY <1>1, <2>2 DEF KeysCalm, Underway
      <3>2. /\ n \in 0 .. keysWork /\ Keys!FirstOf(file, keysOp.id) = n
            /\ \A m \in DOMAIN file : m # n => file[m].id # keysOp.id
        BY <1>1, <3>1, WorkedOn
      <3>3. file' = Keys!Put(file, n, Keys!Entry(keysOp'.to, keysOp.var))
        <4>1. CASE keysOp.do = "rename"
          BY <1>2, <3>2, <4>1 DEF Keys!Rewritten
        <4>2. CASE keysOp.do = "id"
          BY <1>1, <1>2, <3>1, <3>2, <4>2 DEF Keys!Rewritten, WorksOn
        <4>. QED BY <1>1, <1>5, <2>2, <4>1, <4>2
      <3>4. \A m \in DOMAIN file : m # n => file[m].id # keysOp'.to
        BY <1>1, <1>2, <3>2 DEF KeysCalm, Underway, Keys!IdsIn
      <3>. QED BY <2>2, <3>1, <3>2, <3>3, <3>4
    <2>. QED BY <2>1, <2>2
  <1>6. Listing(file)'
    <2>1. Listing(file')
      <3>1. CASE keysOp.do = "delete"
        <4>1. PICK n : file' = Keys!Only(file, DOMAIN file \ {n})
          BY <1>4, <3>1
        <4>2. Listing(Keys!Only(file, DOMAIN file \ {n}))
          BY <1>1, OnlyLists
        <4>. QED BY <4>1, <4>2
      <3>2. CASE keysOp.do # "delete"
        <4>1. keysOp'.to \in Ids
          BY <1>1, <1>2
        <4>2. PICK k \in 0 .. keysWork :
                  /\ file' = Keys!Put(file, k, Keys!Entry(keysOp'.to, keysOp.var))
                  /\ \A m \in DOMAIN file : m # k => file[m].id # keysOp'.to
          BY <1>5, <3>2
        <4>3. Listing(Keys!Put(file, k, Keys!Entry(keysOp'.to, keysOp.var)))
          BY <1>1, <4>1, <4>2, PutLists
        <4>. QED BY <4>2, <4>3
      <3>. QED BY <3>1, <3>2
    <2>. QED BY <2>1 DEF Listing, Unique, Keys!Lists
  <1>7. Underway'
    <2>1. keysOp' # Keys!Idle
      BY <1>3, OpKindsNext
    <2>2. keysOp.key /\ keysOp.do \in {"add", "rename"} => env[keysOp.var] \in Secrets
      BY <1>1 DEF KeysCalm, Underway
    <2>3. CASE keysOp.do = "add"
      <3>1. PICK k \in 0 .. keysWork :
                /\ file' = Keys!Put(file, k, Keys!Entry(keysOp'.to, keysOp.var))
                /\ \A m \in DOMAIN file : m # k => file[m].id # keysOp'.to
                /\ k = keysWork /\ k \notin DOMAIN file
        BY <1>5, <2>3
      <3>2. keysOp.id \notin Keys!IdsIn(listed)
        BY <1>1, <2>3
      <3>. QED BY <1>1, <1>2, <1>3, <2>1, <2>2, <2>3, <3>1, <3>2 DEF Underway, Keys!IdsIn
    <2>4. CASE keysOp.do # "add"
      <3>1. PICK n \in DOMAIN listed :
                /\ WorksOn(n)
                /\ IF keysOp.do = "delete"
                   THEN file' = Keys!Only(file, DOMAIN file \ {n})
                   ELSE file' = Keys!Put(file, n, Keys!Entry(keysOp'.to, keysOp.var))
        BY <1>4, <1>5, <2>4
      <3>2. WorksOn(n)'
        <4>1. keysOp'.old = listed[n].var
          BY <1>2, <2>4, <3>1, WorkedOn
        <4>. QED BY <1>1, <1>2, <3>1, <4>1 DEF WorksOn
      <3>3. /\ keysOp.do = "rename" /\ ~keysOp.key => keysOp.id \notin had
            /\ keysOp.do = "id" => keysOp.to \notin Keys!IdsIn(listed)
        BY <1>1 DEF KeysCalm, Underway
      <3>. QED BY <1>1, <1>2, <1>3, <2>1, <2>2, <2>4, <3>2, <3>3 DEF Underway, Keys!IdsIn
    <2>. QED BY <2>3, <2>4
  <1>8. InStep'
    BY <1>3, OpKindsNext DEF KeysCalm, InStep
  <1>9. ASSUME NEW c \in had, ~(keysOp.do \in {"delete", "id"} /\ keysOp.id = c)
        PROVE  HasKey(file, c)'
    <2>1. PICK m \in DOMAIN file : file[m].id = c /\ env[file[m].var] \in Secrets
      BY <1>1, <1>9 DEF KeysCalm, KeysHeld, HasKey
    <2>2. CASE keysOp.do = "delete"
      <3>1. PICK n \in DOMAIN listed :
                WorksOn(n) /\ file' = Keys!Only(file, DOMAIN file \ {n})
        BY <1>4, <2>2
      <3>2. m # n
        BY <1>9, <2>1, <2>2, <3>1, <1>1, WorkedOn
      <3>3. m \in DOMAIN file' /\ file'[m] = file[m]
        BY <1>1, <2>1, <3>1, <3>2, OnlyLists
      <3>. QED BY <2>1, <3>3 DEF HasKey
    <2>3. CASE keysOp.do # "delete"
      <3>1. PICK k \in 0 .. keysWork :
                /\ file' = Keys!Put(file, k, Keys!Entry(keysOp'.to, keysOp.var))
                /\ \A l \in DOMAIN file : l # k => file[l].id # keysOp'.to
                /\ IF keysOp.do = "add" THEN k = keysWork /\ k \notin DOMAIN file
                                        ELSE k \in DOMAIN listed /\ WorksOn(k)
        BY <1>5, <2>3
      <3>2. keysOp'.to \in Ids
        BY <1>1, <1>2
      <3>3. /\ DOMAIN file' = DOMAIN file \cup {k}
            /\ file'[k].id = keysOp'.to /\ file'[k].var = keysOp.var
            /\ \A l \in DOMAIN file : l # k => file'[l] = file[l]
        BY <1>1, <3>1, <3>2, PutLists
      <3>4. CASE m # k
        BY <2>1, <3>3, <3>4 DEF HasKey
      <3>5. CASE m = k
        <4>1. keysOp.do = "rename" /\ keysOp.id = c
          BY <1>1, <1>9, <2>1, <2>3, <3>1, <3>5, WorkedOn
        <4>2. env[keysOp.var] \in Secrets
          BY <1>1, <1>9, <4>1 DEF KeysCalm, Underway
        <4>. QED BY <1>2, <3>3, <4>1, <4>2 DEF HasKey
      <3>. QED BY <3>4, <3>5
    <2>. QED BY <2>2, <2>3
  <1>10. KeysHeld'
    <2>1. keysOp' # Keys!Idle
      BY <1>3, OpKindsNext
    <2>2. \A c \in had : HasKey(listed, c)' /\ ring'[c] \in Secrets
      BY DEF KeysCalm, KeysHeld, HasKey
    <2>. QED BY <1>2, <1>9, <2>1, <2>2 DEF KeysHeld
  <1>11. KeysNamed'
    <2>1. keysOp' # Keys!Idle
      BY <1>3, OpKindsNext
    <2>. QED BY <1>2, <2>1 DEF KeysCalm, KeysNamed
  <1>12. Listing(listed)' /\ env' \in Variables /\ had' \subseteq Ids /\ keysWork' \in Nat
    BY DEF KeysCalm, Listing, Unique, Keys!Lists
  <1>. QED BY <1>6, <1>7, <1>8, <1>10, <1>11, <1>12 DEF KeysCalm

LEMMA WriteFileKeys == ASSUME KeysCalm, ~twin, Keys!WriteFile, ~twin' PROVE KeysCalm'
  <1>1. /\ keysUp /\ keysOp # Keys!Idle /\ "old" \notin DOMAIN keysOp
        /\ keysWork' = keysWork /\ keysUp' = keysUp
    BY DEF Keys!WriteFile
  <1>2. First
    BY <1>1, OpKinds DEF KeysCalm, Underway
  <1>3. CASE Keys!GivesUp(keysOp.var)
    BY <1>1, <1>2, <1>3, GivesUpKeys
  <1>4. CASE ~Keys!GivesUp(keysOp.var)
    <2>1. /\ file' = Keys!Rewritten(keysOp)
          /\ keysOp' =
               [do |-> keysOp.do, id |-> keysOp.id, var |-> keysOp.var, key |-> keysOp.key,
                to |-> IF keysOp.do = "id" THEN keysOp.to ELSE keysOp.id,
                old |-> IF keysOp.do = "add" THEN NoKey ELSE Keys!Current(keysOp.id)]
          /\ twin' = (twin \/ (keysOp.do = "add" /\ keysOp.id \in Keys!IdsIn(file)))
          /\ UNCHANGED <<envFile, env, listed, ring, had, refused, leftover>>
      BY <1>4 DEF Keys!WriteFile
    <2>2. keysOp.do = "add" => keysOp.id \notin Keys!IdsIn(file)
      BY <2>1
    <2>. QED BY <1>1, <1>2, <2>1, <2>2, WrittenKeys
  <1>. QED BY <1>3, <1>4

\* What memory gets in the last step is what the file holds already.
LEMMA FinishedEntries ==
    ASSUME KeysCalm, Second
    PROVE  file = LET others == Keys!Only(listed, DOMAIN listed \ Keys!Of(listed, keysOp.id)) IN
                  CASE keysOp.do = "add" ->
                           Keys!Put(others, keysWork, Keys!Entry(keysOp.id, keysOp.var))
                    [] keysOp.do = "delete" -> others
                    [] OTHER -> [n \in DOMAIN listed |->
                           IF listed[n].id = keysOp.id THEN Keys!Entry(keysOp.to, keysOp.var)
                                                       ELSE listed[n]]
  <1> DEFINE others == Keys!Only(listed, DOMAIN listed \ Keys!Of(listed, keysOp.id))
             entries == CASE keysOp.do = "add" ->
                                 Keys!Put(others, keysWork, Keys!Entry(keysOp.id, keysOp.var))
                          [] keysOp.do = "delete" -> others
                          [] OTHER -> [n \in DOMAIN listed |->
                                 IF listed[n].id = keysOp.id THEN Keys!Entry(keysOp.to, keysOp.var)
                                                             ELSE listed[n]]
  <1>1. keysOp # Keys!Idle /\ keysOp.do \in {"add", "rename", "delete", "id"}
    <2>1. keysOp.do \in {"add", "rename", "delete", "id"}
      BY DEF Second
    <2>. QED BY <2>1, OpKinds
  <1>2. CASE keysOp.do = "add"
    <2>1. /\ keysOp.id \notin Keys!IdsIn(listed)
          /\ file = Keys!Put(listed, keysWork, Keys!Entry(keysOp.id, keysOp.var))
      BY <1>1, <1>2 DEF KeysCalm, Underway
    <2>2. Keys!Of(listed, keysOp.id) = {}
      BY <2>1 DEF Keys!Of, Keys!IdsIn
    <2>3. others = listed
      BY <2>2 DEF KeysCalm, Listing, Keys!Lists, Keys!Only
    <2>4. entries = Keys!Put(others, keysWork, Keys!Entry(keysOp.id, keysOp.var))
      BY <1>2
    <2>. QED BY <2>1, <2>3, <2>4
  <1>3. CASE keysOp.do # "add"
    <2>1. PICK n \in DOMAIN listed : WorksOn(n)
      BY <1>1, <1>3 DEF KeysCalm, Underway
    <2>2. /\ Keys!Of(listed, keysOp.id) = {n} /\ listed[n].id = keysOp.id
          /\ \A m \in DOMAIN listed : m # n => listed[m].id # keysOp.id
      BY <2>1, WorkedOn
    <2>3. CASE keysOp.do = "delete"
      BY <1>3, <2>1, <2>2, <2>3 DEF WorksOn
    <2>4. CASE keysOp.do # "delete"
      <3>1. file = Keys!Put(listed, n, Keys!Entry(keysOp.to, keysOp.var))
        BY <1>1, <1>3, <2>1, <2>4 DEF WorksOn
      <3>2. DOMAIN listed \cup {n} = DOMAIN listed
        OBVIOUS
      <3>3. \A m \in DOMAIN listed : (m = n) <=> listed[m].id = keysOp.id
        BY <2>2
      <3>4. Keys!Put(listed, n, Keys!Entry(keysOp.to, keysOp.var)) =
               [m \in DOMAIN listed |->
                   IF listed[m].id = keysOp.id THEN Keys!Entry(keysOp.to, keysOp.var)
                                               ELSE listed[m]]
        BY <3>2, <3>3 DEF Keys!Put
      <3>5. entries = [m \in DOMAIN listed |->
                   IF listed[m].id = keysOp.id THEN Keys!Entry(keysOp.to, keysOp.var)
                                               ELSE listed[m]]
        BY <1>3, <2>4
      <3>. QED BY <3>1, <3>4, <3>5
    <2>. QED BY <2>3, <2>4
  <1>. QED BY <1>2, <1>3

\* Who has what in the file, once it is written: the entry worked on, and all the others.
LEMMA SecondFile ==
    ASSUME KeysCalm, Second, NEW n \in DOMAIN listed, WorksOn(n), keysOp.do # "add"
    PROVE  /\ \A m \in DOMAIN listed : m # n => m \in DOMAIN file /\ file[m] = listed[m]
           /\ keysOp.do # "delete" =>
                n \in DOMAIN file /\ file[n].id = keysOp.to /\ file[n].var = keysOp.var
           /\ keysOp.do = "delete" => n \notin DOMAIN file
  <1>1. keysOp.do \in {"rename", "delete", "id"}
    BY DEF Second
  <1>2. CASE keysOp.do = "delete"
    BY <1>2 DEF WorksOn, Keys!Only
  <1>3. CASE keysOp.do # "delete"
    <2>1. file = Keys!Put(listed, n, Keys!Entry(keysOp.to, keysOp.var))
      BY <1>1, <1>3 DEF WorksOn
    <2>2. file = [m \in DOMAIN listed \cup {n} |->
                    IF m = n THEN [id |-> keysOp.to, var |-> keysOp.var] ELSE listed[m]]
      BY <2>1 DEF Keys!Put, Keys!Entry
    <2>. QED BY <1>3, <2>2
  <1>. QED BY <1>2, <1>3

LEMMA FinishKeys == ASSUME KeysCalm, Keys!Finish PROVE KeysCalm'
  <1> DEFINE c == keysOp.id
  <1>1. /\ keysUp /\ keysOp # Keys!Idle /\ "old" \in DOMAIN keysOp /\ keysOp' = Keys!Idle
        /\ listed' = file /\ ring' = Keys!Registered(file, env')
        /\ IF keysOp.do \in {"rename", "delete"} /\ Keys!Freed(keysOp.old, c)
           THEN Keys!Drop(keysOp.old) ELSE UNCHANGED <<envFile, env>>
        /\ had' = CASE keysOp.do = "delete" -> had \ {c}
                    [] keysOp.do = "id" -> (had \ {c}) \cup (IF c \in had THEN {keysOp.to} ELSE {})
                    [] keysOp.do = "add" /\ ~keysOp.key -> had \ {c}
                    [] OTHER -> had \cup (IF keysOp.key THEN {c} ELSE {})
        /\ UNCHANGED <<file, keysUp, twin, refused, leftover, keysWork>>
        /\ Second
    <2>1. "old" \in DOMAIN keysOp /\ keysOp # Keys!Idle
      BY DEF Keys!Finish
    <2>2. Second
      BY <2>1, OpKinds DEF KeysCalm, Underway
    <2>. QED BY <2>2, FinishedEntries DEF Keys!Finish, Keys!Register
  <1>2. /\ c \in Ids /\ keysOp.to \in Ids /\ keysOp.old \in Vars \cup {NoKey}
        /\ keysOp.do \in {"add", "rename", "delete", "id"} /\ keysOp.var \in Vars
    BY <1>1 DEF Second
  <1>3. Listing(file)' /\ Listing(listed)' /\ keysWork' \in Nat
    BY <1>1 DEF KeysCalm, Listing, Unique, Keys!Lists
  <1>4. had' \subseteq Ids
    BY <1>1, <1>2 DEF KeysCalm
  <1>5. ~Second' /\ Underway'
    BY <1>1, OpKindsNext DEF Underway
  \* A variable is only dropped when no other entry names it.
  <1>6. /\ env' \in Variables /\ envFile' = env'
        /\ \A v \in Vars : env'[v] # env[v] =>
             /\ env'[v] = NoKey /\ keysOp.do \in {"rename", "delete"} /\ v = keysOp.old
             /\ Keys!Freed(v, c)
    <2>1. CASE env' = env /\ envFile' = envFile
      BY <2>1 DEF KeysCalm, InStep
    <2>2. CASE /\ keysOp.do \in {"rename", "delete"} /\ Keys!Freed(keysOp.old, c)
               /\ Keys!Drop(keysOp.old)
      <3>1. env' = [env EXCEPT ![keysOp.old] = NoKey] /\ envFile' = env'
        BY <2>2 DEF Keys!Drop, KeysCalm, InStep
      <3>. QED BY <2>2, <3>1 DEF KeysCalm, Variables
    <2>. QED BY <1>1, <2>1, <2>2
  <1>7. InStep'
    BY <1>1, <1>5, <1>6 DEF InStep
  <1>8. \A m \in DOMAIN file : env[file[m].var] \in Secrets => env'[file[m].var] \in Secrets
    <2>. SUFFICES ASSUME NEW m \in DOMAIN file, env'[file[m].var] # env[file[m].var]
                  PROVE  FALSE
      OBVIOUS
    <2>1. file[m].var \in Vars
      BY EntriesAt DEF KeysCalm
    <2>2. /\ keysOp.do \in {"rename", "delete"} /\ file[m].var = keysOp.old
          /\ Keys!Freed(keysOp.old, c)
      BY <1>6, <2>1
    <2>3. PICK n \in DOMAIN listed : WorksOn(n)
      BY <1>1, <2>2 DEF KeysCalm, Underway
    <2>4. /\ keysOp.old = listed[n].var /\ (keysOp.do = "rename" => keysOp.var # listed[n].var)
          /\ \A l \in DOMAIN listed : l # n => listed[l].id # c
      BY <1>1, <2>3, WorkedOn DEF WorksOn
    <2>5. m # n
      BY <1>1, <2>2, <2>3, <2>4, SecondFile
    <2>6. m \in DOMAIN listed
      BY <1>1, <2>2, <2>3, <2>5 DEF WorksOn, Keys!Put, Keys!Only
    <2>7. listed[m].var = keysOp.old
      BY <1>1, <2>2, <2>3, <2>5, <2>6, SecondFile
    <2>. QED BY <2>2, <2>4, <2>5, <2>6, <2>7 DEF Keys!Freed
  <1>9. ASSUME NEW d \in had' PROVE HasKey(file, d)'
    <2>. SUFFICES \E m \in DOMAIN file : file[m].id = d /\ env[file[m].var] \in Secrets
      BY <1>1, <1>8 DEF HasKey
    <2>1. CASE d \in had /\ ~(keysOp.do \in {"delete", "id"} /\ d = c)
      BY <1>1, <2>1 DEF KeysCalm, KeysHeld, HasKey
    <2>2. CASE keysOp.do = "id" /\ c \in had /\ d = keysOp.to
      <3>1. PICK n \in DOMAIN listed : WorksOn(n)
        BY <1>1, <2>2 DEF KeysCalm, Underway
      <3>2. PICK l \in DOMAIN listed : listed[l].id = c /\ env[listed[l].var] \in Secrets
        BY <1>1, <2>2 DEF KeysCalm, KeysHeld, HasKey
      <3>3. l = n /\ keysOp.var = listed[n].var
        BY <2>2, <3>1, <3>2, WorkedOn DEF WorksOn
      <3>. QED BY <1>1, <2>2, <3>1, <3>2, <3>3, SecondFile
    <2>3. CASE keysOp.do \in {"add", "rename"} /\ keysOp.key /\ d = c
      <3>1. env[keysOp.var] \in Secrets
        BY <1>1, <2>3 DEF KeysCalm, Underway
      <3>2. CASE keysOp.do = "add"
        <4>1. file = Keys!Put(listed, keysWork, Keys!Entry(c, keysOp.var))
          BY <1>1, <3>2 DEF KeysCalm, Underway
        <4>2. file = [m \in DOMAIN listed \cup {keysWork} |->
                        IF m = keysWork THEN [id |-> c, var |-> keysOp.var] ELSE listed[m]]
          BY <4>1 DEF Keys!Put, Keys!Entry
        <4>. QED BY <2>3, <3>1, <4>2
      <3>3. CASE keysOp.do = "rename"
        <4>1. PICK n \in DOMAIN listed : WorksOn(n)
          BY <1>1, <3>3 DEF KeysCalm, Underway
        <4>2. keysOp.to = c
          BY <1>1, <3>3, <4>1 DEF WorksOn
        <4>. QED BY <1>1, <2>3, <3>1, <3>3, <4>1, <4>2, SecondFile
      <3>. QED BY <2>3, <3>2, <3>3
    <2>. QED BY <1>1, <1>2, <2>1, <2>2, <2>3
  <1>10. KeysHeld'
    <2>1. \A d \in had' : ring'[d] \in Secrets
      <3>1. TAKE d \in had'
      <3>2. PICK m \in DOMAIN file : file[m].id = d /\ env'[file[m].var] \in Secrets
        BY <1>1, <1>9 DEF HasKey
      <3>. QED BY <1>1, <3>2, RegisteredKeys DEF KeysCalm
    <2>. QED BY <1>1, <1>9, <2>1 DEF KeysHeld, HasKey
  <1>11. KeysNamed'
    <2>. SUFFICES ASSUME ~leftover, NEW v \in Vars, env'[v] # NoKey
                  PROVE  \E m \in DOMAIN file : file[m].var = v
      BY <1>1 DEF KeysNamed
    <2>1. env'[v] = env[v]
      BY <1>6
    <2>2. \/ \E m \in DOMAIN listed : listed[m].var = v
          \/ keysOp.do \in {"add", "rename"} /\ keysOp.var = v
      BY <2>1 DEF KeysCalm, KeysNamed
    <2>3. CASE keysOp.do = "add"
      <3>1. file = Keys!Put(listed, keysWork, Keys!Entry(c, keysOp.var))
        BY <1>1, <2>3 DEF KeysCalm, Underway
      <3>2. file = [m \in DOMAIN listed \cup {keysWork} |->
                      IF m = keysWork THEN [id |-> c, var |-> keysOp.var] ELSE listed[m]]
        BY <3>1 DEF Keys!Put, Keys!Entry
      <3>3. keysWork \notin DOMAIN listed
        BY <1>1, <2>3 DEF KeysCalm, Underway
      <3>. QED BY <2>2, <3>2, <3>3
    <2>4. CASE keysOp.do # "add"
      <3>1. PICK n \in DOMAIN listed : WorksOn(n)
        BY <1>1, <2>4 DEF KeysCalm, Underway
      <3>2. /\ \A m \in DOMAIN listed : m # n => m \in DOMAIN file /\ file[m] = listed[m]
            /\ keysOp.do # "delete" => n \in DOMAIN file /\ file[n].var = keysOp.var
        BY <1>1, <2>4, <3>1, SecondFile
      <3>3. CASE keysOp.do \in {"add", "rename"} /\ keysOp.var = v
        BY <2>4, <3>2, <3>3
      <3>4. CASE \E m \in DOMAIN listed : listed[m].var = v
        <4>1. CASE \E m \in DOMAIN listed : m # n /\ listed[m].var = v
          BY <3>2, <4>1
        <4>2. CASE listed[n].var = v /\ ~\E m \in DOMAIN listed : m # n /\ listed[m].var = v
          <5>1. CASE keysOp.do = "id"
            BY <3>1, <3>2, <4>2, <5>1 DEF WorksOn
          <5>2. CASE keysOp.do \in {"rename", "delete"}
            <6>1. keysOp.old = v /\ Keys!Freed(keysOp.old, c)
              BY <1>1, <3>1, <4>2, <5>2 DEF WorksOn, Keys!Freed
            <6>2. env'[v] = NoKey
              BY <1>1, <5>2, <6>1 DEF Keys!Drop, KeysCalm, Variables
            <6>. QED BY <6>2
          <5>. QED BY <1>2, <2>4, <5>1, <5>2
        <4>. QED BY <3>4, <4>1, <4>2
      <3>. QED BY <2>2, <3>3, <3>4
    <2>. QED BY <2>3, <2>4
  <1>. QED BY <1>3, <1>4, <1>5, <1>6, <1>7, <1>10, <1>11 DEF KeysCalm

LEMMA KeysRest == ASSUME KeysInv, UNCHANGED keysVars PROVE KeysInv'
  <1>1. UNCHANGED <<envFile, env, file, listed, ring, keysUp, keysOp, had, twin, refused,
                    leftover, keysWork>>
    BY DEF keysVars
  <1>2. (First' <=> First) /\ (Second' <=> Second)
    BY <1>1 DEF First, Second
  <1>3. KeysCalm => KeysCalm'
    <2>. SUFFICES ASSUME KeysCalm PROVE KeysCalm'
      OBVIOUS
    <2>1. Listing(file)' /\ Listing(listed)' /\ env' \in Variables /\ had' \subseteq Ids
          /\ keysWork' \in Nat
      BY <1>1 DEF KeysCalm, Listing, Unique, Keys!Lists
    <2>2. \A n \in DOMAIN listed : WorksOn(n) => WorksOn(n)'
      BY <1>1, <1>2 DEF WorksOn
    <2>3. Underway'
      BY <1>1, <1>2, <2>2 DEF KeysCalm, Underway, Keys!IdsIn
    <2>4. InStep' /\ KeysHeld' /\ KeysNamed'
      BY <1>1, <1>2 DEF KeysCalm, InStep, KeysHeld, KeysNamed, HasKey
    <2>. QED BY <2>1, <2>3, <2>4 DEF KeysCalm
  <1>. QED BY <1>1, <1>3 DEF KeysInv

LEMMA NextKeys == KeysInv /\ [ReloadNext \/ FilesNext \/ KeysNext]_all => KeysInv'
  <1>. SUFFICES ASSUME KeysInv, [ReloadNext \/ FilesNext \/ KeysNext]_all PROVE KeysInv'
    OBVIOUS
  <1>1. CASE UNCHANGED keysVars
    BY <1>1, KeysRest
  <1>2. CASE Keys!Next
    <2>1. twin' \in BOOLEAN /\ (twin => twin')
      <3>1. twin \in BOOLEAN
        BY DEF KeysInv
      <3>2. CASE \E c \in Ids :
                   \/ \E v \in Vars, s \in Secrets \cup {NoKey} :
                        Keys!Add(c, v, s) \/ Keys!RenameVar(c, v, s)
                   \/ \E s \in Secrets : Keys!Rotate(c, s)
                   \/ \E d \in Ids : Keys!RenameId(c, d)
                   \/ Keys!Delete(c) \/ Keys!Toggle(c)
        BY <3>1, <3>2 DEF Keys!Add, Keys!RenameVar, Keys!Rotate, Keys!RenameId, Keys!Delete,
                          Keys!Toggle, Keys!history
      <3>3. CASE Keys!WriteFile
        BY <3>1, <3>3 DEF Keys!WriteFile, Keys!GivesUp, Keys!history
      <3>4. CASE Keys!Finish
        BY <3>1, <3>4 DEF Keys!Finish, Keys!history
      <3>5. CASE Keys!Edit \/ Keys!Reload \/ Keys!Crash \/ Keys!Start
        BY <3>1, <3>5 DEF Keys!Edit, Keys!Reload, Keys!Crash, Keys!Start, Keys!history
      <3>. QED BY <1>2, <3>2, <3>3, <3>4, <3>5 DEF Keys!Next
    <2>2. ASSUME ~twin, ~twin' PROVE KeysCalm'
      <3>1. KeysCalm
        BY <2>2 DEF KeysInv
      <3>. QED BY <1>2, <2>2, <3>1, AddKeys, RenameVarKeys, RotateKeys, PlainKeys, EditKeys,
                  LoadKeys, CrashKeys, WriteFileKeys, FinishKeys DEF Keys!Next
    <2>. QED BY <2>1, <2>2 DEF KeysInv
  <1>. QED BY <1>1, <1>2 DEF ReloadNext, OnlyReload, FilesNext, KeysNext, all

\* What the console did to the keys of a provider is what a restart finds; a credential that
\* was given a key has one, whatever else was renamed or deleted and wherever the process
\* died; and a deleted credential leaves no key behind in .env.
THEOREM KeysAreNeverLost == MCSpec => []KeysAreKept
  <1>1. KeysInv => KeysAreKept
    <2>. SUFFICES ASSUME KeysInv, Keys!Quiet PROVE KeysAreKept
      BY DEF KeysAreKept, Keys!RestartChangesNothing, Keys!NoKeyLost, Keys!DeletedKeysGo
    <2>1. KeysCalm /\ keysUp /\ keysOp = Keys!Idle /\ ~Second
      BY OpKinds DEF KeysInv, Keys!Quiet
    <2>2. Keys!RestartChangesNothing
      BY <2>1 DEF KeysCalm, InStep, Keys!RestartChangesNothing
    <2>3. Keys!NoKeyLost
      BY <2>1 DEF KeysCalm, KeysHeld, Keys!NoKeyLost
    <2>4. Keys!DeletedKeysGo
      BY <2>1 DEF KeysCalm, InStep, KeysNamed, Keys!DeletedKeysGo
    <2>. QED BY <2>2, <2>3, <2>4 DEF KeysAreKept
  <1>. QED BY <1>1, InitKeys, NextKeys, PTL DEF MCSpec

-----------------------------------------------------------------------------
(* The configuration files: what is always so *)

Named ==
    [do : {"quota", "provider", "remove provider", "model", "merge"}, n : Names,
     to : {Console!None}]
Orders ==
    Named \cup [do : {"rename"}, n : Names, to : Names]
          \cup [do : {"remove model", "alias", "remove alias"}, n : {Console!None},
                to : {Console!None}]
Loaded ==
    [quota : Console!Entries, deps : SUBSET Names, alias : BOOLEAN, from : SUBSET Console!Files]
Rows == [Names -> {"console", Console!None}]

\* The file that is away while a console operation replaces it.
Writing(f) ==
    /\ op # Console!Idle
    /\ IF op.step = "put" THEN Console!FileOf(op.o) = f ELSE op.step = "put2" /\ f = "models"

ConsoleTypes ==
    /\ providers \in Console!Entries \cup {Gone} /\ models \in Console!Catalogues \cup {Gone}
    /\ stale \subseteq Console!Files /\ unread \subseteq Console!Files
    /\ up \in BOOLEAN /\ registry \in BOOLEAN
    /\ inMemory \in Loaded /\ console \in Rows
    /\ reload = Console!Idle \/ reload \in [text : Loaded, overtaken : BOOLEAN]
    /\ \/ op = Console!Idle
       \/ /\ op = [o |-> op.o, step |-> op.step, text |-> op.text]
          /\ op.o \in Orders /\ op.step \in {"put", "retarget", "put2"}
          /\ op.step # "put" => op.o.do = "rename"
          /\ Writing("providers") => op.text \in Console!Entries
          /\ Writing("models") => op.text \in Console!Catalogues

\* An operation is as acceptable as when it began; a file that was loaded is there, or away for
\* a moment; and a reload that nothing overtook has read what is there.
Course ==
    /\ ~up => op = Console!Idle /\ reload = Console!Idle
    /\ op # Console!Idle /\ op.o.do # "remove alias" => Console!Accepts(op.o)
    /\ \A f \in Console!Files : Writing(f) => f \in inMemory.from /\ ~Console!Holds(f)
    /\ up => \A f \in inMemory.from : Console!Holds(f) \/ Writing(f)
    /\ reload # Console!Idle => \A f \in reload.text.from : Console!Holds(f) \/ Writing(f)
    /\ reload # Console!Idle /\ ~reload.overtaken =>
         /\ op = Console!Idle /\ reload.text = Console!OnDisk
         /\ registry = reload.text.alias /\ stale = {}

InCourse == ConsoleTypes /\ Course

LEMMA OnDiskLoads == ASSUME ConsoleTypes PROVE Console!OnDisk \in Loaded
  <1>1. /\ (IF providers = Gone THEN Template.quota ELSE providers) \in Console!Entries
        /\ (IF models = Gone THEN Template.deps ELSE models.deps) \in SUBSET Names
        /\ (IF models = Gone THEN Template.alias ELSE models.alias) \in BOOLEAN
    BY TemplateAssumption DEF ConsoleTypes, Console!Entries, Console!Quotas, Console!Absent,
       Console!Catalogues
  <1>. QED BY <1>1 DEF Console!OnDisk, Loaded

LEMMA OverriddenLoads ==
    ASSUME console \in Rows, NEW c \in Loaded
    PROVE  /\ Console!Overridden(c) \in Loaded
           /\ Console!Overridden(c).deps = c.deps /\ Console!Overridden(c).alias = c.alias
           /\ Console!Overridden(c).from = c.from
           /\ Console!Overridden(c).quota =
                [n \in Names |-> IF c.quota[n] # Console!Absent /\ console[n] # Console!None
                                 THEN console[n] ELSE c.quota[n]]
  BY DEF Rows, Loaded, Console!Overridden, Console!Entries, Console!Quotas

LEMMA MirroredRows ==
    ASSUME NEW rows \in Rows, NEW quota
    PROVE  /\ Console!Mirrored(rows, quota) \in Rows
           /\ \A n \in Names : Console!Mirrored(rows, quota)[n] \in {rows[n], Console!None}
           /\ \A n \in Names : quota[n] # Console!Absent =>
                    Console!Mirrored(rows, quota)[n] = rows[n]
  BY DEF Rows, Console!Mirrored

\* The parts of what an operation makes of the configuration.
LEMMA InMemoryLoads ==
    ASSUME inMemory \in Loaded, NEW o \in Orders
    PROVE  /\ Console!InMemory(o) \in Loaded /\ Console!InMemory(o).from = inMemory.from
           /\ Console!InMemory(o).quota = Console!QuotaAfter(o)
           /\ Console!InMemory(o).deps = Console!DepsAfter(o)
           /\ Console!InMemory(o).alias = Console!AliasAfter(o)
  <1>1. Console!QuotaAfter(o) \in Console!Entries
    BY DEF Loaded, Orders, Named, Console!QuotaAfter, Console!Entries, Console!Quotas
  <1>2. Console!DepsAfter(o) \in SUBSET Names
    BY DEF Loaded, Orders, Named, Console!DepsAfter, Console!Renamed
  <1>3. Console!AliasAfter(o) \in BOOLEAN
    BY DEF Console!AliasAfter
  <1>. QED BY <1>1, <1>2, <1>3 DEF Console!InMemory, Loaded

LEMMA InDatabaseRows ==
    ASSUME inMemory \in Loaded, console \in Rows, NEW o \in Orders
    PROVE  Console!InDatabase(o) \in Rows
  <1>1. Console!Mirrored(console, Console!InMemory(o).quota) \in Rows
    BY MirroredRows
  <1>2. [console EXCEPT ![o.n] = IF "providers" \in inMemory.from THEN Console!None
                                 ELSE "console"] \in Rows
    BY DEF Rows
  <1>. QED BY <1>1, <1>2 DEF Console!InDatabase

LEMMA WrittenTypes ==
    ASSUME inMemory \in Loaded, NEW o \in Orders
    PROVE  /\ Console!FileOf(o) \in Console!Files
           /\ Console!FileOf(o) = "providers" /\ providers \in Console!Entries =>
                Console!Written(o) \in Console!Entries
           /\ Console!FileOf(o) = "models" /\ models \in Console!Catalogues =>
                Console!Written(o) \in Console!Catalogues
  <1>1. Console!FileOf(o) \in Console!Files
    BY DEF Console!FileOf, Console!Files
  <1>2. ASSUME Console!FileOf(o) = "providers", providers \in Console!Entries
        PROVE  Console!Written(o) \in Console!Entries
    <2>1. o.do \in {"quota", "provider", "rename", "remove provider"}
      BY <1>2 DEF Console!FileOf
    <2>. QED BY <1>2, <2>1 DEF Loaded, Orders, Named, Console!Written, Console!Entries,
       Console!Quotas
  <1>3. ASSUME Console!FileOf(o) = "models", models \in Console!Catalogues
        PROVE  Console!Written(o) \in Console!Catalogues
    <2>1. o.do \in {"model", "merge", "remove model", "alias", "remove alias"}
      BY <1>3 DEF Console!FileOf, Orders, Named
    <2>2. o.do \in {"model", "merge"} => o.n \in Names
      BY DEF Orders, Named
    <2>. QED BY <1>3, <2>1, <2>2 DEF Loaded, Console!Written, Console!Catalogues
  <1>. QED BY <1>1, <1>2, <1>3

\* At rest nothing is written, and an operation under way is not rest.
LEMMA AtRest ==
    /\ op = Console!Idle => \A f \in Console!Files : ~Writing(f)
    /\ op = [o |-> op.o, step |-> op.step, text |-> op.text] => op # Console!Idle
  BY DEF Writing, Console!Idle

LEMMA AtRestNext ==
    /\ op' = Console!Idle => \A f \in Console!Files : ~Writing(f)'
    /\ op' = [o |-> op'.o, step |-> op'.step, text |-> op'.text] => op' # Console!Idle
  BY DEF Writing, Console!Idle

LEMMA OvertakeTypes ==
    ASSUME ConsoleTypes, Console!Overtake
    PROVE  /\ reload' = Console!Idle \/ reload' \in [text : Loaded, overtaken : BOOLEAN]
           /\ reload' = Console!Idle <=> reload = Console!Idle
           /\ reload' # Console!Idle => reload'.overtaken /\ reload'.text = reload.text
  <1>1. CASE reload = Console!Idle
    BY <1>1 DEF Console!Overtake
  <1>2. CASE reload # Console!Idle
    <2>1. reload \in [text : Loaded, overtaken : BOOLEAN]
      BY <1>2 DEF ConsoleTypes
    <2>2. reload' = [reload EXCEPT !.overtaken = TRUE]
      BY <1>2 DEF Console!Overtake
    <2>3. /\ reload' \in [text : Loaded, overtaken : BOOLEAN]
          /\ reload'.overtaken /\ reload'.text = reload.text
      BY <2>1, <2>2
    <2>4. reload' # Console!Idle
      BY <2>3 DEF Console!Idle
    <2>. QED BY <1>2, <2>3, <2>4
  <1>. QED BY <1>1, <1>2

LEMMA DoneTypes ==
    ASSUME ConsoleTypes, NEW o \in Orders, Console!Done(o)
    PROVE  /\ inMemory' \in Loaded /\ inMemory' = Console!InMemory(o)
           /\ inMemory'.from = inMemory.from
           /\ console' \in Rows /\ registry' \in BOOLEAN /\ Console!Overtake
  <1>1. /\ inMemory' = Console!InMemory(o) /\ console' = Console!InDatabase(o)
        /\ registry' = (o.do = "alias" \/ (registry /\ o.do # "remove alias"))
        /\ Console!Overtake
    BY DEF Console!Done
  <1>2. inMemory \in Loaded /\ console \in Rows
    BY DEF ConsoleTypes
  <1>3. /\ Console!InMemory(o) \in Loaded /\ Console!InMemory(o).from = inMemory.from
        /\ Console!InDatabase(o) \in Rows
    BY <1>2, InMemoryLoads, InDatabaseRows
  <1>4. registry' \in BOOLEAN
    BY <1>1
  <1>. QED BY <1>1, <1>3, <1>4

\* What an operation was accepted for does not change while it is under way.
LEMMA StaysAccepted ==
    ASSUME NEW o \in Orders, Console!Accepts(o), o.do # "remove alias", inMemory' = inMemory
    PROVE  Console!Accepts(o)'
  BY DEF Console!Accepts, Orders, Named

LEMMA UnderWayAccepted ==
    ASSUME InCourse, op # Console!Idle, op'.o = op.o, inMemory' = inMemory,
           op.o.do # "remove alias"
    PROVE  Console!Accepts(op.o)'
  <1>1. PICK o \in Orders : o = op.o
    BY DEF InCourse, ConsoleTypes
  <1>2. Console!Accepts(o)
    BY <1>1 DEF InCourse, Course
  <1>3. Console!Accepts(o)'
    BY <1>1, <1>2, StaysAccepted
  <1>. QED BY <1>1, <1>3

LEMMA InitCourse == MCInit => InCourse
  <1>. SUFFICES ASSUME Console!Init PROVE InCourse
    BY DEF MCInit
  <1>1. /\ providers \in {Template.quota, Gone}
        /\ models \in {[deps |-> Template.deps, alias |-> Template.alias], Gone}
        /\ stale = {} /\ unread = {} /\ up = TRUE
        /\ inMemory = Console!OnDisk /\ registry = Console!OnDisk.alias
        /\ reload = Console!Idle /\ op = Console!Idle
        /\ console = [n \in Names |-> Console!None]
    BY DEF Console!Init
  <1>2. /\ providers \in Console!Entries \cup {Gone} /\ models \in Console!Catalogues \cup {Gone}
    BY <1>1, TemplateAssumption DEF Console!Entries, Console!Quotas, Console!Absent,
       Console!Catalogues
  <1>3. Console!OnDisk \in Loaded
    <2>1. /\ (IF providers = Gone THEN Template.quota ELSE providers) \in Console!Entries
          /\ (IF models = Gone THEN Template.deps ELSE models.deps) \in SUBSET Names
          /\ (IF models = Gone THEN Template.alias ELSE models.alias) \in BOOLEAN
      BY <1>2, TemplateAssumption DEF Console!Entries, Console!Quotas, Console!Absent,
         Console!Catalogues
    <2>. QED BY <2>1 DEF Console!OnDisk, Loaded
  <1>4. Console!OnDisk.alias \in BOOLEAN
    BY <1>3 DEF Loaded
  <1>5. ConsoleTypes
    BY <1>1, <1>2, <1>3, <1>4 DEF ConsoleTypes, Rows
  <1>6. \A f \in inMemory.from : Console!Holds(f)
    BY <1>1 DEF Console!OnDisk
  <1>7. Course
    BY <1>1, <1>6, AtRest DEF Course
  <1>. QED BY <1>5, <1>7 DEF InCourse

LEMMA StartCourse == ASSUME InCourse, Console!Start PROVE InCourse'
  <1>1. /\ op = Console!Idle /\ reload = Console!Idle
        /\ console' = Console!Mirrored(console, Console!OnDisk.quota)
        /\ inMemory' = [Console!OnDisk EXCEPT !.quota =
              [n \in Names |-> IF @[n] # Console!Absent /\ console'[n] # Console!None
                               THEN console'[n] ELSE @[n]]]
        /\ registry' = Console!OnDisk.alias /\ stale' = {} /\ unread' = {} /\ up' = TRUE
        /\ UNCHANGED <<providers, models, reload, op>>
    BY DEF Console!Start, Console!files, InCourse, Course
  <1>2. Console!OnDisk \in Loaded
    BY OnDiskLoads DEF InCourse
  <1>3. console' \in Rows
    BY <1>1, MirroredRows DEF InCourse, ConsoleTypes
  <1>4. inMemory' \in Loaded /\ registry' \in BOOLEAN
    BY <1>1, <1>2, <1>3 DEF Loaded, Rows, Console!Entries, Console!Quotas
  <1>5. ConsoleTypes'
    BY <1>1, <1>3, <1>4 DEF InCourse, ConsoleTypes
  <1>6. inMemory'.from = {f \in Console!Files : Console!Holds(f)}
    <2>1. Console!OnDisk.from = {f \in Console!Files : Console!Holds(f)}
      BY DEF Console!OnDisk
    <2>. QED BY <1>1, <1>2, <2>1 DEF Loaded
  <1>7. \A f \in inMemory'.from : Console!Holds(f)'
    BY <1>1, <1>6 DEF Console!Holds
  <1>8. Course'
    BY <1>1, <1>7, AtRestNext DEF Course
  <1>. QED BY <1>5, <1>8 DEF InCourse

LEMMA CrashCourse == ASSUME InCourse, Console!Crash PROVE InCourse'
  <1>1. /\ op' = Console!Idle /\ reload' = Console!Idle /\ up' = FALSE
        /\ UNCHANGED <<providers, models, stale, inMemory, registry, console, unread>>
    BY DEF Console!Crash, Console!files, Console!memory, Console!history
  <1>2. ConsoleTypes'
    BY <1>1 DEF InCourse, ConsoleTypes
  <1>3. Course'
    BY <1>1, AtRestNext DEF Course
  <1>. QED BY <1>2, <1>3 DEF InCourse

LEMMA ReloadReadCourse == ASSUME InCourse, Console!ReloadRead PROVE InCourse'
  <1>1. /\ reload' = [text |-> Console!OnDisk, overtaken |-> op # Console!Idle]
        /\ registry' = Console!OnDisk.alias /\ stale' = {} /\ up /\ up' = up
        /\ UNCHANGED <<providers, models, inMemory, op, console, unread>>
    BY DEF Console!ReloadRead, Console!files, Console!history
  <1>2. Console!OnDisk \in Loaded /\ (op # Console!Idle) \in BOOLEAN
    BY OnDiskLoads DEF InCourse
  <1>3. reload' \in [text : Loaded, overtaken : BOOLEAN] /\ registry' \in BOOLEAN
    BY <1>1, <1>2 DEF Loaded
  <1>4. \A f \in Console!Files : Writing(f)' <=> Writing(f)
    BY <1>1 DEF Writing
  <1>5. ConsoleTypes'
    BY <1>1, <1>3 DEF InCourse, ConsoleTypes, Writing
  <1>6. Course'
    <2>1. op' # Console!Idle /\ op'.o.do # "remove alias" => Console!Accepts(op.o)'
      BY <1>1, UnderWayAccepted
    <2>2. \A f \in Console!Files : Writing(f)' => f \in inMemory'.from /\ ~Console!Holds(f)'
      BY <1>1, <1>4 DEF InCourse, Course, Console!Holds
    <2>3. Console!OnDisk' = Console!OnDisk
      BY <1>1 DEF Console!OnDisk, Console!Holds
    <2>4. \A f : Console!Holds(f)' <=> Console!Holds(f)
      BY <1>1 DEF Console!Holds
    <2>5. /\ \A f \in inMemory'.from : Console!Holds(f)' \/ Writing(f)'
          /\ \A f \in reload'.text.from : Console!Holds(f)' \/ Writing(f)'
      <3>1. \A f \in Console!Files : Console!Holds(f) \/ Writing(f) =>
                                        Console!Holds(f)' \/ Writing(f)'
        BY <1>4, <2>4
      <3>2. inMemory'.from \subseteq Console!Files /\ reload'.text.from \subseteq Console!Files
        BY <1>1, <1>2 DEF InCourse, ConsoleTypes, Loaded
      <3>3. \A f \in reload'.text.from : Console!Holds(f)
        BY <1>1 DEF Console!OnDisk
      <3>. QED BY <1>1, <3>1, <3>2, <3>3 DEF InCourse, Course
    <2>. QED BY <1>1, <2>1, <2>2, <2>3, <2>5 DEF Course
  <1>. QED BY <1>5, <1>6 DEF InCourse

LEMMA ReloadAssignCourse == ASSUME InCourse, Console!ReloadAssign PROVE InCourse'
  <1>1. /\ op = Console!Idle /\ op' = op /\ reload' = Console!Idle /\ reload # Console!Idle
        /\ inMemory' = Console!Overridden(reload.text)
        /\ console' = Console!Mirrored(console, reload.text.quota)
        /\ unread' \in {unread, {}}
        /\ UNCHANGED <<providers, models, stale, up, registry>>
    BY DEF Console!ReloadAssign, Console!files
  <1>2. reload.text \in Loaded /\ console \in Rows
    BY <1>1 DEF InCourse, ConsoleTypes
  <1>3. inMemory' \in Loaded /\ console' \in Rows
    BY <1>1, <1>2, OverriddenLoads, MirroredRows
  <1>4. ConsoleTypes'
    BY <1>1, <1>3 DEF InCourse, ConsoleTypes
  <1>5. \A f \in inMemory'.from : Console!Holds(f)'
    <2>1. inMemory'.from = reload.text.from /\ reload.text.from \subseteq Console!Files
      BY <1>1, <1>2, OverriddenLoads DEF Loaded
    <2>. QED BY <1>1, <2>1, AtRest DEF InCourse, Course, Console!Holds
  <1>6. Course'
    BY <1>1, <1>5, AtRestNext DEF Course
  <1>. QED BY <1>4, <1>6 DEF InCourse

\* What rests, and a reload that was overtaken or is none, needs no more.
LEMMA RestsInCourse ==
    ASSUME ConsoleTypes', op' = Console!Idle, up',
           reload' # Console!Idle => reload'.overtaken,
           \A f \in inMemory'.from : Console!Holds(f)',
           reload' # Console!Idle => \A f \in reload'.text.from : Console!Holds(f)'
    PROVE  InCourse'
  BY AtRestNext DEF InCourse, Course

LEMMA BeginCourse ==
    ASSUME InCourse, NEW o \in Orders, Console!Begin(o) PROVE InCourse'
  <1> DEFINE f == Console!FileOf(o)
             text == Console!Written(o)
  <1>1. /\ up /\ op = Console!Idle /\ Console!Accepts(o) /\ f \in inMemory.from
        /\ op' = [o |-> o, step |-> "put", text |-> text] /\ Console!Overtake
        /\ IF f = "providers" THEN providers' = Gone /\ UNCHANGED models
                              ELSE models' = Gone /\ UNCHANGED providers
        /\ UNCHANGED <<stale, up, inMemory, registry, console, unread>>
    BY DEF Console!Begin, Console!Asked, Console!Rotate, Console!memory, Console!history
  <1>2. op'.o = o /\ op'.step = "put" /\ op'.text = text /\ op' # Console!Idle
    BY <1>1 DEF Console!Idle
  <1>3. f \in Console!Files /\ \A g \in Console!Files : Writing(g)' <=> g = f
    <2>1. f \in Console!Files
      BY WrittenTypes DEF InCourse, ConsoleTypes
    <2>2. \A g : Writing(g)' <=> Console!FileOf(op'.o) = g
      BY <1>2 DEF Writing, Console!FileOf
    <2>. QED BY <1>2, <2>1, <2>2
  <1>4. ConsoleTypes'
    <2>1. /\ f = "providers" => text \in Console!Entries
          /\ f = "models" => text \in Console!Catalogues
      <3>1. Console!Holds(f)
        BY <1>1, <1>3, AtRest DEF InCourse, Course
      <3>. QED BY WrittenTypes, <3>1 DEF InCourse, ConsoleTypes, Console!Holds
    <2>2. providers' \in Console!Entries \cup {Gone} /\ models' \in Console!Catalogues \cup {Gone}
      BY <1>1 DEF InCourse, ConsoleTypes
    <2>3. /\ stale' \subseteq Console!Files /\ unread' \subseteq Console!Files
          /\ up' \in BOOLEAN /\ registry' \in BOOLEAN /\ inMemory' \in Loaded /\ console' \in Rows
      BY <1>1 DEF InCourse, ConsoleTypes
    <2>4. reload' = Console!Idle \/ reload' \in [text : Loaded, overtaken : BOOLEAN]
      BY <1>1, OvertakeTypes DEF InCourse
    <2>5. /\ op' = [o |-> op'.o, step |-> op'.step, text |-> op'.text]
          /\ op'.o \in Orders /\ op'.step \in {"put", "retarget", "put2"}
          /\ op'.step # "put" => op'.o.do = "rename"
      BY <1>1, <1>2
    <2>6. /\ Writing("providers")' => op'.text \in Console!Entries
          /\ Writing("models")' => op'.text \in Console!Catalogues
      BY <1>2, <1>3, <2>1 DEF Console!Files
    <2>. QED BY <2>2, <2>3, <2>4, <2>5, <2>6 DEF ConsoleTypes
  <1>5. Course'
    <2>1. \A g \in Console!Files : Console!Holds(g)' <=> (Console!Holds(g) /\ g # f)
      BY <1>1, <1>3 DEF Console!Holds, Console!Files
    <2>2. op'.o.do # "remove alias" => Console!Accepts(op.o)'
      <3>1. o.do # "remove alias" => Console!Accepts(o)'
        BY <1>1, StaysAccepted
      <3>. QED BY <1>2, <3>1
    <2>3. /\ \A g \in inMemory.from : Console!Holds(g)' \/ Writing(g)'
          /\ reload # Console!Idle => \A g \in reload.text.from : Console!Holds(g)' \/ Writing(g)'
      <3>1. \A g \in Console!Files : Console!Holds(g) \/ Writing(g) =>
                                        Console!Holds(g)' \/ Writing(g)'
        BY <1>1, <1>3, <2>1, AtRest
      <3>2. /\ inMemory.from \subseteq Console!Files
            /\ reload # Console!Idle => reload.text.from \subseteq Console!Files
        BY DEF InCourse, ConsoleTypes, Loaded
      <3>. QED BY <1>1, <3>1, <3>2 DEF InCourse, Course
    <2>. QED BY <1>1, <1>2, <1>3, <2>1, <2>2, <2>3, OvertakeTypes DEF InCourse, Course
  <1>. QED BY <1>4, <1>5 DEF InCourse

LEMMA RefuseCourse ==
    ASSUME InCourse, NEW o \in Orders, Console!Refuse(o) PROVE InCourse'
  <1>1. /\ up /\ op = Console!Idle /\ op' = op /\ up' = up /\ reload' = reload
        /\ inMemory' = (IF o.do = "merge" THEN [inMemory EXCEPT !.deps = @ \cup {o.n}]
                        ELSE inMemory)
        /\ registry' = (registry /\ o.do # "remove alias")
        /\ UNCHANGED <<providers, models, stale, console, unread>>
        /\ Console!FileOf(o) \in stale
    BY DEF Console!Refuse, Console!Asked, Console!Fresh, Console!files, Console!history
  <1>2. o.do = "merge" => o.n \in Names
    BY DEF Orders, Named
  <1>3. inMemory' \in Loaded /\ inMemory'.from = inMemory.from /\ registry' \in BOOLEAN
    BY <1>1, <1>2 DEF InCourse, ConsoleTypes, Loaded
  <1>4. ConsoleTypes'
    BY <1>1, <1>3, AtRestNext DEF InCourse, ConsoleTypes
  <1>5. reload # Console!Idle => reload.overtaken
    BY <1>1 DEF InCourse, Course
  <1>6. \A f : Console!Holds(f)' <=> Console!Holds(f)
    BY <1>1 DEF Console!Holds
  <1>7. /\ \A f \in inMemory.from : Console!Holds(f)
        /\ reload # Console!Idle => \A f \in reload.text.from : Console!Holds(f)
    <2>1. /\ inMemory.from \subseteq Console!Files
          /\ reload # Console!Idle => reload.text.from \subseteq Console!Files
      BY DEF InCourse, ConsoleTypes, Loaded
    <2>. QED BY <1>1, <2>1, AtRest DEF InCourse, Course
  <1>. QED BY <1>1, <1>3, <1>4, <1>5, <1>6, <1>7, RestsInCourse

\* The end of an operation, with its file in place.
LEMMA DoneCourse ==
    ASSUME InCourse, NEW o \in Orders, Console!Done(o), op' = Console!Idle, up, up' = up,
           providers' \in Console!Entries \cup {Gone}, models' \in Console!Catalogues \cup {Gone},
           stale' \subseteq stale, unread' = unread,
           \A f \in Console!Files : Console!Holds(f) \/ Writing(f) => Console!Holds(f)'
    PROVE  InCourse'
  <1>1. /\ inMemory' \in Loaded /\ inMemory'.from = inMemory.from
        /\ console' \in Rows /\ registry' \in BOOLEAN /\ Console!Overtake
    BY DoneTypes DEF InCourse
  <1>2. /\ reload' = Console!Idle \/ reload' \in [text : Loaded, overtaken : BOOLEAN]
        /\ reload' = Console!Idle <=> reload = Console!Idle
        /\ reload' # Console!Idle => reload'.overtaken /\ reload'.text = reload.text
    BY <1>1, OvertakeTypes DEF InCourse
  <1>3. ConsoleTypes'
    BY <1>1, <1>2 DEF InCourse, ConsoleTypes
  <1>4. /\ inMemory.from \subseteq Console!Files
        /\ reload # Console!Idle => reload.text.from \subseteq Console!Files
    BY DEF InCourse, ConsoleTypes, Loaded
  <1>5. /\ \A f \in inMemory'.from : Console!Holds(f)'
        /\ reload' # Console!Idle => \A f \in reload'.text.from : Console!Holds(f)'
    BY <1>1, <1>2, <1>4 DEF InCourse, Course
  <1>. QED BY <1>2, <1>3, <1>5, RestsInCourse

\* Between the two files of a rename.
LEMMA RetargetCourse ==
    ASSUME InCourse, NEW o \in Orders, o.do = "rename", Console!Accepts(o),
           op' = [o |-> o, step |-> "retarget", text |-> Gone], Console!Overtake,
           up, up' = up, UNCHANGED <<inMemory, registry, console, unread>>,
           providers' \in Console!Entries \cup {Gone}, models' \in Console!Catalogues \cup {Gone},
           stale' \subseteq stale,
           \A f \in Console!Files : Console!Holds(f) \/ Writing(f) => Console!Holds(f)'
    PROVE  InCourse'
  <1>1. /\ op'.o = o /\ op'.step = "retarget" /\ op' # Console!Idle
        /\ op' = [o |-> op'.o, step |-> op'.step, text |-> op'.text]
    BY DEF Console!Idle
  <1>2. \A f \in Console!Files : ~Writing(f)'
    BY <1>1 DEF Writing, Console!FileOf
  <1>3. /\ reload' = Console!Idle \/ reload' \in [text : Loaded, overtaken : BOOLEAN]
        /\ reload' = Console!Idle <=> reload = Console!Idle
        /\ reload' # Console!Idle => reload'.overtaken /\ reload'.text = reload.text
    BY OvertakeTypes DEF InCourse
  <1>4. ConsoleTypes'
    <2>1. "providers" \in Console!Files /\ "models" \in Console!Files
      BY DEF Console!Files
    <2>2. /\ op'.o \in Orders /\ op'.step \in {"put", "retarget", "put2"}
          /\ ~Writing("providers")' /\ ~Writing("models")'
      BY <1>1, <1>2, <2>1
    <2>3. /\ stale' \subseteq Console!Files /\ unread' \subseteq Console!Files
          /\ up' \in BOOLEAN /\ registry' \in BOOLEAN /\ inMemory' \in Loaded /\ console' \in Rows
      BY DEF InCourse, ConsoleTypes
    <2>. QED BY <1>1, <1>3, <2>2, <2>3 DEF ConsoleTypes
  <1>5. Course'
    <2>1. Console!Accepts(op.o)'
      <3>1. Console!Accepts(o)'
        BY StaysAccepted
      <3>. QED BY <1>1, <3>1
    <2>2. /\ inMemory.from \subseteq Console!Files
          /\ reload # Console!Idle => reload.text.from \subseteq Console!Files
      BY DEF InCourse, ConsoleTypes, Loaded
    <2>3. /\ \A f \in inMemory.from : Console!Holds(f)'
          /\ reload # Console!Idle => \A f \in reload.text.from : Console!Holds(f)'
      BY <2>2 DEF InCourse, Course
    <2>. QED BY <1>1, <1>2, <1>3, <2>1, <2>3 DEF Course
  <1>. QED BY <1>4, <1>5 DEF InCourse

LEMMA UnwrittenCourse ==
    ASSUME InCourse, NEW o \in Orders, Console!Unwritten(o) PROVE InCourse'
  <1>1. /\ up /\ op = Console!Idle /\ Console!Accepts(o)
        /\ UNCHANGED <<providers, models, stale, up, unread>>
        /\ IF o.do = "rename"
           THEN /\ op' = [o |-> o, step |-> "retarget", text |-> Gone] /\ Console!Overtake
                /\ UNCHANGED <<inMemory, registry, console>>
           ELSE Console!Done(o) /\ UNCHANGED op
    BY DEF Console!Unwritten, Console!Asked, Console!files, Console!memory
  <1>2. /\ providers' \in Console!Entries \cup {Gone} /\ models' \in Console!Catalogues \cup {Gone}
        /\ \A f \in Console!Files : Console!Holds(f) \/ Writing(f) => Console!Holds(f)'
    BY <1>1, AtRest DEF InCourse, ConsoleTypes, Console!Holds
  <1>3. CASE o.do = "rename"
    BY <1>1, <1>2, <1>3, RetargetCourse
  <1>4. CASE o.do # "rename"
    BY <1>1, <1>2, <1>4, DoneCourse
  <1>. QED BY <1>3, <1>4

LEMMA GoneIsNone == Gone \notin Console!Entries /\ Gone \notin Console!Catalogues
  BY TemplateAssumption DEF Console!Entries, Console!Quotas, Console!Absent, Console!Catalogues

\* The new file takes its place.
LEMMA Placed ==
    ASSUME InCourse, Console!Put
    PROVE  LET target == IF op.step = "put2" THEN "models" ELSE Console!FileOf(op.o) IN
           /\ target \in Console!Files /\ op # Console!Idle /\ up /\ up' = up /\ unread' = unread
           /\ op.o \in Orders /\ op = [o |-> op.o, step |-> op.step, text |-> op.text]
           /\ \A f \in Console!Files : Writing(f) <=> f = target
           /\ target = "providers" =>
                providers' = op.text /\ op.text \in Console!Entries /\ models' = models
           /\ target = "models" =>
                models' = op.text /\ op.text \in Console!Catalogues /\ providers' = providers
           /\ stale' = stale \ {target}
           /\ \A f \in Console!Files : Console!Holds(f)' <=> (Console!Holds(f) \/ f = target)
  <1> DEFINE target == IF op.step = "put2" THEN "models" ELSE Console!FileOf(op.o)
  <1>1. /\ op # Console!Idle /\ up /\ up' = up /\ unread' = unread /\ op.step \in {"put", "put2"}
        /\ IF target = "providers" THEN providers' = op.text /\ UNCHANGED models
                                 ELSE models' = op.text /\ UNCHANGED providers
        /\ stale' = stale \ {target}
    BY DEF Console!Put
  <1>2. /\ op.o \in Orders /\ op = [o |-> op.o, step |-> op.step, text |-> op.text]
        /\ Writing("providers") => op.text \in Console!Entries
        /\ Writing("models") => op.text \in Console!Catalogues
    BY <1>1 DEF InCourse, ConsoleTypes
  <1>3. target \in Console!Files /\ "models" \in Console!Files
    BY DEF Console!FileOf, Console!Files
  <1>4. \A f \in Console!Files : Writing(f) <=> f = target
    BY <1>1 DEF Writing
  <1> HIDE DEF target
  <1>5. /\ target = "providers" =>
             providers' = op.text /\ op.text \in Console!Entries /\ models' = models
        /\ target = "models" =>
             models' = op.text /\ op.text \in Console!Catalogues /\ providers' = providers
    BY <1>1, <1>2, <1>3, <1>4 DEF Console!Files
  <1>6. \A f \in Console!Files : Console!Holds(f)' <=> (Console!Holds(f) \/ f = target)
    BY <1>3, <1>5, GoneIsNone DEF Console!Holds, Console!Files
  <1>7. /\ target \in Console!Files /\ op # Console!Idle /\ up /\ up' = up /\ unread' = unread
        /\ op.o \in Orders /\ op = [o |-> op.o, step |-> op.step, text |-> op.text]
        /\ stale' = stale \ {target}
    BY <1>1, <1>2, <1>3
  <1>. QED BY <1>4, <1>5, <1>6, <1>7 DEF target

LEMMA PutCourse == ASSUME InCourse, Console!Put PROVE InCourse'
  <1> DEFINE target == IF op.step = "put2" THEN "models" ELSE Console!FileOf(op.o)
  <1>1. /\ target \in Console!Files /\ op # Console!Idle /\ up /\ up' = up /\ unread' = unread
        /\ op.o \in Orders /\ op = [o |-> op.o, step |-> op.step, text |-> op.text]
        /\ \A f \in Console!Files : Writing(f) <=> f = target
        /\ stale' \subseteq stale
        /\ \A f \in Console!Files : Console!Holds(f)' <=> (Console!Holds(f) \/ f = target)
    BY Placed
  <1>2. /\ providers' \in Console!Entries \cup {Gone} /\ models' \in Console!Catalogues \cup {Gone}
    BY Placed DEF InCourse, ConsoleTypes, Console!Files
  <1>3. \A f \in Console!Files : Console!Holds(f) \/ Writing(f) => Console!Holds(f)'
    BY <1>1
  <1>4. PICK o \in Orders : o = op.o
    BY <1>1
  <1> HIDE DEF target
  <1>5. CASE /\ o.do = "rename" /\ op.step = "put" /\ Console!Overtake
             /\ op' = [op EXCEPT !.step = "retarget", !.text = Gone]
             /\ UNCHANGED <<inMemory, registry, console>>
    <2>1. op' = [o |-> o, step |-> "retarget", text |-> Gone]
      BY <1>1, <1>4, <1>5
    <2>2. Console!Accepts(o)
      BY <1>1, <1>4, <1>5 DEF InCourse, Course
    <2>. QED BY <1>1, <1>2, <1>3, <1>5, <2>1, <2>2, RetargetCourse
  <1>6. CASE op' = Console!Idle /\ Console!Done(o)
    BY <1>1, <1>2, <1>3, <1>6, DoneCourse
  <1>7. CASE op' = Console!Idle /\ Console!Overtake /\ UNCHANGED <<inMemory, registry, console>>
    <2>1. /\ reload' = Console!Idle \/ reload' \in [text : Loaded, overtaken : BOOLEAN]
          /\ reload' = Console!Idle <=> reload = Console!Idle
          /\ reload' # Console!Idle => reload'.overtaken /\ reload'.text = reload.text
      BY <1>7, OvertakeTypes DEF InCourse
    <2>2. ConsoleTypes'
      BY <1>1, <1>2, <1>7, <2>1 DEF InCourse, ConsoleTypes
    <2>3. /\ inMemory.from \subseteq Console!Files
          /\ reload # Console!Idle => reload.text.from \subseteq Console!Files
      BY DEF InCourse, ConsoleTypes, Loaded
    <2>4. /\ \A f \in inMemory'.from : Console!Holds(f)'
          /\ reload' # Console!Idle => \A f \in reload'.text.from : Console!Holds(f)'
      BY <1>1, <1>3, <1>7, <2>1, <2>3 DEF InCourse, Course
    <2>. QED BY <1>1, <1>7, <2>1, <2>2, <2>4, RestsInCourse
  <1>. QED BY <1>4, <1>5, <1>6, <1>7 DEF Console!Put, Console!memory

LEMMA RetargetStepCourse == ASSUME InCourse, Console!Retarget PROVE InCourse'
  <1>1. /\ up /\ up' = up /\ op # Console!Idle /\ op.step = "retarget" /\ stale' = stale
        /\ unread' = unread
    BY DEF Console!Retarget
  <1>2. PICK o \in Orders : o = op.o /\ o.do = "rename"
    BY <1>1 DEF InCourse, ConsoleTypes
  <1>3. \A f \in Console!Files : ~Writing(f)
    BY <1>1 DEF Writing
  <1>4. /\ \A f \in inMemory.from : Console!Holds(f)
        /\ reload # Console!Idle => \A f \in reload.text.from : Console!Holds(f)
        /\ reload # Console!Idle => reload.overtaken
        /\ inMemory.from \subseteq Console!Files
        /\ reload # Console!Idle => reload.text.from \subseteq Console!Files
    <2>1. /\ inMemory.from \subseteq Console!Files
          /\ reload # Console!Idle => reload.text.from \subseteq Console!Files
      BY DEF InCourse, ConsoleTypes, Loaded
    <2>. QED BY <1>1, <1>3, <2>1 DEF InCourse, Course
  <1>5. CASE Console!Done(o) /\ op' = Console!Idle /\ UNCHANGED <<providers, models>>
    <2>1. /\ providers' \in Console!Entries \cup {Gone}
          /\ models' \in Console!Catalogues \cup {Gone}
      BY <1>5 DEF InCourse, ConsoleTypes
    <2>2. \A f \in Console!Files : Console!Holds(f) \/ Writing(f) => Console!Holds(f)'
      BY <1>3, <1>5 DEF Console!Holds
    <2>. QED BY <1>1, <1>5, <2>1, <2>2, DoneCourse
  <1>6. CASE /\ ~("models" \in inMemory.from => o.n \notin models.deps)
             /\ op' = [o |-> o, step |-> "put2",
                       text |-> [models EXCEPT !.deps = Console!Renamed(@, o)]]
             /\ models' = Gone /\ providers' = providers
             /\ UNCHANGED <<inMemory, registry, reload, console>>
    <2> DEFINE text == [models EXCEPT !.deps = Console!Renamed(@, o)]
    <2>1. "models" \in inMemory.from /\ Console!Holds("models")
      BY <1>4, <1>6
    <2>2. models \in Console!Catalogues
      BY <2>1 DEF InCourse, ConsoleTypes, Console!Holds
    <2>3. text \in Console!Catalogues
      BY <1>2, <2>2 DEF Orders, Named, Console!Catalogues, Console!Renamed
    <2>4. op'.o = o /\ op'.step = "put2" /\ op'.text = text /\ op' # Console!Idle
      BY <1>6 DEF Console!Idle
    <2> HIDE DEF text
    <2>5. \A f : Writing(f)' <=> f = "models"
      BY <2>4 DEF Writing
    <2>6. ConsoleTypes'
      <3>1. /\ op' = [o |-> op'.o, step |-> op'.step, text |-> op'.text]
            /\ op'.o \in Orders /\ op'.step \in {"put", "retarget", "put2"}
            /\ op'.step # "put" => op'.o.do = "rename"
            /\ ~Writing("providers")' /\ op'.text \in Console!Catalogues
        BY <1>2, <1>6, <2>3, <2>4, <2>5 DEF text
      <3>2. /\ providers' \in Console!Entries \cup {Gone}
            /\ models' \in Console!Catalogues \cup {Gone}
            /\ stale' \subseteq Console!Files /\ unread' \subseteq Console!Files
            /\ up' \in BOOLEAN /\ registry' \in BOOLEAN /\ inMemory' \in Loaded /\ console' \in Rows
            /\ reload' = Console!Idle \/ reload' \in [text : Loaded, overtaken : BOOLEAN]
        BY <1>1, <1>6 DEF InCourse, ConsoleTypes
      <3>. QED BY <3>1, <3>2 DEF ConsoleTypes
    <2>7. Console!Accepts(op.o)'
      BY <1>1, <1>2, <1>6, <2>4, UnderWayAccepted
    <2>8. \A f \in Console!Files : Console!Holds(f)' <=> (Console!Holds(f) /\ f # "models")
      BY <1>6 DEF Console!Holds, Console!Files
    <2>9. Course'
      BY <1>1, <1>4, <1>6, <2>1, <2>4, <2>5, <2>7, <2>8 DEF Course
    <2>. QED BY <2>6, <2>9 DEF InCourse
  <1>7. CASE /\ op' = Console!Idle
             /\ UNCHANGED <<providers, models, inMemory, registry, reload, console>>
    <2>1. ConsoleTypes'
      BY <1>1, <1>7 DEF InCourse, ConsoleTypes
    <2>2. \A f : Console!Holds(f)' <=> Console!Holds(f)
      BY <1>7 DEF Console!Holds
    <2>. QED BY <1>1, <1>4, <1>7, <2>1, <2>2, RestsInCourse
  <1>. QED
    <2>1. \/ Console!Done(o) /\ op' = Console!Idle /\ UNCHANGED <<providers, models>>
          \/ /\ ~("models" \in inMemory.from => o.n \notin models.deps)
             /\ Console!Rotate(o, "put2", [models EXCEPT !.deps = Console!Renamed(@, o)])
             /\ UNCHANGED <<inMemory, registry, reload, console>>
          \/ /\ op' = Console!Idle
             /\ UNCHANGED <<providers, models, inMemory, registry, reload, console>>
      BY <1>2 DEF Console!Retarget, Console!memory, Console!files
    <2>. QED BY <1>5, <1>6, <1>7, <2>1 DEF Console!Rotate

\* Reset, peek and edit leave the operations alone; a reload is overtaken, or sees nothing of it.
LEMMA AsideCourse ==
    ASSUME InCourse, op = Console!Idle, op' = op, up' = up,
           providers' \in Console!Entries \cup {Gone}, models' \in Console!Catalogues \cup {Gone},
           \A f \in Console!Files : Console!Holds(f) => Console!Holds(f)',
           stale' \subseteq Console!Files, unread' \subseteq Console!Files, registry' = registry,
           inMemory' \in Loaded, inMemory'.from = inMemory.from, console' \in Rows,
           Console!Overtake \/ (stale # {} /\ reload' = reload)
    PROVE  InCourse'
  <1>1. /\ reload' = Console!Idle \/ reload' \in [text : Loaded, overtaken : BOOLEAN]
        /\ reload' = Console!Idle <=> reload = Console!Idle
        /\ reload' # Console!Idle => reload'.overtaken /\ reload'.text = reload.text
    <2>1. CASE Console!Overtake
      BY <2>1, OvertakeTypes DEF InCourse
    <2>2. CASE stale # {} /\ reload' = reload
      <3>1. reload # Console!Idle => reload.overtaken
        BY <2>2 DEF InCourse, Course
      <3>. QED BY <2>2, <3>1 DEF InCourse, ConsoleTypes
    <2>. QED BY <2>1, <2>2
  <1>2. ConsoleTypes'
    BY <1>1 DEF InCourse, ConsoleTypes
  <1>3. Course'
    <2>1. /\ inMemory.from \subseteq Console!Files
          /\ reload # Console!Idle => reload.text.from \subseteq Console!Files
      BY DEF InCourse, ConsoleTypes, Loaded
    <2>2. /\ up' => \A f \in inMemory'.from : Console!Holds(f)'
          /\ reload' # Console!Idle => \A f \in reload'.text.from : Console!Holds(f)'
      BY <1>1, <2>1, AtRest DEF InCourse, Course
    <2>3. ~up' => reload' = Console!Idle
      BY <1>1 DEF InCourse, Course
    <2>. QED BY <1>1, <2>2, <2>3, AtRestNext DEF Course
  <1>. QED BY <1>2, <1>3 DEF InCourse

LEMMA ResetCourse ==
    ASSUME InCourse, NEW n \in Names, Console!ResetProviderLimits(n) PROVE InCourse'
  <1> DEFINE quota == IF Console!OnDisk.quota[n] = Console!Absent THEN "own"
                      ELSE Console!OnDisk.quota[n]
  <1>1. /\ op = Console!Idle /\ op' = op /\ up' = up /\ stale' = {} /\ unread' = unread
        /\ inMemory' = [inMemory EXCEPT !.quota[n] = quota]
        /\ console' = [console EXCEPT ![n] = Console!None]
        /\ UNCHANGED <<providers, models, registry>> /\ Console!Overtake
    BY DEF Console!ResetProviderLimits, Console!files
  <1>2. quota \in Console!Quotas
    BY OnDiskLoads DEF InCourse, Loaded, Console!Entries, Console!Quotas
  <1> HIDE DEF quota
  <1>3. inMemory' \in Loaded /\ inMemory'.from = inMemory.from
    BY <1>1, <1>2 DEF InCourse, ConsoleTypes, Loaded, Console!Entries
  <1>4. console' \in Rows
    BY <1>1 DEF InCourse, ConsoleTypes, Rows
  <1>5. /\ providers' \in Console!Entries \cup {Gone} /\ models' \in Console!Catalogues \cup {Gone}
        /\ \A f \in Console!Files : Console!Holds(f) => Console!Holds(f)'
        /\ stale' \subseteq Console!Files /\ unread' \subseteq Console!Files
    BY <1>1 DEF InCourse, ConsoleTypes, Console!Holds
  <1>. QED BY <1>1, <1>3, <1>4, <1>5, AsideCourse

LEMMA PeekCourse == ASSUME InCourse, Console!Peek PROVE InCourse'
  <1>1. /\ op = Console!Idle /\ op' = op /\ up' = up /\ stale' = {} /\ stale # {}
        /\ UNCHANGED <<providers, models, registry, inMemory, console, unread, reload>>
    BY DEF Console!Peek, Console!files, Console!memory, Console!history
  <1>2. /\ providers' \in Console!Entries \cup {Gone} /\ models' \in Console!Catalogues \cup {Gone}
        /\ \A f \in Console!Files : Console!Holds(f) => Console!Holds(f)'
        /\ stale' \subseteq Console!Files /\ unread' \subseteq Console!Files
        /\ inMemory' \in Loaded /\ console' \in Rows
    BY <1>1 DEF InCourse, ConsoleTypes, Console!Holds
  <1>. QED BY <1>1, <1>2, AsideCourse

LEMMA EditConfigCourse ==
    ASSUME InCourse, Console!EditProviders \/ Console!EditModels PROVE InCourse'
  <1>1. /\ op = Console!Idle /\ op' = op /\ up' = up
        /\ UNCHANGED <<registry, inMemory, console>> /\ Console!Overtake
        /\ \E f \in Console!Files : stale' = stale \cup {f} /\ unread' = unread \cup {f}
    BY DEF Console!EditProviders, Console!EditModels, Console!memory, Console!Files
  <1>2. /\ providers' \in Console!Entries \cup {Gone} /\ models' \in Console!Catalogues \cup {Gone}
        /\ \A f \in Console!Files : Console!Holds(f) => Console!Holds(f)'
    <2>1. CASE Console!EditProviders
      <3>1. models' = models
        BY <2>1 DEF Console!EditProviders
      <3>2. providers' \in Console!Entries
        <4>1. CASE \E n \in Names, q \in {"own", Console!Absent} :
                      providers # Gone /\ providers' = [providers EXCEPT ![n] = q]
          BY <4>1 DEF InCourse, ConsoleTypes, Console!Entries, Console!Quotas
        <4>2. CASE providers' = Template.quota
          BY <4>2, TemplateAssumption DEF Console!Entries, Console!Quotas, Console!Absent
        <4>. QED BY <2>1, <4>1, <4>2 DEF Console!EditProviders
      <3>. QED BY <3>1, <3>2, GoneIsNone DEF InCourse, ConsoleTypes, Console!Holds
    <2>2. CASE Console!EditModels
      <3>1. models' \in Console!Catalogues /\ providers' = providers
        BY <2>2, TemplateAssumption DEF Console!EditModels, Console!Catalogues
      <3>. QED BY <3>1, GoneIsNone DEF InCourse, ConsoleTypes, Console!Holds
    <2>. QED BY <2>1, <2>2
  <1>3. /\ stale' \subseteq Console!Files /\ unread' \subseteq Console!Files
        /\ inMemory' \in Loaded /\ inMemory'.from = inMemory.from /\ console' \in Rows
    BY <1>1 DEF InCourse, ConsoleTypes
  <1>. QED BY <1>1, <1>2, <1>3, AsideCourse

\* The steps of the console, with what is asked of it named.
LEMMA ConsoleSteps ==
    Console!Next =>
        \/ Console!Start \/ Console!Crash \/ Console!ReloadRead \/ Console!ReloadAssign
        \/ \E o \in Orders : Console!Begin(o) \/ Console!Refuse(o) \/ Console!Unwritten(o)
        \/ Console!Put \/ Console!Retarget \/ Console!Peek
        \/ \E n \in Names : Console!ResetProviderLimits(n)
        \/ Console!EditProviders \/ Console!EditModels
  <1>1. /\ \A n \in Names : \A do \in {"quota", "provider", "remove provider", "model", "merge"} :
             Console!On(do, n, Console!None) \in Orders
        /\ \A n, to \in Names : Console!On("rename", n, to) \in Orders
        /\ \A do \in {"remove model", "alias", "remove alias"} :
             Console!On(do, Console!None, Console!None) \in Orders
    BY DEF Console!On, Orders, Named
  <1>2. ASSUME Console!Operation
        PROVE  \/ \E o \in Orders : Console!Operate(o)
               \/ Console!Put \/ Console!Retarget \/ Console!Peek
               \/ \E n \in Names : Console!ResetProviderLimits(n)
    <2>1. CASE \E n \in Names : \/ Console!SetProviderLimits(n) \/ Console!UpsertProvider(n)
                                \/ Console!DeleteProvider(n) \/ Console!UpsertModel(n)
                                \/ Console!MergeModel(n)
      BY <1>1, <2>1 DEF Console!SetProviderLimits, Console!UpsertProvider,
         Console!DeleteProvider, Console!UpsertModel, Console!MergeModel
    <2>2. CASE \E n, to \in Names : Console!RenameProvider(n, to)
      BY <1>1, <2>2 DEF Console!RenameProvider
    <2>3. CASE Console!DeleteModel \/ Console!UpsertAlias \/ Console!DeleteAlias
      BY <1>1, <2>3 DEF Console!DeleteModel, Console!UpsertAlias, Console!DeleteAlias
    <2>. QED BY <1>2, <2>1, <2>2, <2>3 DEF Console!Operation
  <1>. QED BY <1>2 DEF Console!Next, Console!Operate

LEMMA NextCourse == ASSUME InCourse, Console!Next PROVE InCourse'
  BY ConsoleSteps, StartCourse, CrashCourse, ReloadReadCourse, ReloadAssignCourse, BeginCourse,
     RefuseCourse, UnwrittenCourse, PutCourse, RetargetStepCourse, ResetCourse, PeekCourse,
     EditConfigCourse

-----------------------------------------------------------------------------
(* The gate against stale writes *)

\* A page has re-armed the gate, or a reload is between noting the files and their use, or was
\* overtaken there.
Excused == mishaps \cap {"peek", "overtaken"} # {} \/ reload # Console!Idle

\* The gate knows of every edit, and no file that is being replaced holds one.
Gated ==
    /\ up => unread \subseteq stale \/ Excused
    /\ \A f \in Console!Files : Writing(f) => f \notin unread \/ Excused

LEMMA InitGated == MCInit => Gated
  BY AtRest DEF MCInit, Console!Init, Gated

\* Operations end no excuse.
LEMMA ExcusesStay ==
    ASSUME InCourse, NEW o \in Orders,
           \/ Console!Begin(o) \/ Console!Refuse(o) \/ Console!Unwritten(o)
           \/ Console!Put \/ Console!Retarget
    PROVE  /\ Excused => Excused'
           /\ unread' = unread /\ up' = up /\ up /\ (stale' = stale \/ Console!Put)
  <1>1. /\ mishaps \subseteq mishaps' /\ (reload' = reload \/ Console!Overtake)
        /\ unread' = unread /\ up' = up /\ up /\ (stale' = stale \/ Console!Put)
    <2>1. CASE Console!Begin(o) \/ Console!Refuse(o)
      BY <2>1 DEF Console!Begin, Console!Refuse, Console!Asked, Console!history
    <2>2. CASE Console!Unwritten(o)
      BY <2>2 DEF Console!Unwritten, Console!Asked, Console!Done
    <2>3. CASE Console!Put
      BY <2>3 DEF Console!Put, Console!Done
    <2>4. CASE Console!Retarget
      BY <2>4 DEF Console!Retarget, Console!Done
    <2>. QED BY <2>1, <2>2, <2>3, <2>4
  <1>. QED BY <1>1, OvertakeTypes DEF InCourse, Excused

LEMMA ConsoleGated == ASSUME InCourse, Gated, Console!Next PROVE Gated'
  <1>1. CASE Console!Start \/ Console!Crash
    BY <1>1, AtRestNext DEF Console!Start, Console!Crash, InCourse, Course, Gated
  <1>2. CASE Console!ReloadRead
    BY <1>2 DEF Console!ReloadRead, Console!Idle, Gated, Excused
  <1>3. CASE Console!ReloadAssign
    <2>1. op' = Console!Idle /\ (unread' = {} \/ "overtaken" \in mishaps')
      BY <1>3 DEF Console!ReloadAssign
    <2>. QED BY <2>1, AtRestNext DEF Gated, Excused
  <1>4. ASSUME NEW o \in Orders, Console!Begin(o) PROVE Gated'
    <2>1. /\ op' = [o |-> o, step |-> "put", text |-> Console!Written(o)]
          /\ Console!FileOf(o) \notin stale /\ stale' = stale
      BY <1>4 DEF Console!Begin, Console!Rotate, Console!Fresh
    <2>2. op'.o = o /\ op'.step = "put"
      BY <2>1
    <2>3. \A f : Writing(f)' => f = Console!FileOf(o)
      <3>1. \A f : Writing(f)' => Console!FileOf(op'.o) = f
        BY <2>2 DEF Writing, Console!FileOf
      <3>. QED BY <2>2, <3>1
    <2>. QED BY <1>4, <2>1, <2>3, ExcusesStay DEF Gated
  <1>5. ASSUME NEW o \in Orders, Console!Refuse(o) \/ Console!Unwritten(o) PROVE Gated'
    <2>1. op' = Console!Idle \/ op'.step = "retarget"
      <3>1. op = Console!Idle
        BY <1>5 DEF Console!Refuse, Console!Unwritten, Console!Asked
      <3>2. op' = op \/ op' = [o |-> o, step |-> "retarget", text |-> Gone]
        BY <1>5 DEF Console!Refuse, Console!Unwritten
      <3>. QED BY <3>1, <3>2
    <2>2. \A f \in Console!Files : ~Writing(f)'
      BY <2>1, AtRestNext DEF Writing
    <2>3. stale' = stale
      BY <1>5 DEF Console!Refuse, Console!Unwritten
    <2>. QED BY <1>5, <2>2, <2>3, ExcusesStay DEF Gated
  <1>6. CASE Console!Put
    <2> DEFINE target == IF op.step = "put2" THEN "models" ELSE Console!FileOf(op.o)
    <2>1. /\ op.o \in Orders /\ stale' = stale \ {target} /\ target \in Console!Files
          /\ \A f \in Console!Files : Writing(f) <=> f = target
      BY <1>6, Placed
    <2>2. op' = Console!Idle \/ op'.step = "retarget"
      <3>1. op = [o |-> op.o, step |-> op.step, text |-> op.text]
        BY <1>6, Placed
      <3>. QED BY <1>6, <3>1 DEF Console!Put
    <2>3. \A f \in Console!Files : ~Writing(f)'
      BY <2>2, AtRestNext DEF Writing
    <2>4. (Excused => Excused') /\ unread' = unread /\ up' = up
      BY <1>6, <2>1, ExcusesStay
    <2> HIDE DEF target
    <2>. QED BY <2>1, <2>3, <2>4 DEF Gated
  <1>7. CASE Console!Retarget
    <2>1. PICK o \in Orders : o = op.o
      BY <1>7 DEF Console!Retarget, InCourse, ConsoleTypes
    <2>2. (Excused => Excused') /\ unread' = unread /\ up' = up /\ up
      BY <1>7, <2>1, ExcusesStay
    <2>3. /\ stale' = stale
          /\ \/ op' = Console!Idle
             \/ op'.step = "put2" /\ "models" \notin stale
      BY <1>7 DEF Console!Retarget, Console!Rotate, Console!Fresh
    <2>4. \A f \in Console!Files : Writing(f)' => f = "models" /\ "models" \notin stale
      BY <2>3, AtRestNext DEF Writing
    <2>. QED BY <2>2, <2>3, <2>4 DEF Gated
  <1>8. CASE Console!Peek \/ \E n \in Names : Console!ResetProviderLimits(n)
    <2>1. /\ op' = Console!Idle /\ unread' = unread /\ up' = up
          /\ mishaps \subseteq mishaps' /\ (stale = {} \/ "peek" \in mishaps')
          /\ reload' = reload \/ Console!Overtake
      BY <1>8 DEF Console!Peek, Console!ResetProviderLimits, Console!history
    <2>2. Excused => Excused'
      BY <2>1, OvertakeTypes DEF InCourse, Excused
    <2>. QED BY <2>1, <2>2, AtRestNext DEF Gated, Excused
  <1>9. CASE Console!EditProviders \/ Console!EditModels
    <2>1. /\ op' = Console!Idle /\ up' = up /\ mishaps' = mishaps /\ Console!Overtake
          /\ \E f : unread' = unread \cup {f} /\ stale' = stale \cup {f}
      BY <1>9 DEF Console!EditProviders, Console!EditModels
    <2>2. Excused => Excused'
      BY <2>1, OvertakeTypes DEF InCourse, Excused
    <2>. QED BY <2>1, <2>2, AtRestNext DEF Gated
  <1>. QED BY ConsoleSteps, <1>1, <1>2, <1>3, <1>4, <1>5, <1>6, <1>7, <1>8, <1>9

\* A file comes back in the second step of a write, and in no other.
LEMMA GateStep ==
    ASSUME InCourse, Gated, Console!Next, op # Console!Idle, NEW f \in Console!Files,
           ~Console!Holds(f), Console!Holds(f)'
    PROVE  f \notin unread \/ Excused
  <1>1. Console!Put
    <2>1. ~\E o \in Orders : Console!Begin(o) \/ Console!Refuse(o) \/ Console!Unwritten(o)
      BY DEF Console!Begin, Console!Refuse, Console!Unwritten, Console!Asked
    <2>2. UNCHANGED <<providers, models>> => FALSE
      BY DEF Console!Holds
    <2>3. ~Console!Retarget
      BY <2>2 DEF Console!Retarget, Console!Rotate, Console!Holds, Console!files
    <2>4. /\ ~Console!Start /\ ~Console!Crash /\ ~Console!ReloadRead /\ ~Console!ReloadAssign
          /\ ~Console!Peek /\ ~\E n \in Names : Console!ResetProviderLimits(n)
          /\ ~Console!EditProviders /\ ~Console!EditModels
      BY <2>2 DEF Console!Start, Console!Crash, Console!ReloadRead, Console!ReloadAssign,
         Console!Peek, Console!ResetProviderLimits, Console!EditProviders, Console!EditModels,
         Console!files
    <2>. QED BY <2>1, <2>3, <2>4, ConsoleSteps
  <1>2. Writing(f)
    BY <1>1, Placed
  <1>. QED BY <1>2 DEF Gated

LEMMA ConsoleRests ==
    ASSUME UNCHANGED consoleVars
    PROVE  (InCourse => InCourse') /\ (Gated => Gated')
  <1>1. UNCHANGED <<providers, models, stale, up, inMemory, registry, reload, op, console, unread,
                    gone, asked, astray, mishaps, strayed>>
    BY DEF consoleVars
  <1>2. /\ \A f : Writing(f)' <=> Writing(f)
        /\ \A f : Console!Holds(f)' <=> Console!Holds(f)
        /\ Console!OnDisk' = Console!OnDisk
        /\ Console!Accepts(op.o)' <=> Console!Accepts(op.o)
    BY <1>1 DEF Writing, Console!FileOf, Console!Holds, Console!OnDisk, Console!Accepts
  <1>3. ConsoleTypes => ConsoleTypes'
    BY <1>1, <1>2 DEF ConsoleTypes
  <1>4. Course => Course'
    BY <1>1, <1>2 DEF Course
  <1>5. Gated => Gated'
    BY <1>1, <1>2 DEF Gated, Excused
  <1>. QED BY <1>3, <1>4, <1>5 DEF InCourse

CourseInv == InCourse /\ Gated

LEMMA NextConsole ==
    CourseInv /\ [ReloadNext \/ FilesNext \/ KeysNext]_all => CourseInv'
  <1>. SUFFICES ASSUME CourseInv, [ReloadNext \/ FilesNext \/ KeysNext]_all PROVE CourseInv'
    OBVIOUS
  <1>1. CASE UNCHANGED consoleVars
    BY <1>1, ConsoleRests DEF CourseInv
  <1>2. CASE Console!Next
    BY <1>2, NextCourse, ConsoleGated DEF CourseInv
  <1>. QED BY <1>1, <1>2 DEF ReloadNext, OnlyReload, FilesNext, KeysNext, all

\* The console writes over no edit that memory does not have: not with any number of
\* providers, operations, reloads, edits and crashes, unless a page has re-armed the gate or a
\* reload is between noting the files and taking them over.
THEOREM NoEditIsOverwritten == MCSpec => GateHolds
  <1>1. CourseInv /\ [ReloadNext \/ FilesNext \/ KeysNext]_all =>
          [\A f \in Console!Files : op # Console!Idle /\ ~Console!Holds(f) /\ Console!Holds(f)' =>
              \/ f \notin unread
              \/ mishaps \cap {"peek", "overtaken"} # {} \/ reload # Console!Idle]_Console!vars
    <2>. SUFFICES ASSUME CourseInv, Console!Next, op # Console!Idle, NEW f \in Console!Files,
                         ~Console!Holds(f), Console!Holds(f)'
                  PROVE  f \notin unread \/ Excused
      BY DEF ReloadNext, OnlyReload, FilesNext, KeysNext, all, consoleVars, Console!vars, Excused
    <2>. QED BY GateStep DEF CourseInv
  <1>2. MCInit => CourseInv
    BY InitCourse, InitGated DEF CourseInv
  <1>. QED BY <1>1, <1>2, NextConsole, PTL DEF MCSpec, GateHolds, Console!GateHolds

-----------------------------------------------------------------------------
(* Memory and files *)

\* What memory makes of the quotas in providers.yaml and those in the database.
Over(quota, rows) ==
    [n \in Names |-> IF quota[n] # Console!Absent /\ rows[n] # Console!None
                     THEN rows[n] ELSE quota[n]]

\* The quotas in use are those of the file, or will be when the operation on it is done.
QuotasAgree ==
    IF op = Console!Idle \/ Console!FileOf(op.o) = "models"
    THEN inMemory.quota = Over(providers, console)
    ELSE (op.o.do = "rename" => console[op.o.n] = Console!None) =>
           Console!QuotaAfter(op.o) =
              Over(IF op.step = "put" THEN op.text ELSE providers, Console!InDatabase(op.o))

ModelsAgree ==
    IF Writing("models")
    THEN op.text.deps = Console!DepsAfter(op.o) /\ op.text.alias = Console!AliasAfter(op.o)
    ELSE inMemory.deps = models.deps /\ inMemory.alias = models.alias

RegistryAgrees ==
    (reload # Console!Idle => ~reload.overtaken) => registry = inMemory.alias

\* Outside of the mishaps.
Agrees ==
    up /\ mishaps = {} =>
        /\ \A n \in Names : console[n] # Console!None => inMemory.quota[n] # Console!Absent
        /\ "providers" \in inMemory.from \ unread => QuotasAgree
        /\ "models" \in inMemory.from \ unread => ModelsAgree /\ RegistryAgrees

\* Rows of providers that are not there make no difference.
LEMMA OverMirrored ==
    ASSUME NEW quota \in Console!Entries, NEW rows \in Rows
    PROVE  Over(quota, Console!Mirrored(rows, quota)) = Over(quota, rows)
  <1>1. \A n \in Names : quota[n] # Console!Absent => Console!Mirrored(rows, quota)[n] = rows[n]
    BY MirroredRows
  <1>. QED BY <1>1 DEF Over

\* An operation does to memory and database what it does to the file.
LEMMA OperationAgrees ==
    ASSUME InCourse, NEW o \in Orders, Console!FileOf(o) = "providers",
           providers \in Console!Entries, "providers" \in inMemory.from,
           Console!Accepts(o), Console!Finds(o),
           inMemory.quota = Over(providers, console),
           \A n \in Names : console[n] # Console!None => inMemory.quota[n] # Console!Absent,
           o.do = "rename" => console[o.n] = Console!None
    PROVE  Console!QuotaAfter(o) = Over(Console!Written(o), Console!InDatabase(o))
  <1>1. /\ o.do \in {"quota", "provider", "rename", "remove provider"} /\ o.n \in Names
        /\ o.do = "rename" => o.to \in Names
    BY DEF Console!FileOf, Orders, Named
  <1>2. /\ inMemory \in Loaded /\ inMemory.quota \in Console!Entries /\ console \in Rows
        /\ Console!InMemory(o).quota = Console!QuotaAfter(o)
        /\ Console!QuotaAfter(o) \in Console!Entries
    <2>1. inMemory \in Loaded /\ console \in Rows
      BY DEF InCourse, ConsoleTypes
    <2>. QED BY <2>1, InMemoryLoads DEF Loaded
  <1>3. CASE o.do = "quota"
    <2>1. Console!InDatabase(o) = [console EXCEPT ![o.n] = Console!None]
      BY <1>3 DEF Console!InDatabase
    <2>. QED BY <1>1, <1>2, <1>3, <2>1
             DEF Console!QuotaAfter, Console!Written, Over, Console!Entries, Rows,
                 Console!Absent, Console!None
  <1>4. ASSUME o.do # "quota"
        PROVE  /\ \A n \in Names : Console!QuotaAfter(o)[n] # Console!Absent =>
                     Console!InDatabase(o)[n] = console[n]
    <2>1. Console!InDatabase(o) = Console!Mirrored(console, Console!QuotaAfter(o))
      BY <1>2, <1>4 DEF Console!InDatabase
    <2>. QED BY <1>2, <2>1, MirroredRows
  <1>5. CASE o.do = "provider"
    <2>. QED BY <1>1, <1>2, <1>4, <1>5
             DEF Console!QuotaAfter, Console!Written, Over, Console!Entries, Rows,
                 Console!Absent, Console!None
  <1>6. ASSUME NEW m \in Names, m # o.n, o.do # "quota",
               Console!QuotaAfter(o)[m] = inMemory.quota[m],
               Console!Written(o)[m] = providers[m]
        PROVE  Console!QuotaAfter(o)[m] = Over(Console!Written(o), Console!InDatabase(o))[m]
    <2>1. inMemory.quota[m] = (IF providers[m] # Console!Absent /\ console[m] # Console!None
                               THEN console[m] ELSE providers[m])
      BY DEF Over
    <2>2. console[m] # Console!None => console[m] # Console!Absent
      BY <1>2 DEF Rows, Console!Absent, Console!None
    <2>3. inMemory.quota[m] # Console!Absent => Console!InDatabase(o)[m] = console[m]
      BY <1>4, <1>6
    <2>4. Over(Console!Written(o), Console!InDatabase(o))[m] =
             (IF providers[m] # Console!Absent /\ Console!InDatabase(o)[m] # Console!None
              THEN Console!InDatabase(o)[m] ELSE providers[m])
      BY <1>6 DEF Over
    <2>. QED BY <1>6, <2>1, <2>2, <2>3, <2>4
  <1>7. ASSUME NEW m \in Names, Console!QuotaAfter(o)[m] = Console!Absent,
               Console!Written(o)[m] = Console!Absent
        PROVE  Console!QuotaAfter(o)[m] = Over(Console!Written(o), Console!InDatabase(o))[m]
    BY <1>7 DEF Over
  <1>8. Console!QuotaAfter(o) = [m \in Names |-> Console!QuotaAfter(o)[m]]
    BY <1>2 DEF Console!Entries
  <1>9. CASE o.do = "rename"
    <2>1. /\ providers[o.n] # Console!Absent /\ inMemory.quota[o.to] = Console!Absent
          /\ inMemory.quota[o.n] # Console!Absent /\ o.n # o.to
      BY <1>9 DEF Console!Finds, Console!Accepts
    <2>2. /\ Console!QuotaAfter(o) = [inMemory.quota EXCEPT ![o.n] = Console!Absent,
                                                          ![o.to] = inMemory.quota[o.n]]
          /\ Console!Written(o) = [providers EXCEPT ![o.n] = Console!Absent,
                                                   ![o.to] = providers[o.n]]
      BY <1>9 DEF Console!QuotaAfter, Console!Written
    <2>3. /\ \A m \in Names \ {o.n, o.to} : /\ Console!QuotaAfter(o)[m] = inMemory.quota[m]
                                            /\ Console!Written(o)[m] = providers[m]
          /\ Console!QuotaAfter(o)[o.n] = Console!Absent
          /\ Console!Written(o)[o.n] = Console!Absent
          /\ Console!QuotaAfter(o)[o.to] = inMemory.quota[o.n]
          /\ Console!Written(o)[o.to] = providers[o.n]
      BY <1>1, <1>2, <1>9, <2>1, <2>2 DEF Console!Entries
    <2>4. Console!QuotaAfter(o)[o.to] = Over(Console!Written(o), Console!InDatabase(o))[o.to]
      <3>1. inMemory.quota[o.n] = providers[o.n]
        BY <1>1, <1>9 DEF Over
      <3>2. Console!InDatabase(o)[o.to] = console[o.to] /\ console[o.to] = Console!None
        BY <1>1, <1>4, <1>9, <2>1, <2>3
      <3>. QED BY <1>1, <1>9, <2>3, <3>1, <3>2 DEF Over
    <2>5. \A m \in Names :
             Console!QuotaAfter(o)[m] = Over(Console!Written(o), Console!InDatabase(o))[m]
      BY <1>6, <1>7, <1>9, <2>3, <2>4
    <2>. QED BY <1>8, <2>5 DEF Over
  <1>10. CASE o.do = "remove provider"
    <2>1. /\ Console!QuotaAfter(o) = [inMemory.quota EXCEPT ![o.n] = Console!Absent]
          /\ Console!Written(o) = [providers EXCEPT ![o.n] = Console!Absent]
      BY <1>10 DEF Console!QuotaAfter, Console!Written
    <2>2. /\ \A m \in Names \ {o.n} : /\ Console!QuotaAfter(o)[m] = inMemory.quota[m]
                                      /\ Console!Written(o)[m] = providers[m]
          /\ Console!QuotaAfter(o)[o.n] = Console!Absent
          /\ Console!Written(o)[o.n] = Console!Absent
      BY <1>1, <1>2, <2>1 DEF Console!Entries
    <2>3. \A m \in Names :
             Console!QuotaAfter(o)[m] = Over(Console!Written(o), Console!InDatabase(o))[m]
      BY <1>6, <1>7, <1>10, <2>2
    <2>. QED BY <1>8, <2>3 DEF Over
  <1>. QED BY <1>1, <1>3, <1>5, <1>9, <1>10

\* The same of the operations on models.yaml.
LEMMA ModelWritten ==
    ASSUME NEW o \in Orders, Console!FileOf(o) = "models", models \in Console!Catalogues,
           inMemory.deps = models.deps, inMemory.alias = models.alias
    PROVE  /\ Console!Written(o).deps = Console!DepsAfter(o)
           /\ Console!Written(o).alias = Console!AliasAfter(o)
  <1>1. o.do \in {"model", "merge", "remove model", "alias", "remove alias"}
    BY DEF Console!FileOf, Orders, Named
  <1>2. models.alias \in BOOLEAN
    BY DEF Console!Catalogues
  <1>. QED BY <1>1, <1>2 DEF Console!Written, Console!DepsAfter, Console!AliasAfter,
          Console!Catalogues

\* What an operation on one file leaves of the other.
LEMMA OtherFile ==
    ASSUME InCourse, NEW o \in Orders
    PROVE  /\ Console!FileOf(o) = "models" =>
                Console!QuotaAfter(o) = inMemory.quota /\ Console!InDatabase(o) = console
           /\ Console!FileOf(o) = "providers" => Console!AliasAfter(o) = inMemory.alias
           /\ Console!FileOf(o) = "providers" /\ o.do # "rename" =>
                Console!DepsAfter(o) = inMemory.deps
  <1>1. inMemory.alias \in BOOLEAN
    BY DEF InCourse, ConsoleTypes, Loaded
  <1>. QED BY <1>1 DEF Console!FileOf, Console!QuotaAfter, Console!InDatabase,
          Console!AliasAfter, Console!DepsAfter

\* An operation looks the same as long as memory and database are.
LEMMA OperationStays ==
    ASSUME NEW o \in Orders, inMemory' = inMemory, console' = console
    PROVE  /\ Console!QuotaAfter(o)' = Console!QuotaAfter(o)
           /\ Console!DepsAfter(o)' = Console!DepsAfter(o)
           /\ Console!AliasAfter(o)' = Console!AliasAfter(o)
           /\ Console!InDatabase(o)' = Console!InDatabase(o)
  <1>1. /\ Console!QuotaAfter(o)' = Console!QuotaAfter(o)
        /\ Console!DepsAfter(o)' = Console!DepsAfter(o)
        /\ Console!AliasAfter(o)' = Console!AliasAfter(o)
    BY DEF Console!QuotaAfter, Console!DepsAfter, Console!AliasAfter
  <1>2. Console!InMemory(o)' = Console!InMemory(o)
    BY <1>1 DEF Console!InMemory
  <1>. QED BY <1>1, <1>2 DEF Console!InDatabase

\* Between operations there are no texts to look at.
LEMMA AgreesAtRest ==
    ASSUME op' = Console!Idle,
           up' /\ mishaps' = {} =>
              /\ \A n \in Names : console'[n] # Console!None => inMemory'.quota[n] # Console!Absent
              /\ "providers" \in inMemory'.from \ unread' =>
                    inMemory'.quota = Over(providers', console')
              /\ "models" \in inMemory'.from \ unread' =>
                    /\ inMemory'.deps = models'.deps /\ inMemory'.alias = models'.alias
                    /\ (reload' # Console!Idle => ~reload'.overtaken) =>
                          registry' = inMemory'.alias
    PROVE  Agrees'
  <1>1. ~Writing("models")'
    BY AtRestNext DEF Console!Files
  <1>2. Over(providers, console)' = Over(providers', console')
    BY DEF Over
  <1>. QED BY <1>1, <1>2 DEF Agrees, QuotasAgree, ModelsAgree, RegistryAgrees

LEMMA RegistryStays ==
    ASSUME InCourse, Console!Overtake, RegistryAgrees, inMemory' = inMemory, registry' = registry
    PROVE  RegistryAgrees'
  BY OvertakeTypes DEF InCourse, RegistryAgrees

LEMMA InitAgrees == MCInit => Agrees
  <1>. SUFFICES ASSUME Console!Init PROVE Agrees
    BY DEF MCInit
  <1>1. /\ inMemory = Console!OnDisk /\ registry = Console!OnDisk.alias
        /\ op = Console!Idle /\ console = [n \in Names |-> Console!None]
        /\ providers \in {Template.quota, Gone}
    BY DEF Console!Init
  <1>2. \A f \in Console!Files : ~Writing(f)
    BY <1>1, AtRest
  <1>3. \A n \in Names : console[n] = Console!None
    BY <1>1
  <1>4. ASSUME "providers" \in inMemory.from PROVE inMemory.quota = Over(providers, console)
    <2>1. providers = Template.quota /\ inMemory.quota = providers
      BY <1>1, <1>4 DEF Console!OnDisk, Console!Holds
    <2>2. providers = [n \in Names |-> providers[n]]
      BY <2>1, TemplateAssumption
    <2>. QED BY <1>3, <2>1, <2>2 DEF Over
  <1>5. ASSUME "models" \in inMemory.from
        PROVE  /\ inMemory.deps = models.deps /\ inMemory.alias = models.alias
               /\ registry = inMemory.alias
    BY <1>1, <1>5 DEF Console!OnDisk, Console!Holds
  <1>. QED BY <1>1, <1>2, <1>3, <1>4, <1>5
          DEF Agrees, QuotasAgree, ModelsAgree, RegistryAgrees, Console!Files

\* What is read from the files, under what the database says.
LEMMA ReadAgrees ==
    ASSUME InCourse, NEW rows \in Rows, rows = Console!Mirrored(console, Console!OnDisk.quota),
           inMemory' = [Console!OnDisk EXCEPT !.quota = Over(Console!OnDisk.quota, rows)],
           console' = rows, op' = Console!Idle, UNCHANGED <<providers, models>>,
           registry' = Console!OnDisk.alias, mishaps' = {} => Console!Orphans = {}
    PROVE  Agrees'
  <1>1. Console!OnDisk \in Loaded
    BY OnDiskLoads DEF InCourse
  <1>2. /\ inMemory'.quota = Over(Console!OnDisk.quota, rows)
        /\ inMemory'.deps = Console!OnDisk.deps /\ inMemory'.alias = Console!OnDisk.alias
        /\ inMemory'.from = Console!OnDisk.from
    BY <1>1 DEF Loaded
  <1>3. mishaps' = {} =>
          \A n \in Names : console'[n] # Console!None => inMemory'.quota[n] # Console!Absent
    BY DEF Console!Orphans
  <1>4. "providers" \in inMemory'.from => Console!OnDisk.quota = providers'
    BY <1>2 DEF Console!OnDisk, Console!Holds
  <1>5. "models" \in inMemory'.from =>
          Console!OnDisk.deps = models'.deps /\ Console!OnDisk.alias = models'.alias
    BY <1>2 DEF Console!OnDisk, Console!Holds
  <1>. QED BY <1>2, <1>3, <1>4, <1>5, AgreesAtRest

LEMMA StartAgrees == ASSUME InCourse, Console!Start PROVE Agrees'
  <1> DEFINE rows == Console!Mirrored(console, Console!OnDisk.quota)
  <1>1. /\ op' = Console!Idle /\ console' = rows
        /\ inMemory' = [Console!OnDisk EXCEPT !.quota =
              [n \in Names |-> IF @[n] # Console!Absent /\ console'[n] # Console!None
                               THEN console'[n] ELSE @[n]]]
        /\ registry' = Console!OnDisk.alias
        /\ mishaps' = (mishaps \cap Console!Lasting) \cup Console!Orphans
        /\ UNCHANGED <<providers, models>>
    BY DEF Console!Start, Console!files, InCourse, Course
  <1>2. rows \in Rows
    BY MirroredRows DEF InCourse, ConsoleTypes
  <1>3. inMemory' = [Console!OnDisk EXCEPT !.quota = Over(Console!OnDisk.quota, rows)]
    BY <1>1 DEF Over
  <1>4. mishaps' = {} => Console!Orphans = {}
    BY <1>1
  <1>. QED BY <1>1, <1>2, <1>3, <1>4, ReadAgrees

LEMMA ReloadAssignAgrees == ASSUME InCourse, Console!ReloadAssign PROVE Agrees'
  <1> DEFINE rows == Console!Mirrored(console, Console!OnDisk.quota)
  <1>1. CASE reload.overtaken
    <2>1. mishaps' # {}
      BY <1>1 DEF Console!ReloadAssign
    <2>. QED BY <2>1 DEF Agrees
  <1>2. CASE ~reload.overtaken
    <2>1. /\ reload # Console!Idle /\ op' = op /\ op = Console!Idle /\ registry' = registry
          /\ inMemory' = Console!Overridden(reload.text)
          /\ console' = Console!Mirrored(console, reload.text.quota)
          /\ mishaps' = (mishaps \cap Console!Lasting) \cup Console!Orphans
          /\ UNCHANGED <<providers, models>>
      BY <1>2 DEF Console!ReloadAssign, Console!files
    <2>2. reload.text = Console!OnDisk /\ registry = Console!OnDisk.alias
      BY <1>2, <2>1 DEF InCourse, Course
    <2>3. rows \in Rows /\ console \in Rows
      BY MirroredRows DEF InCourse, ConsoleTypes
    <2>4. Console!OnDisk \in Loaded /\ Console!OnDisk.quota \in Console!Entries
      BY OnDiskLoads DEF InCourse, Loaded
    <2>5. inMemory' = [Console!OnDisk EXCEPT !.quota = Over(Console!OnDisk.quota, console)]
      BY <2>1, <2>2 DEF Console!Overridden, Over
    <2>6. Over(Console!OnDisk.quota, rows) = Over(Console!OnDisk.quota, console)
      BY <2>3, <2>4, OverMirrored
    <2>7. mishaps' = {} => Console!Orphans = {}
      BY <2>1
    <2>. QED BY <2>1, <2>2, <2>3, <2>5, <2>6, <2>7, ReadAgrees
  <1>. QED BY <1>1, <1>2

LEMMA ReloadReadAgrees == ASSUME InCourse, Agrees, Console!ReloadRead PROVE Agrees'
  <1>1. /\ reload' = [text |-> Console!OnDisk, overtaken |-> op # Console!Idle]
        /\ registry' = Console!OnDisk.alias /\ up
        /\ UNCHANGED <<providers, models, inMemory, op, console, unread, mishaps>>
    BY DEF Console!ReloadRead, Console!files, Console!history
  <1>2. reload' # Console!Idle /\ (reload'.overtaken <=> op # Console!Idle)
    BY <1>1 DEF Console!Idle
  <1>3. QuotasAgree => QuotasAgree'
    <2>1. CASE op = Console!Idle
      BY <1>1, <2>1 DEF QuotasAgree, Over
    <2>2. CASE op # Console!Idle
      <3>1. PICK o \in Orders : o = op.o
        BY <2>2 DEF InCourse, ConsoleTypes
      <3>2. /\ Console!QuotaAfter(op.o)' = Console!QuotaAfter(op.o)
            /\ Console!InDatabase(op.o)' = Console!InDatabase(op.o)
            /\ Console!FileOf(op.o)' = Console!FileOf(op.o)
        <4>1. /\ Console!QuotaAfter(o)' = Console!QuotaAfter(o)
              /\ Console!InDatabase(o)' = Console!InDatabase(o)
          BY <1>1, OperationStays
        <4>. QED BY <1>1, <3>1, <4>1 DEF Console!FileOf
      <3>. QED BY <1>1, <3>2 DEF QuotasAgree, Over
    <2>. QED BY <2>1, <2>2
  <1>4. ModelsAgree => ModelsAgree'
    <2>1. Writing("models")' <=> Writing("models")
      BY <1>1 DEF Writing, Console!FileOf
    <2>2. CASE op = Console!Idle
      BY <1>1, <2>1, <2>2 DEF ModelsAgree, Writing
    <2>3. CASE op # Console!Idle
      <3>1. PICK o \in Orders : o = op.o
        BY <2>3 DEF InCourse, ConsoleTypes
      <3>2. /\ Console!DepsAfter(o)' = Console!DepsAfter(o)
            /\ Console!AliasAfter(o)' = Console!AliasAfter(o)
        BY <1>1, OperationStays
      <3>. QED BY <1>1, <2>1, <3>1, <3>2 DEF ModelsAgree
    <2>. QED BY <2>2, <2>3
  <1>5. ASSUME "models" \in inMemory.from, ModelsAgree PROVE RegistryAgrees'
    <2>1. CASE op # Console!Idle
      BY <1>1, <1>2, <2>1 DEF RegistryAgrees
    <2>2. CASE op = Console!Idle
      <3>1. ~Writing("models") /\ models # Gone
        BY <1>1, <1>5, <2>2, AtRest DEF InCourse, Course, Console!Holds, Console!Files
      <3>. QED BY <1>1, <1>5, <3>1 DEF RegistryAgrees, ModelsAgree, Console!OnDisk
    <2>. QED BY <2>1, <2>2
  <1>. QED BY <1>1, <1>3, <1>4, <1>5 DEF Agrees

LEMMA ResetAgrees ==
    ASSUME InCourse, Agrees, NEW n \in Names, Console!ResetProviderLimits(n) PROVE Agrees'
  <1> DEFINE quota == IF Console!OnDisk.quota[n] = Console!Absent THEN "own"
                      ELSE Console!OnDisk.quota[n]
  <1>1. /\ up /\ op = Console!Idle /\ op' = op /\ unread' = unread
        /\ inMemory' = [inMemory EXCEPT !.quota[n] = quota] /\ inMemory.quota[n] # Console!Absent
        /\ console' = [console EXCEPT ![n] = Console!None]
        /\ UNCHANGED <<providers, models, registry>> /\ Console!Overtake
        /\ mishaps' = {} => mishaps = {}
    BY DEF Console!ResetProviderLimits, Console!files
  <1>2. quota \in Console!Quotas
    BY OnDiskLoads DEF InCourse, Loaded, Console!Entries, Console!Quotas
  <1>3. "providers" \in inMemory.from =>
         providers \in Console!Entries /\ Console!OnDisk.quota = providers
    BY <1>1, AtRest DEF InCourse, Course, ConsoleTypes, Console!Holds, Console!OnDisk,
       Console!Files, Loaded
  <1>4. inMemory \in Loaded /\ console \in Rows
    BY DEF InCourse, ConsoleTypes
  <1>5. /\ inMemory'.quota = [inMemory.quota EXCEPT ![n] = quota]
        /\ inMemory'.deps = inMemory.deps /\ inMemory'.alias = inMemory.alias
        /\ inMemory'.from = inMemory.from
    BY <1>1, <1>4 DEF Loaded
  <1>6. ASSUME mishaps' = {}
        PROVE  /\ \A m \in Names : console'[m] # Console!None => inMemory'.quota[m] # Console!Absent
               /\ "providers" \in inMemory'.from \ unread' =>
                     inMemory'.quota = Over(providers', console')
    <2>1. /\ \A m \in Names : console[m] # Console!None => inMemory.quota[m] # Console!Absent
          /\ "providers" \in inMemory.from \ unread => inMemory.quota = Over(providers, console)
      BY <1>1, <1>6 DEF Agrees, QuotasAgree
    <2>2. /\ \A m \in Names : m # n =>
                console'[m] = console[m] /\ inMemory'.quota[m] = inMemory.quota[m]
          /\ console'[n] = Console!None /\ inMemory'.quota[n] = quota
      BY <1>1, <1>4, <1>5 DEF Rows, Loaded, Console!Entries
    <2>3. ASSUME "providers" \in inMemory'.from \ unread'
          PROVE  inMemory'.quota = Over(providers', console')
      <3>1. inMemory.quota = Over(providers, console) /\ providers' = providers
        BY <1>1, <1>5, <2>1, <2>3
      <3>2. providers[n] # Console!Absent /\ quota = providers[n]
        BY <1>1, <1>3, <1>5, <2>3, <3>1 DEF Over
      <3>3. \A m \in Names : inMemory'.quota[m] = Over(providers', console')[m]
        BY <2>2, <3>1, <3>2 DEF Over
      <3>4. inMemory'.quota = [m \in Names |-> inMemory'.quota[m]]
        BY <1>4, <1>5 DEF Loaded, Console!Entries
      <3>. QED BY <3>3, <3>4 DEF Over
    <2>4. quota # Console!Absent
      BY <1>2 DEF Console!Quotas, Console!Absent
    <2>. QED BY <2>1, <2>2, <2>3, <2>4
  <1>7. ASSUME mishaps' = {}, "models" \in inMemory'.from \ unread'
        PROVE  /\ inMemory'.deps = models'.deps /\ inMemory'.alias = models'.alias
               /\ (reload' # Console!Idle => ~reload'.overtaken) => registry' = inMemory'.alias
    <2>1. inMemory.deps = models.deps /\ inMemory.alias = models.alias /\ RegistryAgrees
      BY <1>1, <1>5, <1>7, AtRest DEF Agrees, ModelsAgree, Console!Files
    <2>. QED BY <1>1, <1>5, <2>1, OvertakeTypes DEF InCourse, RegistryAgrees
  <1>. QED BY <1>1, <1>6, <1>7, AgreesAtRest

LEMMA EditConfigAgrees ==
    ASSUME InCourse, Agrees, Console!EditProviders \/ Console!EditModels PROVE Agrees'
  <1>1. /\ op = Console!Idle /\ op' = op /\ up' = up /\ mishaps' = mishaps
        /\ UNCHANGED <<registry, inMemory, console>> /\ Console!Overtake
        /\ \/ unread' = unread \cup {"providers"} /\ models' = models
           \/ unread' = unread \cup {"models"} /\ providers' = providers
    BY DEF Console!EditProviders, Console!EditModels, Console!memory
  <1>2. ASSUME up, mishaps = {}
        PROVE  /\ \A n \in Names : console[n] # Console!None => inMemory.quota[n] # Console!Absent
               /\ "providers" \in inMemory.from \ unread =>
                      inMemory.quota = Over(providers, console)
               /\ "models" \in inMemory.from \ unread =>
                    inMemory.deps = models.deps /\ inMemory.alias = models.alias /\ RegistryAgrees
    BY <1>1, <1>2, AtRest DEF Agrees, QuotasAgree, ModelsAgree, Console!Files
  <1>3. RegistryAgrees =>
          ((reload' # Console!Idle => ~reload'.overtaken) => registry' = inMemory'.alias)
    BY <1>1, OvertakeTypes DEF InCourse, RegistryAgrees
  <1>. QED BY <1>1, <1>2, <1>3, AgreesAtRest

LEMMA RefuseAgrees ==
    ASSUME InCourse, Agrees, NEW o \in Orders, Console!Refuse(o) PROVE Agrees'
  <1>1. CASE o.do \in {"merge", "remove alias"}
    <2>1. mishaps' # {}
      BY <1>1 DEF Console!Refuse
    <2>. QED BY <2>1 DEF Agrees
  <1>2. CASE o.do \notin {"merge", "remove alias"}
    <2>1. registry \in BOOLEAN
      BY DEF InCourse, ConsoleTypes
    <2>2. /\ op = Console!Idle
          /\ UNCHANGED <<providers, models, up, inMemory, registry, reload, op, console,
                         unread, mishaps>>
      BY <1>2, <2>1 DEF Console!Refuse, Console!Asked, Console!files, Console!history
    <2>3. up /\ mishaps = {} =>
             /\ \A n \in Names : console[n] # Console!None => inMemory.quota[n] # Console!Absent
             /\ "providers" \in inMemory.from \ unread =>
                   inMemory.quota = Over(providers, console)
             /\ "models" \in inMemory.from \ unread =>
                  inMemory.deps = models.deps /\ inMemory.alias = models.alias /\ RegistryAgrees
      BY <2>2, AtRest DEF Agrees, QuotasAgree, ModelsAgree, Console!Files
    <2>. QED BY <2>2, <2>3, AgreesAtRest DEF RegistryAgrees
  <1>. QED BY <1>1, <1>2

LEMMA BeginAgrees ==
    ASSUME InCourse, Agrees, NEW o \in Orders, Console!Begin(o) PROVE Agrees'
  <1> DEFINE f == Console!FileOf(o)
             text == Console!Written(o)
  <1>1. /\ up /\ op = Console!Idle /\ Console!Accepts(o) /\ Console!Finds(o) /\ f \in inMemory.from
        /\ op' = [o |-> o, step |-> "put", text |-> text] /\ Console!Overtake
        /\ IF f = "providers" THEN providers' = Gone /\ UNCHANGED models
                              ELSE models' = Gone /\ UNCHANGED providers
        /\ UNCHANGED <<up, inMemory, registry, console, unread, mishaps>>
    BY DEF Console!Begin, Console!Asked, Console!Rotate, Console!memory, Console!history
  <1>2. op'.o = o /\ op'.step = "put" /\ op'.text = text /\ op' # Console!Idle
    BY <1>1 DEF Console!Idle
  <1>3. f \in {"providers", "models"}
    BY DEF Console!FileOf
  <1>4. Console!FileOf(op.o)' = f /\ (Writing("models")' <=> f = "models")
    <2>1. Console!FileOf(op.o)' = f
      BY <1>2 DEF Console!FileOf
    <2>. QED BY <1>2, <2>1 DEF Writing
  <1>5. /\ "providers" \in inMemory.from => Console!Holds("providers")
        /\ "models" \in inMemory.from => Console!Holds("models")
    BY <1>1, AtRest DEF InCourse, Course, Console!Files
  <1>6. /\ Console!QuotaAfter(op.o)' = Console!QuotaAfter(o)
        /\ Console!InDatabase(op.o)' = Console!InDatabase(o)
        /\ Console!DepsAfter(op.o)' = Console!DepsAfter(o)
        /\ Console!AliasAfter(op.o)' = Console!AliasAfter(o)
    <2>1. /\ Console!QuotaAfter(o)' = Console!QuotaAfter(o)
          /\ Console!InDatabase(o)' = Console!InDatabase(o)
          /\ Console!DepsAfter(o)' = Console!DepsAfter(o)
          /\ Console!AliasAfter(o)' = Console!AliasAfter(o)
      BY <1>1, OperationStays
    <2>. QED BY <1>2, <2>1
  <1> HIDE DEF f, text
  <1>7. ASSUME mishaps = {}, "providers" \in inMemory.from \ unread PROVE QuotasAgree'
    <2>1. inMemory.quota = Over(providers, console)
      BY <1>1, <1>7 DEF Agrees, QuotasAgree
    <2>2. \A n \in Names : console[n] # Console!None => inMemory.quota[n] # Console!Absent
      BY <1>1, <1>7 DEF Agrees
    <2>3. CASE f = "models"
      <3>1. Over(providers, console)' = inMemory'.quota
        BY <1>1, <2>1, <2>3 DEF Over
      <3>. QED BY <1>4, <2>3, <3>1 DEF QuotasAgree
    <2>4. CASE f = "providers"
      <3>1. providers \in Console!Entries
        BY <1>5, <1>7 DEF InCourse, ConsoleTypes, Console!Holds
      <3>2. (o.do = "rename" => console[o.n] = Console!None) =>
               Console!QuotaAfter(o) = Over(text, Console!InDatabase(o))
        BY <1>1, <1>7, <2>1, <2>2, <2>4, <3>1, OperationAgrees DEF f, text
      <3>3. Over(text, Console!InDatabase(o)) = Over(op.text, Console!InDatabase(op.o))'
        BY <1>2, <1>6 DEF Over
      <3>. QED BY <1>1, <1>2, <1>4, <1>6, <2>4, <3>2, <3>3 DEF QuotasAgree
    <2>. QED BY <1>3, <2>3, <2>4
  <1>8. ASSUME mishaps = {}, "models" \in inMemory.from \ unread
        PROVE ModelsAgree' /\ RegistryAgrees'
    <2>1. inMemory.deps = models.deps /\ inMemory.alias = models.alias /\ RegistryAgrees
      BY <1>1, <1>8, AtRest DEF Agrees, ModelsAgree, Console!Files
    <2>2. CASE f = "models"
      <3>1. text.deps = Console!DepsAfter(o) /\ text.alias = Console!AliasAfter(o)
        BY <1>5, <1>8, <2>1, <2>2, ModelWritten DEF f, text, InCourse, ConsoleTypes, Console!Holds
      <3>. QED BY <1>1, <1>2, <1>4, <1>6, <2>1, <2>2, <3>1, RegistryStays DEF ModelsAgree
    <2>3. CASE f = "providers"
      BY <1>1, <1>4, <2>1, <2>3, RegistryStays DEF ModelsAgree
    <2>. QED BY <1>3, <2>2, <2>3
  <1>. QED BY <1>1, <1>7, <1>8 DEF Agrees

\* The end of an operation that has left in the files what it leaves in memory.
LEMMA DoneAgrees ==
    ASSUME InCourse, NEW o \in Orders, Console!Done(o), op' = Console!Idle, up,
           unread' = unread,
           mishaps = {} /\ "providers" \in inMemory.from \ unread =>
              ((o.do = "rename" => console[o.n] = Console!None) =>
                 Console!QuotaAfter(o) = Over(providers', Console!InDatabase(o))),
           mishaps = {} /\ "models" \in inMemory.from \ unread =>
              /\ Console!DepsAfter(o) = models'.deps /\ Console!AliasAfter(o) = models'.alias
              /\ RegistryAgrees
    PROVE  Agrees'
  <1>1. /\ inMemory' = Console!InMemory(o) /\ console' = Console!InDatabase(o)
        /\ registry' = (o.do = "alias" \/ (registry /\ o.do # "remove alias"))
        /\ Console!Overtake
        /\ mishaps' = mishaps \cup Console!Orphans \cup
              (IF o.do = "rename" /\ console[o.n] # Console!None THEN {"shadow"} ELSE {})
    BY DEF Console!Done
  <1>2. /\ inMemory'.from = inMemory.from /\ inMemory'.quota = Console!QuotaAfter(o)
        /\ inMemory'.deps = Console!DepsAfter(o) /\ inMemory'.alias = Console!AliasAfter(o)
    BY <1>1, InMemoryLoads DEF InCourse, ConsoleTypes
  <1>3. ASSUME mishaps' = {}
        PROVE  mishaps = {} /\ Console!Orphans = {}
               /\ (o.do = "rename" => console[o.n] = Console!None)
    BY <1>1, <1>3
  <1>4. Console!Orphans = {} =>
           \A n \in Names : console'[n] # Console!None => inMemory'.quota[n] # Console!Absent
    BY DEF Console!Orphans
  <1>5. ASSUME RegistryAgrees, reload' # Console!Idle => ~reload'.overtaken
        PROVE  registry' = inMemory'.alias
    <2>1. reload = Console!Idle
      BY <1>1, <1>5, OvertakeTypes DEF InCourse
    <2>2. registry = inMemory.alias /\ registry \in BOOLEAN
      BY <1>5, <2>1 DEF RegistryAgrees, InCourse, ConsoleTypes
    <2>. QED BY <1>1, <1>2, <2>2 DEF Console!AliasAfter
  <1>. QED BY <1>1, <1>2, <1>3, <1>4, <1>5, AgreesAtRest

\* Between the two files of a rename.
LEMMA RetargetAgrees ==
    ASSUME InCourse, NEW o \in Orders, o.do = "rename",
           op' = [o |-> o, step |-> "retarget", text |-> Gone], Console!Overtake,
           up, UNCHANGED <<inMemory, registry, console, unread, mishaps, models>>,
           mishaps = {} =>
              \A n \in Names : console[n] # Console!None => inMemory.quota[n] # Console!Absent,
           mishaps = {} /\ "providers" \in inMemory.from \ unread =>
              (console[o.n] = Console!None =>
                 Console!QuotaAfter(o) = Over(providers', Console!InDatabase(o))),
           mishaps = {} /\ "models" \in inMemory.from \ unread =>
              /\ inMemory.deps = models.deps /\ inMemory.alias = models.alias /\ RegistryAgrees
    PROVE  Agrees'
  <1>1. op'.o = o /\ op'.step = "retarget" /\ op' # Console!Idle
    BY DEF Console!Idle
  <1>2. Console!FileOf(op.o)' = "providers" /\ ~Writing("models")'
    BY <1>1 DEF Writing, Console!FileOf
  <1>3. /\ Console!QuotaAfter(op.o)' = Console!QuotaAfter(o)
        /\ Console!InDatabase(op.o)' = Console!InDatabase(o)
    <2>1. /\ Console!QuotaAfter(o)' = Console!QuotaAfter(o)
          /\ Console!InDatabase(o)' = Console!InDatabase(o)
      BY OperationStays
    <2>. QED BY <1>1, <2>1
  <1>4. Over(providers, Console!InDatabase(op.o))' = Over(providers', Console!InDatabase(o))
    BY <1>3 DEF Over
  <1>5. mishaps = {} /\ "providers" \in inMemory.from \ unread => QuotasAgree'
    BY <1>1, <1>2, <1>3, <1>4 DEF QuotasAgree
  <1>6. mishaps = {} /\ "models" \in inMemory.from \ unread => ModelsAgree' /\ RegistryAgrees'
    BY <1>2, RegistryStays DEF ModelsAgree
  <1>. QED BY <1>5, <1>6 DEF Agrees

LEMMA UnwrittenAgrees ==
    ASSUME InCourse, Agrees, NEW o \in Orders, Console!Unwritten(o) PROVE Agrees'
  <1>1. /\ up /\ op = Console!Idle /\ Console!Accepts(o)
        /\ Console!FileOf(o) \in inMemory.from => Console!NothingToWrite(o)
        /\ UNCHANGED <<providers, models, up, unread>>
        /\ IF o.do = "rename"
           THEN /\ op' = [o |-> o, step |-> "retarget", text |-> Gone] /\ Console!Overtake
                /\ UNCHANGED <<inMemory, registry, console, mishaps>>
           ELSE Console!Done(o) /\ UNCHANGED op
    BY DEF Console!Unwritten, Console!Asked, Console!files, Console!memory
  <1>2. ASSUME mishaps = {}
        PROVE  /\ \A n \in Names : console[n] # Console!None => inMemory.quota[n] # Console!Absent
               /\ "providers" \in inMemory.from \ unread =>
                      inMemory.quota = Over(providers, console)
               /\ "models" \in inMemory.from \ unread =>
                    inMemory.deps = models.deps /\ inMemory.alias = models.alias /\ RegistryAgrees
    BY <1>1, <1>2, AtRest DEF Agrees, QuotasAgree, ModelsAgree, Console!Files
  <1>3. CASE o.do = "rename"
    <2>1. "providers" \notin inMemory.from
      BY <1>1, <1>3 DEF Console!FileOf, Console!NothingToWrite
    <2>. QED BY <1>1, <1>2, <1>3, <2>1, RetargetAgrees
  <1>4. CASE o.do # "rename"
    <2>1. CASE Console!FileOf(o) = "providers"
      <3>1. Console!DepsAfter(o) = inMemory.deps /\ Console!AliasAfter(o) = inMemory.alias
        BY <1>4, <2>1, OtherFile
      <3>2. "providers" \in inMemory.from =>
               o.n \in Names /\ providers[o.n] = Console!Absent
                   /\ inMemory.quota[o.n] # Console!Absent
        BY <1>1, <2>1 DEF Console!NothingToWrite, Console!FileOf, Console!Accepts, Orders, Named
      <3>3. mishaps = {} => "providers" \notin inMemory.from \ unread
        BY <1>2, <3>2 DEF Over
      <3>. QED BY <1>1, <1>2, <1>4, <3>1, <3>3, DoneAgrees
    <2>2. CASE Console!FileOf(o) = "models"
      <3>1. Console!QuotaAfter(o) = inMemory.quota /\ Console!InDatabase(o) = console
        BY <2>2, OtherFile
      <3>2. ASSUME mishaps = {}, "models" \in inMemory.from \ unread
            PROVE  Console!DepsAfter(o) = models.deps /\ Console!AliasAfter(o) = models.alias
        <4>1. \/ o.do = "remove model" /\ models.deps = {} /\ inMemory.deps # {}
              \/ o.do = "remove alias" /\ ~models.alias
          BY <1>1, <2>2, <3>2 DEF Console!NothingToWrite, Console!FileOf, Console!Accepts
        <4>2. inMemory.alias \in BOOLEAN
          BY DEF InCourse, ConsoleTypes, Loaded
        <4>. QED BY <1>2, <3>2, <4>1, <4>2 DEF Console!DepsAfter, Console!AliasAfter
      <3>3. op' = Console!Idle /\ unread' = unread
        BY <1>1, <1>4
      <3>4. Over(providers', Console!InDatabase(o)) = Over(providers, console)
        BY <1>1, <3>1
      <3>. QED BY <1>1, <1>2, <1>4, <3>1, <3>2, <3>3, <3>4, DoneAgrees
    <2>. QED BY <2>1, <2>2 DEF Console!FileOf
  <1>. QED BY <1>3, <1>4

LEMMA PutAgrees == ASSUME InCourse, Agrees, Console!Put PROVE Agrees'
  <1> DEFINE target == IF op.step = "put2" THEN "models" ELSE Console!FileOf(op.o)
  <1>1. /\ op # Console!Idle /\ up /\ up' = up /\ unread' = unread
        /\ op.o \in Orders /\ op = [o |-> op.o, step |-> op.step, text |-> op.text]
        /\ \A f \in Console!Files : Writing(f) <=> f = target
        /\ target = "providers" => providers' = op.text /\ models' = models
        /\ target = "models" => models' = op.text /\ providers' = providers
    BY Placed
  <1>2. PICK o \in Orders : o = op.o
    BY <1>1
  <1>3. /\ op.step \in {"put", "put2"} /\ (op.step = "put2" => o.do = "rename")
        /\ op.step = "put" => target = Console!FileOf(o)
        /\ op.step = "put2" => target = "models"
        /\ o.do = "rename" => Console!FileOf(o) = "providers"
        /\ target \in {"providers", "models"} /\ Console!FileOf(o) \in {"providers", "models"}
    BY <1>1, <1>2 DEF InCourse, ConsoleTypes, Console!Put, Console!FileOf
  <1>4. Writing("models") <=> target = "models"
    BY <1>1 DEF Console!Files
  <1> HIDE DEF target
  <1>5. ASSUME mishaps = {}
        PROVE  /\ \A n \in Names : console[n] # Console!None => inMemory.quota[n] # Console!Absent
               /\ "providers" \in inMemory.from \ unread => QuotasAgree
               /\ "models" \in inMemory.from \ unread => ModelsAgree /\ RegistryAgrees
    BY <1>1, <1>5 DEF Agrees
  <1>6. QuotasAgree => ((o.do = "rename" => console[o.n] = Console!None) =>
                          Console!QuotaAfter(o) = Over(providers', Console!InDatabase(o)))
    <2>1. CASE Console!FileOf(o) = "models"
      <3>1. Console!QuotaAfter(o) = inMemory.quota /\ Console!InDatabase(o) = console
        BY <2>1, OtherFile
      <3>2. providers' = providers
        BY <1>1, <1>3, <2>1
      <3>3. QuotasAgree => inMemory.quota = Over(providers, console)
        BY <1>2, <2>1 DEF QuotasAgree
      <3>. QED BY <3>1, <3>2, <3>3
    <2>2. CASE Console!FileOf(o) = "providers"
      <3>1. (IF op.step = "put" THEN op.text ELSE providers) = providers'
        BY <1>1, <1>3, <2>2
      <3>. QED BY <1>1, <1>2, <2>2, <3>1 DEF QuotasAgree
    <2>. QED BY <1>3, <2>1, <2>2
  <1>7. CASE /\ o.do = "rename" /\ op.step = "put" /\ Console!Overtake
             /\ op' = [op EXCEPT !.step = "retarget", !.text = Gone]
             /\ UNCHANGED <<inMemory, registry, console, mishaps>>
    <2>1. op' = [o |-> o, step |-> "retarget", text |-> Gone]
      BY <1>1, <1>2, <1>7
    <2>2. models' = models /\ ~Writing("models")
      BY <1>1, <1>3, <1>4, <1>7
    <2>3. mishaps = {} /\ "models" \in inMemory.from \ unread =>
             inMemory.deps = models.deps /\ inMemory.alias = models.alias /\ RegistryAgrees
      BY <1>5, <2>2 DEF ModelsAgree
    <2>. QED BY <1>1, <1>5, <1>6, <1>7, <2>1, <2>2, <2>3, RetargetAgrees
  <1>8. CASE /\ op' = Console!Idle /\ Console!Done(o)
             /\ o.do = "rename" => op.step = "put2"
    <2>1. ModelsAgree =>
             Console!DepsAfter(o) = models'.deps /\ Console!AliasAfter(o) = models'.alias
      <3>1. CASE target = "models"
        BY <1>1, <1>2, <1>4, <3>1 DEF ModelsAgree
      <3>2. CASE target = "providers"
        <4>1. Console!FileOf(o) = "providers" /\ o.do # "rename"
          BY <1>3, <1>8, <3>2
        <4>. QED BY <1>1, <1>4, <3>2, <4>1, OtherFile DEF ModelsAgree
      <3>. QED BY <1>3, <3>1, <3>2
    <2>. QED BY <1>1, <1>5, <1>6, <1>8, <2>1, DoneAgrees
  <1>9. CASE mishaps' # {}
    BY <1>9 DEF Agrees
  <1>. QED BY <1>2, <1>3, <1>7, <1>8, <1>9 DEF Console!Put, Console!memory

LEMMA RetargetStepAgrees == ASSUME InCourse, Agrees, Console!Retarget PROVE Agrees'
  <1>1. /\ up /\ up' = up /\ op # Console!Idle /\ op.step = "retarget" /\ unread' = unread
    BY DEF Console!Retarget
  <1>2. PICK o \in Orders : o = op.o /\ o.do = "rename"
    BY <1>1 DEF InCourse, ConsoleTypes
  <1>3. Console!FileOf(o) = "providers" /\ ~Writing("models")
    BY <1>1, <1>2 DEF Console!FileOf, Writing
  <1>4. ASSUME mishaps = {}
        PROVE  /\ \A n \in Names : console[n] # Console!None => inMemory.quota[n] # Console!Absent
               /\ "providers" \in inMemory.from \ unread =>
                     (console[o.n] = Console!None =>
                        Console!QuotaAfter(o) = Over(providers, Console!InDatabase(o)))
               /\ "models" \in inMemory.from \ unread =>
                    inMemory.deps = models.deps /\ inMemory.alias = models.alias /\ RegistryAgrees
    <2>1. /\ "providers" \in inMemory.from \ unread => QuotasAgree
          /\ "models" \in inMemory.from \ unread => ModelsAgree /\ RegistryAgrees
          /\ \A n \in Names : console[n] # Console!None => inMemory.quota[n] # Console!Absent
      BY <1>1, <1>4 DEF Agrees
    <2>2. QuotasAgree => (console[o.n] = Console!None =>
                            Console!QuotaAfter(o) = Over(providers, Console!InDatabase(o)))
      BY <1>1, <1>2, <1>3 DEF QuotasAgree
    <2>3. ModelsAgree => inMemory.deps = models.deps /\ inMemory.alias = models.alias
      BY <1>3 DEF ModelsAgree
    <2>. QED BY <2>1, <2>2, <2>3
  <1>5. Console!DepsAfter(o) = Console!Renamed(inMemory.deps, o)
       /\ Console!AliasAfter(o) = inMemory.alias
    <2>1. inMemory.alias \in BOOLEAN
      BY DEF InCourse, ConsoleTypes, Loaded
    <2>. QED BY <1>2, <2>1 DEF Console!DepsAfter, Console!AliasAfter
  <1>6. CASE /\ Console!Done(o) /\ op' = Console!Idle /\ UNCHANGED <<providers, models>>
             /\ "models" \in inMemory.from => o.n \notin models.deps
    <2>1. "models" \in inMemory.from /\ inMemory.deps = models.deps =>
             Console!DepsAfter(o) = models.deps
      BY <1>5, <1>6 DEF Console!Renamed
    <2>2. Over(providers', Console!InDatabase(o)) = Over(providers, Console!InDatabase(o))
      BY <1>6
    <2>. QED BY <1>1, <1>2, <1>4, <1>5, <1>6, <2>1, <2>2, DoneAgrees
  <1>7. CASE /\ op' = [o |-> o, step |-> "put2",
                       text |-> [models EXCEPT !.deps = Console!Renamed(@, o)]]
             /\ "models" \in inMemory.from /\ models' = Gone /\ providers' = providers
             /\ UNCHANGED <<inMemory, registry, reload, console, mishaps>>
    <2> DEFINE text == [models EXCEPT !.deps = Console!Renamed(@, o)]
    <2>1. op'.o = o /\ op'.step = "put2" /\ op'.text = text /\ op' # Console!Idle
      BY <1>7 DEF Console!Idle
    <2>2. models \in Console!Catalogues
      BY <1>3, <1>1, <1>7 DEF InCourse, ConsoleTypes, Course, Console!Holds
    <2>3. text.deps = Console!Renamed(models.deps, o) /\ text.alias = models.alias
      BY <2>2 DEF Console!Catalogues
    <2> HIDE DEF text
    <2>4. Writing("models")' /\ Console!FileOf(op.o)' = "providers"
      BY <1>2, <2>1 DEF Writing, Console!FileOf
    <2>5. /\ Console!QuotaAfter(op.o)' = Console!QuotaAfter(o)
          /\ Console!InDatabase(op.o)' = Console!InDatabase(o)
          /\ Console!DepsAfter(op.o)' = Console!DepsAfter(o)
          /\ Console!AliasAfter(op.o)' = Console!AliasAfter(o)
      <3>1. /\ Console!QuotaAfter(o)' = Console!QuotaAfter(o)
            /\ Console!InDatabase(o)' = Console!InDatabase(o)
            /\ Console!DepsAfter(o)' = Console!DepsAfter(o)
            /\ Console!AliasAfter(o)' = Console!AliasAfter(o)
        BY <1>7, OperationStays
      <3>. QED BY <2>1, <3>1
    <2>6. Over(providers, Console!InDatabase(op.o))' = Over(providers, Console!InDatabase(o))
      BY <1>7, <2>5 DEF Over
    <2>7. mishaps = {} /\ "providers" \in inMemory.from \ unread => QuotasAgree'
      BY <1>2, <1>4, <1>7, <2>1, <2>4, <2>5, <2>6 DEF QuotasAgree
    <2>8. mishaps = {} /\ "models" \in inMemory.from \ unread => ModelsAgree' /\ RegistryAgrees'
      BY <1>4, <1>5, <1>7, <2>1, <2>3, <2>4, <2>5 DEF ModelsAgree, RegistryAgrees
    <2>. QED BY <1>1, <1>4, <1>7, <2>7, <2>8 DEF Agrees
  <1>8. CASE mishaps' # {}
    BY <1>8 DEF Agrees
  <1>. QED
    <2>1. \/ /\ Console!Done(o) /\ op' = Console!Idle /\ UNCHANGED <<providers, models>>
             /\ "models" \in inMemory.from => o.n \notin models.deps
          \/ /\ ~("models" \in inMemory.from => o.n \notin models.deps)
             /\ Console!Rotate(o, "put2", [models EXCEPT !.deps = Console!Renamed(@, o)])
             /\ UNCHANGED <<inMemory, registry, reload, console, mishaps>>
          \/ mishaps' # {}
      BY <1>2 DEF Console!Retarget, Console!memory, Console!files
    <2>. QED BY <1>6, <1>7, <1>8, <2>1 DEF Console!Rotate

LEMMA NextAgrees == ASSUME InCourse, Agrees, Console!Next PROVE Agrees'
  <1>1. CASE Console!Crash \/ Console!Peek
    BY <1>1 DEF Console!Crash, Console!Peek, Agrees
  <1>. QED BY <1>1, ConsoleSteps, StartAgrees, ReloadReadAgrees, ReloadAssignAgrees, BeginAgrees,
          RefuseAgrees, UnwrittenAgrees, PutAgrees, RetargetStepAgrees, ResetAgrees,
          EditConfigAgrees

\* What the console uses between operations is what the files hold, under the database.
LEMMA AgreesIsFile == InCourse /\ Agrees => Console!MemoryIsFile
  <1>. SUFFICES ASSUME InCourse, Agrees, up, op = Console!Idle, mishaps = {}
                PROVE  /\ "providers" \in inMemory.from \ unread =>
                             inMemory.quota = Console!Overridden(Console!OnDisk).quota
                       /\ "models" \in inMemory.from \ unread =>
                             /\ inMemory.deps = models.deps /\ inMemory.alias = models.alias
                             /\ reload = Console!Idle => registry = inMemory.alias
    BY DEF Console!MemoryIsFile, Console!Quiet
  <1>1. /\ "providers" \in inMemory.from \ unread => inMemory.quota = Over(providers, console)
        /\ "models" \in inMemory.from \ unread =>
             inMemory.deps = models.deps /\ inMemory.alias = models.alias /\ RegistryAgrees
    BY AtRest DEF Agrees, QuotasAgree, ModelsAgree, Console!Files
  <1>2. "providers" \in inMemory.from => Console!OnDisk.quota = providers
    BY AtRest DEF InCourse, Course, Console!OnDisk, Console!Holds, ConsoleTypes, Loaded,
       Console!Files
  <1>3. Console!Overridden(Console!OnDisk).quota = Over(Console!OnDisk.quota, console)
    <2>1. Console!OnDisk \in Loaded /\ console \in Rows
      BY OnDiskLoads DEF InCourse, ConsoleTypes
    <2>. QED BY <2>1, OverriddenLoads DEF Over
  <1>. QED BY <1>1, <1>2, <1>3 DEF RegistryAgrees

-----------------------------------------------------------------------------
(* Deployments have providers *)

\* As long as no editor has written a file and there was no mishap: no deployment but those
\* that a merge put there is on a provider that is not there, and both files are there or
\* neither.
Sound ==
    ~strayed =>
        /\ mishaps = {} /\ unread = {}
        /\ up => /\ inMemory.deps \subseteq Console!Deps(inMemory.quota) \cup astray
                 /\ inMemory.from \in {{}, Console!Files}
                 /\ \A f \in Console!Files : Console!Holds(f) \/ Writing(f) => f \in inMemory.from
        /\ ~up => /\ Console!OnDisk.deps \subseteq Console!Deps(Console!OnDisk.quota) \cup astray
                  /\ Console!OnDisk.from \in {{}, Console!Files}

LEMMA InitSound == MCInit => Sound
  <1>. SUFFICES ASSUME Console!Init PROVE Sound
    BY DEF MCInit
  <1>1. /\ inMemory = Console!OnDisk /\ up /\ mishaps = {} /\ unread = {} /\ op = Console!Idle
        /\ \/ /\ providers = Template.quota
              /\ models = [deps |-> Template.deps, alias |-> Template.alias]
           \/ providers = Gone /\ models = Gone
    BY DEF Console!Init
  <1>2. \A f \in Console!Files : ~Writing(f)
    BY <1>1, AtRest
  <1>3. Console!OnDisk.quota = Template.quota /\ Console!OnDisk.deps = Template.deps
    BY <1>1 DEF Console!OnDisk
  <1>4. Template.deps \subseteq Console!Deps(Template.quota)
    BY TemplateAssumption DEF Console!Deps, Console!Absent
  <1>5. /\ inMemory.from \in {{}, Console!Files}
        /\ \A f \in Console!Files : Console!Holds(f) => f \in inMemory.from
    <2>1. Template.quota # Gone /\ [deps |-> Template.deps, alias |-> Template.alias] # Gone
      BY TemplateAssumption
    <2>2. inMemory.from = {f \in Console!Files : Console!Holds(f)}
      BY <1>1 DEF Console!OnDisk
    <2>3. \/ \A f \in Console!Files : Console!Holds(f)
          \/ \A f \in Console!Files : ~Console!Holds(f)
      BY <1>1, <2>1 DEF Console!Holds
    <2>. QED BY <2>2, <2>3
  <1>. QED BY <1>1, <1>2, <1>3, <1>4, <1>5 DEF Sound

\* What is loaded is as sound as the files.
LEMMA OverDeps ==
    ASSUME NEW quota \in Console!Entries, NEW rows \in Rows
    PROVE  Console!Deps(Over(quota, rows)) = Console!Deps(quota)
  BY DEF Over, Console!Deps, Rows, Console!Absent, Console!None

\* Outside of the mishaps the files are as sound as memory.
LEMMA SoundFiles ==
    ASSUME InCourse, Agrees, Sound, ~strayed, op = Console!Idle
    PROVE  /\ Console!OnDisk.deps \subseteq Console!Deps(Console!OnDisk.quota) \cup astray
           /\ Console!OnDisk.from \in {{}, Console!Files}
  <1>1. CASE ~up
    BY <1>1 DEF Sound
  <1>2. CASE up
    <2>1. /\ inMemory.deps \subseteq Console!Deps(inMemory.quota) \cup astray /\ mishaps = {} /\ unread = {}
          /\ inMemory.from \in {{}, Console!Files}
          /\ \A f \in Console!Files : Console!Holds(f) <=> f \in inMemory.from
      BY <1>2, AtRest DEF Sound, InCourse, Course
    <2>2. Console!OnDisk.from = {f \in Console!Files : Console!Holds(f)}
      BY DEF Console!OnDisk
    <2>3. CASE inMemory.from = {}
      <3>1. providers = Gone /\ models = Gone
        BY <2>1, <2>3 DEF Console!Holds, Console!Files
      <3>2. Console!OnDisk.quota = Template.quota /\ Console!OnDisk.deps = Template.deps
        BY <3>1 DEF Console!OnDisk
      <3>3. Console!OnDisk.from = {}
        BY <2>1, <2>2, <2>3
      <3>. QED BY <3>2, <3>3, TemplateAssumption DEF Console!Deps, Console!Absent
    <2>4. CASE inMemory.from = Console!Files
      <3>1. providers # Gone /\ models # Gone
        BY <2>1, <2>4 DEF Console!Holds, Console!Files
      <3>2. Console!OnDisk.quota = providers /\ Console!OnDisk.deps = models.deps
        BY <3>1 DEF Console!OnDisk
      <3>3. inMemory.quota = Over(providers, console) /\ inMemory.deps = models.deps
        BY <1>2, <2>1, <2>4, AtRest DEF Agrees, QuotasAgree, ModelsAgree, Console!Files
      <3>4. providers \in Console!Entries /\ console \in Rows
        BY <3>1 DEF InCourse, ConsoleTypes
      <3>5. Console!OnDisk.from = Console!Files
        BY <2>1, <2>2, <2>4
      <3>. QED BY <2>1, <3>2, <3>3, <3>4, <3>5, OverDeps
    <2>. QED BY <2>1, <2>3, <2>4
  <1>. QED BY <1>1, <1>2

\* What is asked of an operation keeps deployments on providers, those of a merge aside.
LEMMA OperationSound ==
    ASSUME InCourse, NEW o \in Orders, o.do # "remove alias" => Console!Accepts(o),
           inMemory.deps \subseteq Console!Deps(inMemory.quota) \cup astray
    PROVE  Console!DepsAfter(o) \subseteq
              Console!Deps(Console!QuotaAfter(o)) \cup Console!AstrayAfter(o)
  <1>1. inMemory.quota \in Console!Entries /\ inMemory.deps \subseteq Names
    BY DEF InCourse, ConsoleTypes, Loaded
  <1>. SUFFICES ASSUME NEW m \in Console!DepsAfter(o), Console!QuotaAfter(o)[m] = Console!Absent
                PROVE  m \in astray \/ (o.do = "merge" /\ m = o.n)
    <2>1. Console!DepsAfter(o) \subseteq Names
      <3>1. o.do \in {"rename", "model", "merge"} => o.n \in Names
        BY DEF Orders, Named
      <3>2. o.do = "rename" => o.to \in Names
        BY DEF Orders, Named
      <3>. QED BY <1>1, <3>1, <3>2 DEF Console!DepsAfter, Console!Renamed
    <2>. QED BY <2>1 DEF Console!Deps, Console!AstrayAfter
  <1>2. m \in inMemory.deps => inMemory.quota[m] # Console!Absent \/ m \in astray
    BY DEF Console!Deps
  <1>3. CASE o.do \in {"quota", "provider", "remove provider"}
    <2>1. o.n \in Names /\ m \in inMemory.deps
      BY <1>3 DEF Orders, Named, Console!DepsAfter
    <2>2. m # o.n => Console!QuotaAfter(o)[m] = inMemory.quota[m]
      BY <1>1, <1>3, <2>1 DEF Console!QuotaAfter, Console!Entries
    <2>3. o.do # "remove provider" => Console!QuotaAfter(o)[o.n] # Console!Absent
      BY <1>1, <1>3, <2>1 DEF Console!QuotaAfter, Console!Entries, Console!Absent
    <2>4. o.do = "remove provider" => o.n \notin inMemory.deps
      BY <1>3 DEF Console!Accepts
    <2>. QED BY <1>2, <2>1, <2>2, <2>3, <2>4
  <1>4. CASE o.do = "rename"
    <2>1. /\ o.n \in Names /\ o.to \in Names
          /\ Console!DepsAfter(o) = Console!Renamed(inMemory.deps, o)
          /\ Console!QuotaAfter(o) = [inMemory.quota EXCEPT ![o.n] = Console!Absent,
                                                           ![o.to] = inMemory.quota[o.n]]
          /\ inMemory.quota[o.n] # Console!Absent /\ inMemory.quota[o.to] = Console!Absent
      BY <1>4 DEF Orders, Named, Console!DepsAfter, Console!QuotaAfter, Console!Accepts
    <2>2. /\ o.n # o.to /\ Console!QuotaAfter(o)[o.to] # Console!Absent
          /\ \A k \in Names : k \notin {o.n, o.to} =>
                Console!QuotaAfter(o)[k] = inMemory.quota[k]
      BY <1>1, <2>1 DEF Console!Entries
    <2>3. Console!DepsAfter(o) \subseteq (inMemory.deps \ {o.n}) \cup {o.to}
      BY <2>1 DEF Console!Renamed
    <2>. QED BY <1>1, <1>2, <2>2, <2>3
  <1>5. CASE o.do \in {"model", "merge"}
    <2>1. /\ Console!QuotaAfter(o) = inMemory.quota
          /\ m = o.n \/ (o.do = "merge" /\ m \in inMemory.deps)
      BY <1>5 DEF Console!QuotaAfter, Console!DepsAfter
    <2>2. o.do = "model" => inMemory.quota[o.n] # Console!Absent
      BY <1>5 DEF Console!Accepts
    <2>. QED BY <1>2, <1>5, <2>1, <2>2
  <1>6. CASE o.do \notin {"quota", "provider", "remove provider", "rename", "model", "merge"}
    <2>1. Console!QuotaAfter(o) = inMemory.quota /\ m \in inMemory.deps
      BY <1>6 DEF Console!QuotaAfter, Console!DepsAfter
    <2>. QED BY <1>2, <2>1
  <1>. QED BY <1>3, <1>4, <1>5, <1>6

\* Every step remembers mishaps and edits.
LEMMA ConsoleStrays == Console!Next => Console!Strays
  <1>1. ASSUME NEW o \in Orders, Console!Begin(o) \/ Console!Refuse(o) \/ Console!Unwritten(o)
        PROVE  Console!Strays
    BY <1>1 DEF Console!Begin, Console!Refuse, Console!Unwritten
  <1>. QED BY <1>1, ConsoleSteps DEF Console!Start, Console!Crash, Console!ReloadRead,
          Console!ReloadAssign, Console!Put, Console!Retarget, Console!Peek,
          Console!ResetProviderLimits, Console!EditProviders, Console!EditModels

\* A step that leaves what memory came from, and keeps its deployments on providers.
LEMMA StaysSound ==
    ASSUME Sound, ~strayed, Console!Strays, up, up' = up, inMemory'.from = inMemory.from,
           ~strayed' => inMemory'.deps \subseteq Console!Deps(inMemory'.quota) \cup astray',
           \A f \in Console!Files : Console!Holds(f)' \/ Writing(f)' => f \in inMemory.from
    PROVE  Sound'
  <1>. SUFFICES ASSUME ~strayed'
                PROVE  /\ mishaps' = {} /\ unread' = {}
                       /\ inMemory'.deps \subseteq Console!Deps(inMemory'.quota) \cup astray'
                       /\ inMemory'.from \in {{}, Console!Files}
    BY DEF Sound, Console!Deps
  <1>1. mishaps' = {} /\ unread' = unread
    BY DEF Console!Strays
  <1>. QED BY <1>1 DEF Sound

LEMMA DoneSound ==
    ASSUME InCourse, Sound, ~strayed, Console!Strays, NEW o \in Orders, Console!Done(o), up,
           up' = up, o.do # "remove alias" => Console!Accepts(o),
           \A f \in Console!Files : Console!Holds(f)' \/ Writing(f)' => f \in inMemory.from
    PROVE  Sound'
  <1>1. /\ inMemory'.from = inMemory.from /\ inMemory'.quota = Console!QuotaAfter(o)
        /\ inMemory'.deps = Console!DepsAfter(o)
    BY DoneTypes, InMemoryLoads DEF InCourse, ConsoleTypes
  <1>2. astray' = Console!AstrayAfter(o)
    BY DEF Console!Done
  <1>3. inMemory'.deps \subseteq Console!Deps(inMemory'.quota) \cup astray'
    BY <1>1, <1>2, OperationSound DEF Sound
  <1>. QED BY <1>1, <1>3, StaysSound

LEMMA NextSound == ASSUME InCourse, InCourse', Agrees, Sound, Console!Next PROVE Sound'
  <1>. SUFFICES ASSUME ~strayed' PROVE Sound'
    BY DEF Sound
  <1>1. Console!Strays /\ ~strayed /\ mishaps' = {} /\ unread' = unread
       /\ mishaps = {} /\ unread = {}
    BY ConsoleStrays DEF Console!Strays, Sound
  <1>2. up => /\ inMemory.deps \subseteq Console!Deps(inMemory.quota) \cup astray
              /\ \A f \in Console!Files : Console!Holds(f) \/ Writing(f) => f \in inMemory.from
    BY <1>1 DEF Sound
  <1>3. CASE Console!Start
    <2>1. /\ op = Console!Idle /\ op' = op /\ ~up /\ up'
          /\ inMemory'.deps = Console!OnDisk.deps /\ inMemory'.from = Console!OnDisk.from
          /\ inMemory'.quota = Over(Console!OnDisk.quota, console')
          /\ UNCHANGED <<providers, models, astray>>
      <3>1. Console!OnDisk \in Loaded
        BY OnDiskLoads DEF InCourse
      <3>. QED BY <1>3, <3>1 DEF Console!Start, Console!files, InCourse, Course, Loaded, Over
    <2>2. Console!OnDisk.quota \in Console!Entries /\ console' \in Rows
      BY OnDiskLoads DEF InCourse, ConsoleTypes, Loaded
    <2>3. inMemory'.deps \subseteq Console!Deps(inMemory'.quota) \cup astray'
         /\ inMemory'.from \in {{}, Console!Files}
      BY <1>1, <2>1, <2>2, SoundFiles, OverDeps
    <2>4. \A f \in Console!Files : Console!Holds(f)' \/ Writing(f)' => f \in inMemory'.from
      BY <2>1, AtRestNext DEF Console!OnDisk, Console!Holds
    <2>. QED BY <1>1, <2>1, <2>3, <2>4 DEF Sound, Console!Deps
  <1>4. CASE Console!Crash
    <2>1. /\ up /\ up' = FALSE /\ UNCHANGED <<providers, models, astray>>
          /\ op = Console!Idle \/ mishaps' # {}
      <3>1. op # Console!Idle => op.step \in {"put", "retarget", "put2"}
        BY DEF InCourse, ConsoleTypes
      <3>. QED BY <1>4, <3>1 DEF Console!Crash, Console!files, Console!history
    <2>2. Console!OnDisk' = Console!OnDisk
      BY <2>1 DEF Console!OnDisk, Console!Holds
    <2>3. /\ Console!OnDisk.deps \subseteq Console!Deps(Console!OnDisk.quota) \cup astray
          /\ Console!OnDisk.from \in {{}, Console!Files}
      BY <1>1, <2>1, SoundFiles
    <2>4. /\ Console!OnDisk'.deps \subseteq Console!Deps(Console!OnDisk'.quota) \cup astray'
          /\ Console!OnDisk'.from \in {{}, Console!Files}
      BY <2>1, <2>2, <2>3
    <2>. QED BY <1>1, <2>1, <2>4 DEF Sound, Console!Deps
  <1>5. CASE Console!ReloadRead
    <2>1. up /\ UNCHANGED <<providers, models, inMemory, op, up, astray>>
      BY <1>5 DEF Console!ReloadRead, Console!files, Console!history
    <2>2. \A f : (Console!Holds(f)' <=> Console!Holds(f)) /\ (Writing(f)' <=> Writing(f))
      BY <2>1 DEF Console!Holds, Writing, Console!FileOf
    <2>. QED BY <1>1, <1>2, <2>1, <2>2, StaysSound
  <1>6. CASE Console!ReloadAssign
    <2>1. ~reload.overtaken
      BY <1>1, <1>6 DEF Console!ReloadAssign
    <2>2. /\ up /\ up' = up /\ op = Console!Idle /\ op' = op /\ reload # Console!Idle
          /\ inMemory' = Console!Overridden(reload.text)
          /\ UNCHANGED <<providers, models, astray>>
      BY <1>6 DEF Console!ReloadAssign, Console!files
    <2>3. reload.text = Console!OnDisk
      BY <2>1, <2>2 DEF InCourse, Course
    <2>4. Console!OnDisk \in Loaded /\ Console!OnDisk.quota \in Console!Entries /\ console \in Rows
      BY OnDiskLoads DEF InCourse, ConsoleTypes, Loaded
    <2>5. /\ inMemory'.deps = Console!OnDisk.deps /\ inMemory'.from = Console!OnDisk.from
          /\ inMemory'.quota = Over(Console!OnDisk.quota, console)
      BY <2>2, <2>3, <2>4, OverriddenLoads DEF Over
    <2>6. inMemory'.deps \subseteq Console!Deps(inMemory'.quota) \cup astray'
         /\ inMemory'.from \in {{}, Console!Files}
      BY <1>1, <2>2, <2>4, <2>5, SoundFiles, OverDeps
    <2>7. \A f \in Console!Files : Console!Holds(f)' \/ Writing(f)' => f \in inMemory'.from
      BY <2>2, <2>5, AtRestNext DEF Console!OnDisk, Console!Holds
    <2>. QED BY <1>1, <2>2, <2>6, <2>7 DEF Sound, Console!Deps
  <1>7. ASSUME NEW o \in Orders, Console!Begin(o) PROVE Sound'
    <2>1. /\ up /\ up' = up /\ inMemory' = inMemory /\ Console!FileOf(o) \in inMemory.from
          /\ op' = [o |-> o, step |-> "put", text |-> Console!Written(o)]
          /\ providers' \in {providers, Gone} /\ models' \in {models, Gone} /\ astray' = astray
      BY <1>7 DEF Console!Begin, Console!Asked, Console!Rotate, Console!memory, Console!history
    <2>2. \A f : Writing(f)' => f = Console!FileOf(o)
      <3>1. op'.o = o /\ op'.step = "put"
        BY <2>1
      <3>. QED BY <3>1 DEF Writing, Console!FileOf
    <2>3. \A f \in Console!Files : Console!Holds(f)' => Console!Holds(f)
      BY <2>1 DEF Console!Holds, Console!Files
    <2>. QED BY <1>1, <1>2, <2>1, <2>2, <2>3, StaysSound
  <1>8. ASSUME NEW o \in Orders, Console!Refuse(o) PROVE Sound'
    <2>1. /\ up /\ up' = up /\ op = Console!Idle /\ op' = op
         /\ o.do \notin {"merge", "remove alias"}
          /\ inMemory' = inMemory /\ UNCHANGED <<providers, models, astray>>
      BY <1>1, <1>8 DEF Console!Refuse, Console!Asked, Console!files, Console!history
    <2>2. \A f \in Console!Files : Console!Holds(f)' \/ Writing(f)' => Console!Holds(f)
      BY <2>1, AtRestNext DEF Console!Holds
    <2>. QED BY <1>1, <1>2, <2>1, <2>2, StaysSound
  <1>9. ASSUME NEW o \in Orders, Console!Unwritten(o) PROVE Sound'
    <2>1. /\ up /\ up' = up /\ op = Console!Idle /\ Console!Accepts(o)
          /\ UNCHANGED <<providers, models>>
          /\ op' = op \/ op' = [o |-> o, step |-> "retarget", text |-> Gone]
          /\ (inMemory' = inMemory /\ astray' = astray) \/ Console!Done(o)
      BY <1>9 DEF Console!Unwritten, Console!Asked, Console!files, Console!memory
    <2>2. \A f \in Console!Files : ~Writing(f)'
      BY <2>1, AtRestNext DEF Writing
    <2>3. \A f \in Console!Files : Console!Holds(f)' => Console!Holds(f)
      BY <2>1 DEF Console!Holds
    <2>. QED BY <1>1, <1>2, <2>1, <2>2, <2>3, StaysSound, DoneSound
  <1>10. CASE Console!Put
    <2> DEFINE target == IF op.step = "put2" THEN "models" ELSE Console!FileOf(op.o)
    <2>1. /\ up /\ up' = up /\ op # Console!Idle /\ op.o \in Orders
          /\ op = [o |-> op.o, step |-> op.step, text |-> op.text]
          /\ \A f \in Console!Files : Writing(f) <=> f = target
          /\ \A f \in Console!Files : Console!Holds(f)' <=> (Console!Holds(f) \/ f = target)
      BY <1>10, Placed
    <2> HIDE DEF target
    <2>2. PICK o \in Orders : o = op.o
      BY <2>1
    <2>3. /\ (inMemory' = inMemory /\ astray' = astray) \/ Console!Done(o)
          /\ op' = Console!Idle \/ op'.step = "retarget"
      BY <1>10, <2>1, <2>2 DEF Console!Put, Console!memory
    <2>4. \A f \in Console!Files : ~Writing(f)'
      BY <2>3, AtRestNext DEF Writing
    <2>5. o.do # "remove alias" => Console!Accepts(o)
      BY <2>1, <2>2 DEF InCourse, Course
    <2>. QED BY <1>1, <1>2, <2>1, <2>3, <2>4, <2>5, StaysSound, DoneSound
  <1>11. CASE Console!Retarget
    <2>1. up /\ up' = up /\ op # Console!Idle
      BY <1>11 DEF Console!Retarget
    <2>2. PICK o \in Orders : o = op.o
      BY <2>1 DEF InCourse, ConsoleTypes
    <2>3. \/ Console!Done(o) /\ op' = Console!Idle /\ UNCHANGED <<providers, models>>
          \/ /\ op'.step = "put2" /\ "models" \in inMemory.from /\ inMemory' = inMemory
             /\ providers' = providers /\ models' = Gone /\ astray' = astray
      BY <1>1, <1>11, <2>2 DEF Console!Retarget, Console!Rotate, Console!memory, Console!files
    <2>4. \A f \in Console!Files : Writing(f)' => f = "models" /\ "models" \in inMemory.from
      BY <2>3, AtRestNext DEF Writing
    <2>5. \A f \in Console!Files : Console!Holds(f)' => Console!Holds(f)
      BY <2>3 DEF Console!Holds
    <2>6. o.do # "remove alias" => Console!Accepts(o)
      BY <2>1, <2>2 DEF InCourse, Course
    <2>. QED BY <1>1, <1>2, <2>1, <2>3, <2>4, <2>5, <2>6, StaysSound, DoneSound
  <1>12. ASSUME NEW n \in Names, Console!ResetProviderLimits(n) PROVE Sound'
    <2> DEFINE quota == IF Console!OnDisk.quota[n] = Console!Absent THEN "own"
                        ELSE Console!OnDisk.quota[n]
    <2>1. /\ up /\ up' = up /\ op = Console!Idle /\ op' = op
          /\ inMemory' = [inMemory EXCEPT !.quota[n] = quota]
          /\ UNCHANGED <<providers, models, astray>>
      BY <1>12 DEF Console!ResetProviderLimits, Console!files
    <2>2. quota # Console!Absent
      BY DEF Console!Absent
    <2>3. inMemory \in Loaded
      BY DEF InCourse, ConsoleTypes
    <2> HIDE DEF quota
    <2>4. /\ inMemory'.quota = [inMemory.quota EXCEPT ![n] = quota]
          /\ inMemory'.deps = inMemory.deps /\ inMemory'.from = inMemory.from
      BY <2>1, <2>3 DEF Loaded
    <2>5. \A m \in Names : inMemory.quota[m] # Console!Absent => inMemory'.quota[m] # Console!Absent
      BY <2>2, <2>3, <2>4 DEF Loaded, Console!Entries
    <2>6. inMemory'.deps \subseteq Console!Deps(inMemory'.quota) \cup astray'
      BY <1>2, <2>1, <2>4, <2>5 DEF Console!Deps
    <2>7. \A f \in Console!Files : Console!Holds(f)' \/ Writing(f)' => Console!Holds(f)
      BY <2>1, AtRestNext DEF Console!Holds
    <2>. QED BY <1>1, <1>2, <2>1, <2>4, <2>6, <2>7, StaysSound
  <1>13. ~Console!Peek /\ ~Console!EditProviders /\ ~Console!EditModels
    BY <1>1 DEF Console!Peek, Console!EditProviders, Console!EditModels
  <1>. QED BY ConsoleSteps, <1>3, <1>4, <1>5, <1>6, <1>7, <1>8, <1>9, <1>10, <1>11, <1>12, <1>13

-----------------------------------------------------------------------------
(* Quotas set in the console *)

\* The quota set for n is in use where n is, and is found again: in the file, or else in the
\* database, where it always is without a file to write to.
LimitKept(n, loaded, onDisk, rows) ==
    /\ loaded.quota[n] # "own"
    /\ loaded.quota[n] = Console!Absent => onDisk[n] = Console!Absent
    /\ onDisk[n] = "own" => rows[n] # Console!None
    /\ "providers" \notin loaded.from /\ loaded.quota[n] # Console!Absent => rows[n] # Console!None

\* providers.yaml was lost, or a rename was broken off.
Exempt ==
    \/ "half" \in mishaps
    \/ "lost" \in mishaps /\ providers = Gone /\ ~Writing("providers")

Changing == op # Console!Idle /\ Console!FileOf(op.o) = "providers"

\* While an operation on providers is under way it is of what the operation leaves.
Limits ==
    /\ asked \subseteq Names
    /\ ~Exempt =>
         /\ up /\ ~Changing =>
              \A n \in asked : LimitKept(n, inMemory, Console!OnDisk.quota, console)
         /\ Changing =>
              \A n \in Console!AskedAfter(op.o) :
                 LimitKept(n, Console!InMemory(op.o),
                           IF op.step = "put" THEN op.text ELSE Console!OnDisk.quota,
                           Console!InDatabase(op.o))
         /\ ~up =>
              \A n \in asked : Console!OnDisk.quota[n] = "own" => console[n] # Console!None

LEMMA InitLimits == MCInit => Limits
  BY DEF MCInit, Console!Init, Limits, Changing, Console!Idle

\* An operation leaves asked for what it leaves to others, and what it was asked for.
LEMMA AskedTypes ==
    ASSUME NEW o \in Orders, asked \subseteq Names
    PROVE  /\ Console!AskedAfter(o) \subseteq Names
           /\ Console!FileOf(o) = "models" => Console!AskedAfter(o) = asked
  <1>1. o.do \in {"quota", "rename"} => o.n \in Names
    BY DEF Orders, Named
  <1>2. o.do = "rename" => o.to \in Names
    BY DEF Orders, Named
  <1>. QED BY <1>1, <1>2 DEF Console!AskedAfter, Console!FileOf

\* What is loaded from a file keeps what the file and the database keep.
LEMMA LoadedKeeps ==
    ASSUME NEW n \in Names, NEW onDisk \in Console!Entries, NEW rows \in Rows, NEW loaded,
           onDisk[n] = "own" => rows[n] # Console!None,
           loaded.quota = Over(onDisk, rows),
           "providers" \in loaded.from \/ onDisk[n] # "console"
    PROVE  LimitKept(n, loaded, onDisk, Console!Mirrored(rows, onDisk))
  <1>1. onDisk[n] # Console!Absent => Console!Mirrored(rows, onDisk)[n] = rows[n]
    BY MirroredRows
  <1>2. loaded.quota[n] = IF onDisk[n] # Console!Absent /\ rows[n] # Console!None
                          THEN rows[n] ELSE onDisk[n]
    BY DEF Over
  <1>3. onDisk[n] \in {"own", "console", Console!Absent} /\ rows[n] \in {"console", Console!None}
    BY DEF Console!Entries, Console!Quotas, Rows
  <1>. QED BY <1>1, <1>2, <1>3 DEF LimitKept, Console!Absent, Console!None

\* What an operation leaves alone stays kept.
LEMMA OthersKept ==
    ASSUME InCourse, NEW o \in Orders, Console!FileOf(o) = "providers", NEW m \in Names,
           NEW onDisk, NEW next, LimitKept(m, inMemory, onDisk, console),
           Console!QuotaAfter(o)[m] = inMemory.quota[m], next[m] = onDisk[m],
           o.do = "quota" => m # o.n
    PROVE  LimitKept(m, Console!InMemory(o), next, Console!InDatabase(o))
  <1>1. /\ Console!InMemory(o).quota = Console!QuotaAfter(o)
        /\ Console!InMemory(o).from = inMemory.from /\ console \in Rows
    BY InMemoryLoads DEF InCourse, ConsoleTypes
  <1>2. CASE o.do = "quota"
    <2>1. Console!InDatabase(o)[m] = console[m]
      BY <1>1, <1>2 DEF Console!InDatabase, Rows
    <2>. QED BY <1>1, <2>1 DEF LimitKept
  <1>3. CASE o.do # "quota"
    <2>1. Console!InDatabase(o) = Console!Mirrored(console, Console!QuotaAfter(o))
      BY <1>1, <1>3 DEF Console!InDatabase
    <2>2. inMemory.quota[m] # Console!Absent => Console!InDatabase(o)[m] = console[m]
      BY <1>1, <2>1, MirroredRows
    <2>3. inMemory.quota[m] = Console!Absent => next[m] = Console!Absent /\ Console!Absent # "own"
      BY DEF LimitKept, Console!Absent
    <2>. QED BY <1>1, <2>2, <2>3 DEF LimitKept
  <1>. QED BY <1>2, <1>3

\* An operation on providers keeps what was asked for before, and what it is asked for, in the
\* file it writes, or in the database when it writes none.
LEMMA OperationLimits ==
    ASSUME InCourse, NEW o \in Orders, Console!FileOf(o) = "providers", Console!Accepts(o),
           asked \subseteq Names, NEW onDisk \in Console!Entries, NEW next,
           \A n \in asked : LimitKept(n, inMemory, onDisk, console),
           \/ "providers" \in inMemory.from /\ providers = onDisk /\ next = Console!Written(o)
           \/ "providers" \notin inMemory.from /\ next = onDisk
           \/ o.do = "remove provider" /\ next = onDisk
    PROVE  \A n \in Console!AskedAfter(o) :
              LimitKept(n, Console!InMemory(o), next, Console!InDatabase(o))
  <1>1. /\ o.do \in {"quota", "provider", "rename", "remove provider"} /\ o.n \in Names
        /\ o.do = "rename" => o.to \in Names
    BY DEF Console!FileOf, Orders, Named
  <1>2. /\ inMemory.quota \in Console!Entries /\ console \in Rows
        /\ Console!InMemory(o).quota = Console!QuotaAfter(o)
        /\ Console!InMemory(o).from = inMemory.from
        /\ Console!QuotaAfter(o) \in Console!Entries
    <2>1. inMemory \in Loaded /\ console \in Rows
      BY DEF InCourse, ConsoleTypes
    <2>2. /\ Console!InMemory(o) \in Loaded /\ Console!InMemory(o).from = inMemory.from
          /\ Console!InMemory(o).quota = Console!QuotaAfter(o)
      BY <2>1, InMemoryLoads
    <2>3. Console!InMemory(o).quota \in Console!Entries /\ inMemory.quota \in Console!Entries
      BY <2>1, <2>2 DEF Loaded
    <2>. QED BY <2>1, <2>2, <2>3
  <1>3. o.do # "quota" =>
          /\ Console!InDatabase(o) = Console!Mirrored(console, Console!QuotaAfter(o))
          /\ \A m \in Names : Console!QuotaAfter(o)[m] # Console!Absent =>
                Console!InDatabase(o)[m] = console[m]
    <2>1. o.do # "quota" =>
            Console!InDatabase(o) = Console!Mirrored(console, Console!QuotaAfter(o))
      BY <1>2 DEF Console!InDatabase
    <2>2. o.do # "quota" =>
             \A m \in Names : Console!QuotaAfter(o)[m] # Console!Absent =>
                Console!Mirrored(console, Console!QuotaAfter(o))[m] = console[m]
      BY <1>2, MirroredRows
    <2>. QED BY <2>1, <2>2
  <1>4. ASSUME o.do = "quota", NEW m \in Console!AskedAfter(o)
        PROVE  LimitKept(m, Console!InMemory(o), next, Console!InDatabase(o))
    <2>1. /\ Console!QuotaAfter(o) = [inMemory.quota EXCEPT ![o.n] = "console"]
          /\ Console!Written(o) = [providers EXCEPT ![o.n] = "console"]
          /\ Console!InDatabase(o) = [console EXCEPT ![o.n] =
                IF "providers" \in inMemory.from THEN Console!None ELSE "console"]
          /\ m \in asked \cup {o.n}
      BY <1>4 DEF Console!QuotaAfter, Console!Written, Console!InDatabase, Console!AskedAfter
    <2>2. next = IF "providers" \in inMemory.from THEN Console!Written(o) ELSE onDisk
      BY <1>4
    <2>3. CASE m = o.n
      <3>1. Console!QuotaAfter(o)[m] = "console"
        BY <1>1, <1>2, <2>1, <2>3 DEF Console!Entries
      <3>2. "providers" \in inMemory.from => next[m] = "console"
        BY <1>1, <1>4, <2>1, <2>3, <2>2 DEF Console!Entries
      <3>3. "providers" \notin inMemory.from => Console!InDatabase(o)[m] = "console"
        BY <1>1, <1>2, <2>1, <2>3 DEF Rows
      <3>. QED BY <1>2, <3>1, <3>2, <3>3 DEF LimitKept, Console!Absent, Console!None
    <2>4. CASE m # o.n
      <3>1. m \in asked /\ m \in Names
        BY <2>1, <2>4
      <3>2. Console!QuotaAfter(o)[m] = inMemory.quota[m] /\ next[m] = onDisk[m]
        BY <1>1, <1>2, <1>4, <2>1, <2>2, <2>4, <3>1 DEF Console!Entries
      <3>. QED BY <2>4, <3>1, <3>2, OthersKept
    <2>. QED BY <2>3, <2>4
  <1>5. ASSUME o.do = "provider", NEW m \in Console!AskedAfter(o)
        PROVE  LimitKept(m, Console!InMemory(o), next, Console!InDatabase(o))
    <2>1. /\ Console!QuotaAfter(o) =
               [inMemory.quota EXCEPT ![o.n] = IF @ = Console!Absent THEN "own" ELSE @]
          /\ Console!Written(o) = [providers EXCEPT ![o.n] =
                IF inMemory.quota[o.n] = Console!Absent THEN "own" ELSE inMemory.quota[o.n]]
          /\ m \in asked /\ m \in Names /\ (m = o.n => inMemory.quota[o.n] = "console")
      BY <1>5 DEF Console!QuotaAfter, Console!Written, Console!AskedAfter
    <2>2. (next = Console!Written(o) /\ providers = onDisk) \/ next = onDisk
      BY <1>5
    <2>3. CASE m = o.n
      <3>1. Console!QuotaAfter(o)[m] = "console" /\ (next[m] = "console" \/ next[m] = onDisk[m])
        BY <1>1, <1>2, <2>1, <2>2, <2>3 DEF Console!Entries, Console!Absent
      <3>2. Console!InDatabase(o)[m] = console[m]
        BY <1>3, <1>5, <2>1, <3>1 DEF Console!Absent
      <3>3. LimitKept(m, inMemory, onDisk, console)
        BY <2>1
      <3>. QED BY <1>2, <2>1, <2>3, <3>1, <3>2, <3>3 DEF LimitKept, Console!Absent
    <2>4. CASE m # o.n
      <3>1. Console!QuotaAfter(o)[m] = inMemory.quota[m] /\ next[m] = onDisk[m]
        BY <1>1, <1>2, <2>1, <2>2, <2>4 DEF Console!Entries
      <3>. QED BY <1>5, <2>1, <3>1, OthersKept
    <2>. QED BY <2>3, <2>4
  <1>6. ASSUME o.do = "rename", NEW m \in Console!AskedAfter(o)
        PROVE  LimitKept(m, Console!InMemory(o), next, Console!InDatabase(o))
    <2>1. /\ Console!QuotaAfter(o) = [inMemory.quota EXCEPT ![o.n] = Console!Absent,
                                                           ![o.to] = inMemory.quota[o.n]]
          /\ Console!Written(o) = [providers EXCEPT ![o.n] = Console!Absent,
                                                   ![o.to] = providers[o.n]]
          /\ inMemory.quota[o.n] # Console!Absent /\ inMemory.quota[o.to] = Console!Absent
          /\ \/ m \in asked /\ m \notin {o.n, o.to}
             \/ m = o.to /\ o.n \in asked /\ console[o.n] = Console!None
      BY <1>6 DEF Console!QuotaAfter, Console!Written, Console!AskedAfter, Console!Accepts
    <2>2. \/ "providers" \in inMemory.from /\ next = Console!Written(o) /\ providers = onDisk
          \/ "providers" \notin inMemory.from /\ next = onDisk
      BY <1>6
    <2>3. CASE m = o.to
      <3>1. /\ o.n \in asked /\ console[o.n] = Console!None /\ o.n # o.to
            /\ LimitKept(o.n, inMemory, onDisk, console)
        BY <2>1, <2>3
      <3>2. "providers" \in inMemory.from /\ onDisk[o.n] # "own"
        BY <2>1, <3>1 DEF LimitKept
      <3>3. next = Console!Written(o) /\ providers = onDisk
        BY <2>2, <3>2
      <3>4. Console!QuotaAfter(o)[m] = inMemory.quota[o.n]
        BY <1>1, <1>2, <1>6, <2>1, <2>3 DEF Console!Entries
      <3>5. next = [onDisk EXCEPT ![o.n] = Console!Absent, ![o.to] = onDisk[o.n]]
        BY <2>1, <3>3
      <3>6. next[m] = onDisk[o.n]
        BY <1>1, <1>6, <2>3, <3>5 DEF Console!Entries
      <3>. QED BY <1>2, <2>1, <3>1, <3>2, <3>4, <3>6 DEF LimitKept
    <2>4. CASE m # o.to
      <3>1. m \in asked /\ m \in Names /\ m # o.n
        BY <2>1, <2>4
      <3>2. Console!QuotaAfter(o)[m] = inMemory.quota[m] /\ next[m] = onDisk[m]
        BY <1>1, <1>2, <2>1, <2>2, <2>4, <3>1 DEF Console!Entries
      <3>. QED BY <1>6, <3>1, <3>2, OthersKept
    <2>. QED BY <2>3, <2>4
  <1>7. ASSUME o.do = "remove provider", NEW m \in Console!AskedAfter(o)
        PROVE  LimitKept(m, Console!InMemory(o), next, Console!InDatabase(o))
    <2>1. /\ Console!QuotaAfter(o) = [inMemory.quota EXCEPT ![o.n] = Console!Absent]
          /\ Console!Written(o) = [providers EXCEPT ![o.n] = Console!Absent]
          /\ m \in asked /\ m \in Names /\ m # o.n
      BY <1>7 DEF Console!QuotaAfter, Console!Written, Console!AskedAfter
    <2>2. (next = Console!Written(o) /\ providers = onDisk) \/ next = onDisk
      BY <1>7
    <2>3. Console!QuotaAfter(o)[m] = inMemory.quota[m] /\ next[m] = onDisk[m]
      BY <1>1, <1>2, <2>1, <2>2 DEF Console!Entries
    <2>. QED BY <1>7, <2>1, <2>3, OthersKept
  <1>. QED BY <1>1, <1>4, <1>5, <1>6, <1>7

\* Steps that touch neither the quotas nor what was asked, between operations.
LEMMA LimitsRest ==
    ASSUME Limits, ~Changing, ~Changing', Exempt => Exempt', up, up' = up,
           providers' = providers \/ (Console!OnDisk.quota' = Console!OnDisk.quota),
           inMemory'.quota = inMemory.quota, inMemory'.from = inMemory.from,
           asked' \subseteq asked, \A n \in asked' : console'[n] = console[n]
    PROVE  Limits'
  <1>1. Console!OnDisk.quota' = Console!OnDisk.quota
    BY DEF Console!OnDisk
  <1>. QED BY <1>1 DEF Limits, LimitKept

\* The excuses outlast every step: a lost file comes back with an edit, which ends the asking.
LEMMA ExemptStays ==
    ASSUME InCourse, Console!Next, Exempt
    PROVE  Exempt' \/ (asked' = {} /\ op' = Console!Idle)
  <1>1. CASE Console!Start
    <2>1. /\ op' = Console!Idle /\ providers' = providers
          /\ mishaps \cap Console!Lasting \subseteq mishaps'
      BY <1>1 DEF Console!Start, Console!files, InCourse, Course
    <2>. QED BY <2>1, AtRestNext DEF Exempt, Console!Lasting, Console!Files
  <1>2. CASE Console!ReloadAssign
    <2>1. /\ op' = Console!Idle /\ providers' = providers
          /\ asked' = {} \/ mishaps \cap Console!Lasting \subseteq mishaps'
      BY <1>2 DEF Console!ReloadAssign, Console!files
    <2>. QED BY <2>1, AtRestNext DEF Exempt, Console!Lasting, Console!Files
  <1>3. CASE Console!EditProviders
    BY <1>3 DEF Console!EditProviders
  <1>4. ASSUME mishaps \subseteq mishaps', providers' = providers,
               Writing("providers")' => providers = Gone /\ Writing("providers")
        PROVE  Exempt'
    BY <1>4 DEF Exempt
  <1>5. CASE Console!Crash \/ Console!ReloadRead \/ Console!Peek \/ Console!EditModels
             \/ \E n \in Names : Console!ResetProviderLimits(n)
    <2>1. /\ mishaps \subseteq mishaps' /\ providers' = providers
          /\ op' = op \/ op' = Console!Idle
      BY <1>5 DEF Console!Crash, Console!ReloadRead, Console!Peek, Console!EditModels,
         Console!ResetProviderLimits, Console!files, Console!history
    <2>2. Writing("providers")' => Writing("providers")
      BY <2>1, AtRestNext DEF Writing, Console!FileOf, Console!Files
    <2>3. Writing("providers") => providers = Gone
      BY DEF InCourse, Course, Console!Holds, Console!Files
    <2>. QED BY <1>4, <2>1, <2>2, <2>3
  <1>6. ASSUME NEW o \in Orders, Console!Begin(o) PROVE Exempt'
    <2>1. /\ op = Console!Idle /\ mishaps' = mishaps /\ Console!FileOf(o) \in inMemory.from /\ up
          /\ op' = [o |-> o, step |-> "put", text |-> Console!Written(o)]
          /\ Console!FileOf(o) # "providers" => providers' = providers
      BY <1>6 DEF Console!Begin, Console!Asked, Console!Rotate
    <2>2. op'.o = o /\ op'.step = "put"
      BY <2>1
    <2>3. Writing("providers")' => Console!FileOf(o) = "providers"
      <3>1. Writing("providers")' => Console!FileOf(op'.o) = "providers"
        BY <2>2 DEF Writing, Console!FileOf
      <3>. QED BY <2>2, <3>1
    <2>4. Console!FileOf(o) = "providers" => providers # Gone
      BY <2>1, AtRest DEF InCourse, Course, Console!Holds, Console!Files
    <2>. QED BY <2>1, <2>3, <2>4 DEF Exempt
  <1>7. ASSUME NEW o \in Orders, Console!Refuse(o) \/ Console!Unwritten(o) PROVE Exempt'
    <2>1. /\ mishaps \subseteq mishaps' /\ providers' = providers
          /\ op' = Console!Idle \/ op'.step = "retarget"
      <3>1. op = Console!Idle
        BY <1>7 DEF Console!Refuse, Console!Unwritten, Console!Asked
      <3>2. op' = op \/ op' = [o |-> o, step |-> "retarget", text |-> Gone]
        BY <1>7 DEF Console!Refuse, Console!Unwritten
      <3>3. mishaps \subseteq mishaps' /\ providers' = providers
        BY <1>7 DEF Console!Refuse, Console!Unwritten, Console!Done, Console!files
      <3>. QED BY <3>1, <3>2, <3>3
    <2>2. ~Writing("providers")'
      BY <2>1, AtRestNext DEF Writing, Console!Files
    <2>. QED BY <1>4, <2>1, <2>2
  <1>8. CASE Console!Put
    <2> DEFINE target == IF op.step = "put2" THEN "models" ELSE Console!FileOf(op.o)
    <2>1. /\ target \in Console!Files /\ op = [o |-> op.o, step |-> op.step, text |-> op.text]
          /\ \A f \in Console!Files : Writing(f) <=> f = target
          /\ target = "models" => providers' = providers
      BY <1>8, Placed
    <2> HIDE DEF target
    <2>2. mishaps \subseteq mishaps' /\ (op' = Console!Idle \/ op'.step = "retarget")
      <3>1. mishaps \subseteq mishaps'
        BY <1>8 DEF Console!Put, Console!Done
      <3>2. op' = Console!Idle \/ op' = [op EXCEPT !.step = "retarget", !.text = Gone]
        BY <1>8 DEF Console!Put
      <3>. QED BY <2>1, <3>1, <3>2
    <2>3. ~Writing("providers")'
      BY <2>2, AtRestNext DEF Writing, Console!Files
    <2>4. CASE target = "models"
      BY <1>4, <2>1, <2>2, <2>3, <2>4
    <2>5. CASE target = "providers"
      BY <2>1, <2>2, <2>5 DEF Exempt, Console!Files
    <2>. QED BY <2>1, <2>4, <2>5 DEF Console!Files
  <1>9. CASE Console!Retarget
    <2>1. /\ mishaps \subseteq mishaps' /\ providers' = providers
          /\ op' = Console!Idle \/ op'.step = "put2"
      <3>1. mishaps \subseteq mishaps'
        BY <1>9 DEF Console!Retarget, Console!Done
      <3>2. \/ op' = Console!Idle /\ UNCHANGED <<providers, models>>
            \/ Console!Rotate(op.o, "put2", [models EXCEPT !.deps = Console!Renamed(@, op.o)])
        BY <1>9 DEF Console!Retarget, Console!files
      <3>. QED BY <3>1, <3>2 DEF Console!Rotate
    <2>2. ~Writing("providers")'
      BY <2>1, AtRestNext DEF Writing, Console!Files
    <2>. QED BY <1>4, <2>1, <2>2
  <1>. QED BY ConsoleSteps, <1>1, <1>2, <1>3, <1>5, <1>6, <1>7, <1>8, <1>9

\* An operation on providers is under way.
LEMMA ChangingLimits ==
    ASSUME NEW o \in Orders, Console!FileOf(o) = "providers", NEW step, NEW text,
           op' = [o |-> o, step |-> step, text |-> text], UNCHANGED <<inMemory, console, asked>>,
           up', asked \subseteq Names,
           ~Exempt' =>
              \A n \in Console!AskedAfter(o) :
                 LimitKept(n, Console!InMemory(o),
                           IF step = "put" THEN text ELSE Console!OnDisk.quota',
                           Console!InDatabase(o))
    PROVE  Limits'
  <1>1. op'.o = o /\ op'.step = step /\ op'.text = text /\ op' # Console!Idle
    BY DEF Console!Idle
  <1>2. Changing'
    <2>1. Console!FileOf(op'.o) = "providers"
      BY <1>1
    <2>. QED BY <1>1, <2>1 DEF Changing, Console!FileOf
  <1>3. /\ Console!InMemory(op.o)' = Console!InMemory(o)
        /\ Console!InDatabase(op.o)' = Console!InDatabase(o)
        /\ Console!AskedAfter(op.o)' = Console!AskedAfter(o)
    <2>1. /\ Console!QuotaAfter(o)' = Console!QuotaAfter(o)
          /\ Console!DepsAfter(o)' = Console!DepsAfter(o)
          /\ Console!AliasAfter(o)' = Console!AliasAfter(o)
          /\ Console!InDatabase(o)' = Console!InDatabase(o)
      BY OperationStays
    <2>2. Console!InMemory(o)' = Console!InMemory(o)
      BY <2>1 DEF Console!InMemory
    <2>3. Console!AskedAfter(o)' = Console!AskedAfter(o)
      BY DEF Console!AskedAfter
    <2>. QED BY <1>1, <2>1, <2>2, <2>3
  <1>. QED BY <1>1, <1>2, <1>3 DEF Limits

\* The end of an operation.
LEMMA DoneLimits ==
    ASSUME InCourse, NEW o \in Orders, Console!FileOf(o) = "providers", Console!Done(o),
           op' = Console!Idle, up', asked \subseteq Names,
           ~Exempt' =>
              \A n \in Console!AskedAfter(o) :
                 LimitKept(n, Console!InMemory(o), Console!OnDisk.quota', Console!InDatabase(o))
    PROVE  Limits'
  <1>1. /\ inMemory' = Console!InMemory(o) /\ console' = Console!InDatabase(o)
        /\ asked' = Console!AskedAfter(o)
    BY DEF Console!Done
  <1>2. asked' \subseteq Names
    BY <1>1, AskedTypes
  <1>. QED BY <1>1, <1>2 DEF Limits, Changing

LEMMA DoneModelLimits ==
    ASSUME InCourse, Limits, NEW o \in Orders, Console!FileOf(o) = "models", Console!Done(o),
           ~Changing, op' = Console!Idle, up, up' = up, Exempt => Exempt', providers' = providers
    PROVE  Limits'
  <1>1. /\ inMemory' = Console!InMemory(o) /\ console' = Console!InDatabase(o)
        /\ asked' = Console!AskedAfter(o)
    BY DEF Console!Done
  <1>2. asked' = asked /\ console' = console
    BY <1>1, AskedTypes, OtherFile DEF Limits
  <1>3. inMemory'.quota = inMemory.quota /\ inMemory'.from = inMemory.from
    BY <1>1, OtherFile, InMemoryLoads DEF InCourse, ConsoleTypes
  <1>. QED BY <1>2, <1>3, LimitsRest DEF Changing

\* A template was not written in the console.
LEMMA ReadByHand ==
    ASSUME InCourse, NEW n \in Names
    PROVE  "providers" \in Console!OnDisk.from \/ Console!OnDisk.quota[n] # "console"
  <1>1. CASE providers = Gone
    BY <1>1, TemplateAssumption DEF Console!OnDisk
  <1>2. CASE providers # Gone
    BY <1>2 DEF Console!OnDisk, Console!Holds, Console!Files
  <1>. QED BY <1>1, <1>2

\* What was read from the files is in use.
LEMMA ReadLimits ==
    ASSUME InCourse, Limits, op' = Console!Idle, up', UNCHANGED <<providers, asked>>,
           inMemory'.quota = Over(Console!OnDisk.quota, console),
           inMemory'.from = Console!OnDisk.from,
           console' = Console!Mirrored(console, Console!OnDisk.quota),
           ~Exempt' => \A n \in asked : Console!OnDisk.quota[n] = "own" => console[n] # Console!None
    PROVE  Limits'
  <1>1. Console!OnDisk.quota' = Console!OnDisk.quota
    BY DEF Console!OnDisk
  <1>2. Console!OnDisk.quota \in Console!Entries /\ console \in Rows
    BY OnDiskLoads DEF InCourse, ConsoleTypes, Loaded
  <1>3. ASSUME ~Exempt', NEW n \in asked
        PROVE  LimitKept(n, inMemory', Console!OnDisk.quota, console')
    <2>1. n \in Names
      BY DEF Limits
    <2>2. "providers" \in Console!OnDisk.from \/ Console!OnDisk.quota[n] # "console"
      BY <2>1, ReadByHand
    <2>. QED BY <1>2, <1>3, <2>1, <2>2, LoadedKeeps
  <1>. QED BY <1>1, <1>3 DEF Limits, Changing

LEMMA StartLimits ==
    ASSUME InCourse, Limits, Exempt => Exempt', Console!Start PROVE Limits'
  <1>1. /\ ~up /\ up' /\ op' = Console!Idle /\ op = Console!Idle
        /\ console' = Console!Mirrored(console, Console!OnDisk.quota)
        /\ inMemory' = [Console!OnDisk EXCEPT !.quota =
              [n \in Names |-> IF @[n] # Console!Absent /\ console'[n] # Console!None
                               THEN console'[n] ELSE @[n]]]
        /\ UNCHANGED <<providers, asked>>
    BY DEF Console!Start, Console!files, InCourse, Course
  <1>2. Console!OnDisk \in Loaded /\ Console!OnDisk.quota \in Console!Entries /\ console \in Rows
    BY OnDiskLoads DEF InCourse, ConsoleTypes, Loaded
  <1>3. inMemory'.quota = Over(Console!OnDisk.quota, console')
       /\ inMemory'.from = Console!OnDisk.from
    BY <1>1, <1>2 DEF Loaded, Over
  <1>4. inMemory'.quota = Over(Console!OnDisk.quota, console)
    BY <1>1, <1>2, <1>3, OverMirrored
  <1>5. ~Exempt' => \A n \in asked : Console!OnDisk.quota[n] = "own" => console[n] # Console!None
    BY <1>1 DEF Limits
  <1>. QED BY <1>1, <1>3, <1>4, <1>5, ReadLimits

LEMMA ReloadAssignLimits ==
    ASSUME InCourse, Limits, Exempt => Exempt' \/ asked' = {}, Console!ReloadAssign PROVE Limits'
  <1>1. /\ up /\ up' = up /\ reload # Console!Idle /\ op = Console!Idle /\ op' = op
        /\ inMemory' = Console!Overridden(reload.text) /\ UNCHANGED providers
        /\ console' = Console!Mirrored(console, reload.text.quota)
        /\ IF reload.overtaken THEN asked' = {} ELSE asked' = asked
    BY DEF Console!ReloadAssign, Console!files
  <1>2. CASE asked' = {}
    BY <1>1, <1>2 DEF Limits, Changing
  <1>3. CASE asked' # {}
    <2>1. reload.text = Console!OnDisk /\ asked' = asked
      BY <1>1, <1>3 DEF InCourse, Course
    <2>2. Console!OnDisk \in Loaded /\ console \in Rows
      BY OnDiskLoads DEF InCourse, ConsoleTypes
    <2>3. /\ inMemory'.quota = Over(Console!OnDisk.quota, console)
          /\ inMemory'.from = Console!OnDisk.from
      BY <1>1, <2>1, <2>2, OverriddenLoads DEF Over
    <2>4. ~Exempt' => \A n \in asked : Console!OnDisk.quota[n] = "own" => console[n] # Console!None
      BY <1>1, <1>3 DEF Limits, LimitKept, Changing
    <2>. QED BY <1>1, <2>1, <2>3, <2>4, ReadLimits
  <1>. QED BY <1>2, <1>3

LEMMA CrashLimits ==
    ASSUME InCourse, Limits, Exempt => Exempt', Console!Crash PROVE Limits'
  <1>1. /\ up /\ up' = FALSE /\ op' = Console!Idle /\ UNCHANGED <<providers, console, asked>>
        /\ op # Console!Idle =>
              mishaps' = mishaps \cup (CASE op.step = "put" -> {"lost"}
                                         [] op.step = "retarget" -> {"half"}
                                         [] op.step = "put2" -> {"lost", "half"})
    BY DEF Console!Crash, Console!files, Console!history
  <1>2. Console!OnDisk.quota' = Console!OnDisk.quota
    BY <1>1 DEF Console!OnDisk
  <1>3. ~Writing("providers")'
    BY <1>1, AtRestNext DEF Console!Files
  <1>4. Changing => Exempt'
    <2>1. CASE Changing /\ op.step = "put"
      <3>1. Writing("providers") /\ op # Console!Idle
        BY <2>1 DEF Changing, Writing
      <3>2. providers = Gone
        BY <3>1 DEF InCourse, Course, Console!Holds, Console!Files
      <3>3. "lost" \in mishaps'
        BY <1>1, <2>1, <3>1
      <3>. QED BY <1>1, <1>3, <3>2, <3>3 DEF Exempt
    <2>2. CASE Changing /\ op.step # "put"
      <3>1. op # Console!Idle /\ op.step \in {"retarget", "put2"}
        BY <2>2 DEF Changing, InCourse, ConsoleTypes
      <3>2. "half" \in mishaps'
        BY <1>1, <3>1
      <3>. QED BY <3>2 DEF Exempt
    <2>. QED BY <2>1, <2>2
  <1>5. ~Exempt' => \A n \in asked : Console!OnDisk.quota[n] = "own" => console[n] # Console!None
    BY <1>1, <1>4 DEF Limits, LimitKept
  <1>. QED BY <1>1, <1>2, <1>5 DEF Limits, Changing

LEMMA BeginLimits ==
    ASSUME InCourse, Limits, Exempt => Exempt', NEW o \in Orders, Console!Begin(o) PROVE Limits'
  <1>1. /\ up /\ up' = up /\ op = Console!Idle /\ Console!Accepts(o)
        /\ Console!FileOf(o) \in inMemory.from
        /\ op' = [o |-> o, step |-> "put", text |-> Console!Written(o)]
        /\ Console!FileOf(o) # "providers" => providers' = providers
        /\ UNCHANGED <<inMemory, console, asked>>
    BY DEF Console!Begin, Console!Asked, Console!Rotate, Console!memory, Console!history
  <1>2. ~Changing /\ asked \subseteq Names
    BY <1>1 DEF Changing, Limits
  <1>3. CASE Console!FileOf(o) = "models"
    <2>1. Console!FileOf(op'.o) = "models"
      BY <1>1, <1>3
    <2>2. ~Changing'
      BY <2>1 DEF Changing, Console!FileOf
    <2>. QED BY <1>1, <1>2, <1>3, <2>2, LimitsRest
  <1>4. CASE Console!FileOf(o) = "providers"
    <2>1. Console!Holds("providers")
      BY <1>1, <1>4, AtRest DEF InCourse, Course, Console!Files
    <2>2. providers \in Console!Entries /\ Console!OnDisk.quota = providers
      BY <2>1 DEF InCourse, ConsoleTypes, Console!Holds, Console!OnDisk
    <2>3. ~Exempt' => \A n \in asked : LimitKept(n, inMemory, providers, console)
      BY <1>1, <1>2, <2>2 DEF Limits
    <2>4. ~Exempt' => \A n \in Console!AskedAfter(o) :
             LimitKept(n, Console!InMemory(o), Console!Written(o), Console!InDatabase(o))
      BY <1>1, <1>2, <1>4, <2>2, <2>3, OperationLimits
    <2>. QED BY <1>1, <1>2, <1>4, <2>4, ChangingLimits
  <1>. QED BY <1>3, <1>4 DEF Console!FileOf

LEMMA RefuseLimits ==
    ASSUME InCourse, Limits, Exempt => Exempt', NEW o \in Orders, Console!Refuse(o) PROVE Limits'
  <1>1. /\ up /\ up' = up /\ op = Console!Idle /\ op' = op
        /\ inMemory' = (IF o.do = "merge" THEN [inMemory EXCEPT !.deps = @ \cup {o.n}]
                        ELSE inMemory)
        /\ UNCHANGED <<providers, console, asked>>
    BY DEF Console!Refuse, Console!Asked, Console!files, Console!history
  <1>2. inMemory \in Loaded
    BY DEF InCourse, ConsoleTypes
  <1>3. inMemory'.quota = inMemory.quota /\ inMemory'.from = inMemory.from
    BY <1>1, <1>2 DEF Loaded
  <1>4. ~Changing /\ ~Changing'
    BY <1>1 DEF Changing
  <1>. QED BY <1>1, <1>3, <1>4, LimitsRest

LEMMA UnwrittenLimits ==
    ASSUME InCourse, Limits, Exempt => Exempt', NEW o \in Orders, Console!Unwritten(o) PROVE Limits'
  <1>1. /\ up /\ up' = up /\ op = Console!Idle /\ Console!Accepts(o)
        /\ Console!FileOf(o) \in inMemory.from => Console!NothingToWrite(o)
        /\ UNCHANGED <<providers, models>>
        /\ IF o.do = "rename"
           THEN /\ op' = [o |-> o, step |-> "retarget", text |-> Gone]
                /\ UNCHANGED <<inMemory, console, asked>>
           ELSE Console!Done(o) /\ UNCHANGED op
    BY DEF Console!Unwritten, Console!Asked, Console!files, Console!memory
  <1>2. ~Changing /\ asked \subseteq Names
    BY <1>1 DEF Changing, Limits
  <1>3. CASE Console!FileOf(o) = "models"
    <2>1. Console!Done(o) /\ op' = Console!Idle
      BY <1>1, <1>3 DEF Console!FileOf
    <2>. QED BY <1>1, <1>2, <1>3, <2>1, DoneModelLimits
  <1>4. CASE Console!FileOf(o) = "providers"
    <2>1. Console!OnDisk.quota' = Console!OnDisk.quota /\ Console!OnDisk.quota \in Console!Entries
      BY <1>1, OnDiskLoads DEF Console!OnDisk, InCourse, Loaded
    <2>2. "providers" \notin inMemory.from \/ o.do = "remove provider"
      BY <1>1, <1>4 DEF Console!NothingToWrite, Console!FileOf
    <2>3. ~Exempt' => \A n \in asked : LimitKept(n, inMemory, Console!OnDisk.quota, console)
      BY <1>1, <1>2 DEF Limits
    <2>4. ~Exempt' => \A n \in Console!AskedAfter(o) :
             LimitKept(n, Console!InMemory(o), Console!OnDisk.quota, Console!InDatabase(o))
      BY <1>1, <1>2, <1>4, <2>1, <2>2, <2>3, OperationLimits
    <2>5. CASE o.do = "rename"
      BY <1>1, <1>2, <1>4, <2>1, <2>4, <2>5, ChangingLimits
    <2>6. CASE o.do # "rename"
      BY <1>1, <1>2, <1>4, <2>1, <2>4, <2>6, DoneLimits
    <2>. QED BY <2>5, <2>6
  <1>. QED BY <1>3, <1>4 DEF Console!FileOf

LEMMA PutLimits ==
    ASSUME InCourse, Limits, Exempt => Exempt', Console!Put PROVE Limits'
  <1> DEFINE target == IF op.step = "put2" THEN "models" ELSE Console!FileOf(op.o)
  <1>1. /\ op # Console!Idle /\ up /\ up' = up /\ op.o \in Orders
        /\ op = [o |-> op.o, step |-> op.step, text |-> op.text]
        /\ target = "providers" => providers' = op.text /\ op.text \in Console!Entries
        /\ target = "models" => providers' = providers
    BY Placed
  <1>2. PICK o \in Orders : o = op.o
    BY <1>1
  <1>3. /\ op.step \in {"put", "put2"} /\ (op.step = "put2" => o.do = "rename")
        /\ op.step = "put" => target = Console!FileOf(o)
        /\ op.step = "put2" => target = "models"
        /\ o.do = "rename" => Console!FileOf(o) = "providers"
        /\ target \in {"providers", "models"} /\ Console!FileOf(o) \in {"providers", "models"}
    BY <1>1, <1>2 DEF InCourse, ConsoleTypes, Console!Put, Console!FileOf
  <1> HIDE DEF target
  <1>4. asked \subseteq Names
    BY DEF Limits
  <1>5. \/ /\ o.do = "rename" /\ op.step = "put" /\ UNCHANGED <<inMemory, console, asked>>
           /\ op' = [op EXCEPT !.step = "retarget", !.text = Gone]
        \/ op' = Console!Idle /\ Console!Done(o)
        \/ o.do = "model" /\ op' = Console!Idle /\ UNCHANGED <<inMemory, console, asked>>
    BY <1>2 DEF Console!Put, Console!memory
  <1>6. CASE Console!FileOf(o) = "models"
    <2>1. providers' = providers /\ ~Changing /\ o.do # "rename"
      BY <1>1, <1>2, <1>3, <1>6 DEF Changing
    <2>2. CASE op' = Console!Idle /\ Console!Done(o)
      BY <1>1, <1>6, <2>1, <2>2, DoneModelLimits
    <2>3. CASE op' = Console!Idle /\ UNCHANGED <<inMemory, console, asked>>
      <3>1. ~Changing'
        BY <2>3 DEF Changing
      <3>. QED BY <1>1, <2>1, <2>3, <3>1, LimitsRest
    <2>. QED BY <1>5, <2>1, <2>2, <2>3
  <1>7. CASE Console!FileOf(o) = "providers"
    <2>1. (IF op.step = "put" THEN op.text ELSE Console!OnDisk.quota) = Console!OnDisk.quota'
      <3>1. CASE op.step = "put"
        BY <1>1, <1>3, <1>7, <3>1, GoneIsNone DEF Console!OnDisk
      <3>2. CASE op.step # "put"
        BY <1>1, <1>3, <3>2 DEF Console!OnDisk
      <3>. QED BY <3>1, <3>2
    <2>2. Changing
      BY <1>1, <1>2, <1>7 DEF Changing
    <2>3. ~Exempt' => \A n \in Console!AskedAfter(o) :
             LimitKept(n, Console!InMemory(o), Console!OnDisk.quota', Console!InDatabase(o))
      BY <1>2, <2>1, <2>2 DEF Limits
    <2>4. CASE op' = Console!Idle /\ Console!Done(o)
      BY <1>1, <1>4, <1>7, <2>3, <2>4, DoneLimits
    <2>5. CASE /\ UNCHANGED <<inMemory, console, asked>>
               /\ op' = [op EXCEPT !.step = "retarget", !.text = Gone]
      <3>1. op' = [o |-> o, step |-> "retarget", text |-> Gone]
        BY <1>1, <1>2, <2>5
      <3>. QED BY <1>1, <1>4, <1>7, <2>3, <2>5, <3>1, ChangingLimits
    <2>6. o.do # "model"
      BY <1>7 DEF Console!FileOf
    <2>. QED BY <1>5, <2>4, <2>5, <2>6
  <1>. QED BY <1>3, <1>6, <1>7

LEMMA RetargetStepLimits ==
    ASSUME InCourse, Limits, Exempt => Exempt', Console!Retarget PROVE Limits'
  <1>1. /\ up /\ up' = up /\ op # Console!Idle /\ op.step = "retarget"
    BY DEF Console!Retarget
  <1>2. PICK o \in Orders : o = op.o /\ o.do = "rename"
    BY <1>1 DEF InCourse, ConsoleTypes
  <1>3. Console!FileOf(o) = "providers" /\ Changing /\ asked \subseteq Names
    BY <1>1, <1>2 DEF Console!FileOf, Changing, Limits
  <1>4. \/ Console!Done(o) /\ op' = Console!Idle /\ providers' = providers
        \/ /\ Console!Rotate(o, "put2", [models EXCEPT !.deps = Console!Renamed(@, o)])
           /\ UNCHANGED <<inMemory, console, asked>>
        \/ "half" \in mishaps' /\ op' = Console!Idle /\ asked' = asked
    BY <1>2 DEF Console!Retarget, Console!memory, Console!files
  <1>5. ASSUME providers' = providers
        PROVE  ~Exempt' => \A n \in Console!AskedAfter(o) :
                  LimitKept(n, Console!InMemory(o), Console!OnDisk.quota', Console!InDatabase(o))
    <2>1. Console!OnDisk.quota' = Console!OnDisk.quota
      BY <1>5 DEF Console!OnDisk
    <2>. QED BY <1>1, <1>2, <1>3, <2>1 DEF Limits
  <1>6. CASE Console!Done(o) /\ op' = Console!Idle /\ providers' = providers
    BY <1>1, <1>3, <1>5, <1>6, DoneLimits
  <1>7. CASE /\ Console!Rotate(o, "put2", [models EXCEPT !.deps = Console!Renamed(@, o)])
             /\ UNCHANGED <<inMemory, console, asked>>
    <2> DEFINE text == [models EXCEPT !.deps = Console!Renamed(@, o)]
    <2>1. op' = [o |-> o, step |-> "put2", text |-> text] /\ providers' = providers
      BY <1>7 DEF Console!Rotate
    <2> HIDE DEF text
    <2>. QED BY <1>1, <1>3, <1>5, <1>7, <2>1, ChangingLimits
  <1>8. CASE "half" \in mishaps' /\ op' = Console!Idle /\ asked' = asked
    BY <1>1, <1>3, <1>8 DEF Limits, Exempt, Changing
  <1>. QED BY <1>4, <1>6, <1>7, <1>8

LEMMA ResetLimits ==
    ASSUME InCourse, Limits, Exempt => Exempt', NEW n \in Names, Console!ResetProviderLimits(n)
    PROVE  Limits'
  <1> DEFINE quota == IF Console!OnDisk.quota[n] = Console!Absent THEN "own"
                      ELSE Console!OnDisk.quota[n]
  <1>1. /\ up /\ up' = up /\ op = Console!Idle /\ op' = op
        /\ inMemory' = [inMemory EXCEPT !.quota[n] = quota]
        /\ console' = [console EXCEPT ![n] = Console!None]
        /\ asked' = asked \ {n} /\ UNCHANGED providers
    BY DEF Console!ResetProviderLimits, Console!files
  <1>2. inMemory \in Loaded /\ console \in Rows
    BY DEF InCourse, ConsoleTypes
  <1> HIDE DEF quota
  <1>3. /\ inMemory'.quota = [inMemory.quota EXCEPT ![n] = quota]
        /\ inMemory'.from = inMemory.from
    BY <1>1, <1>2 DEF Loaded
  <1>4. \A m \in Names : m # n => inMemory'.quota[m] = inMemory.quota[m] /\ console'[m] = console[m]
    BY <1>1, <1>2, <1>3 DEF Loaded, Console!Entries, Rows
  <1>5. Console!OnDisk.quota' = Console!OnDisk.quota
    BY <1>1 DEF Console!OnDisk
  <1>6. ~Changing /\ ~Changing'
    BY <1>1 DEF Changing
  <1>. QED BY <1>1, <1>3, <1>4, <1>5, <1>6 DEF Limits, LimitKept

\* Nothing that the limits are about has changed.
LEMMA LimitsStay ==
    ASSUME InCourse, Limits, UNCHANGED <<providers, up, inMemory, op, console, asked>>,
           Exempt => Exempt'
    PROVE  Limits'
  <1>1. Console!OnDisk.quota' = Console!OnDisk.quota
    BY DEF Console!OnDisk
  <1>2. CASE op = Console!Idle
    BY <1>1, <1>2 DEF Limits, LimitKept, Changing
  <1>3. CASE op # Console!Idle
    <2>1. PICK o \in Orders : o = op.o
      BY <1>3 DEF InCourse, ConsoleTypes
    <2>2. Changing' <=> Changing
      BY DEF Changing, Console!FileOf
    <2>3. CASE ~Changing
      BY <1>1, <2>2, <2>3 DEF Limits, LimitKept
    <2>4. CASE Changing
      <3>1. up /\ up'
        BY <1>3 DEF InCourse, Course
      <3>2. op = [o |-> op.o, step |-> op.step, text |-> op.text] /\ Console!FileOf(o) = "providers"
        BY <1>3, <2>1, <2>4 DEF InCourse, ConsoleTypes, Changing
      <3>3. ~Exempt' => \A n \in Console!AskedAfter(o) :
               LimitKept(n, Console!InMemory(o),
                         IF op.step = "put" THEN op.text ELSE Console!OnDisk.quota',
                         Console!InDatabase(o))
        BY <1>1, <2>1, <2>4 DEF Limits
      <3>4. PICK step, text : step = op.step /\ text = op.text
        OBVIOUS
      <3>5. op' = [o |-> o, step |-> step, text |-> text] /\ asked \subseteq Names
        BY <2>1, <3>2, <3>4 DEF Limits
      <3>6. ~Exempt' => \A n \in Console!AskedAfter(o) :
               LimitKept(n, Console!InMemory(o),
                         IF step = "put" THEN text ELSE Console!OnDisk.quota',
                         Console!InDatabase(o))
        BY <3>3, <3>4
      <3>. QED BY <3>1, <3>2, <3>5, <3>6, ChangingLimits
    <2>. QED BY <2>3, <2>4
  <1>. QED BY <1>2, <1>3

LEMMA NextLimits == ASSUME InCourse, Limits, Console!Next PROVE Limits'
  <1>1. CASE asked' = {} /\ op' = Console!Idle
    BY <1>1 DEF Limits, Changing
  <1>2. CASE Exempt => Exempt'
    <2>1. CASE Console!ReloadRead \/ Console!Peek
      <3>1. UNCHANGED <<providers, up, inMemory, op, console, asked>>
        BY <2>1 DEF Console!ReloadRead, Console!Peek, Console!files, Console!memory,
           Console!history
      <3>. QED BY <1>2, <3>1, LimitsStay
    <2>2. CASE Console!EditProviders
      BY <2>2 DEF Console!EditProviders, Limits, Changing
    <2>3. CASE Console!EditModels
      <3>1. UNCHANGED <<providers, up, inMemory, op, console, asked>>
        BY <2>3 DEF Console!EditModels, Console!memory
      <3>. QED BY <1>2, <3>1, LimitsStay
    <2>. QED BY <1>2, <2>1, <2>2, <2>3, ConsoleSteps, StartLimits, CrashLimits,
            ReloadAssignLimits, BeginLimits, RefuseLimits, UnwrittenLimits, PutLimits,
            RetargetStepLimits, ResetLimits
  <1>. QED BY <1>1, <1>2, ExemptStays

LEMMA LimitsHold == InCourse /\ Limits => Console!LimitsSurvive
  <1>. SUFFICES ASSUME InCourse, Limits, up, op = Console!Idle, mishaps = {}, NEW n \in asked
                PROVE  inMemory.quota[n] \in {"console", Console!Absent}
    BY DEF Console!LimitsSurvive, Console!Quiet
  <1>1. inMemory.quota[n] # "own" /\ n \in Names
    BY DEF Limits, LimitKept, Exempt, Changing
  <1>. QED BY <1>1 DEF InCourse, ConsoleTypes, Loaded, Console!Entries, Console!Quotas

-----------------------------------------------------------------------------
(* What was deleted *)

NamesGone(names, quota) == \A n \in names \cap Names : quota[n] = Console!Absent
EntriesGone(names, c) ==
    ("model" \in names => c.deps = {}) /\ ("alias" \in names => ~c.alias)

\* Memory knows of every file there is.
Complete == up /\ mishaps = {} => \A f \in Console!Files : Console!Holds(f) => f \in inMemory.from

\* What was deleted in the console is not in the files, nor in what is being written ...
GoneFromProviders ==
    "half" \notin mishaps =>
        IF Changing
        THEN IF op.step = "put" THEN NamesGone(Console!GoneAfter(op.o), op.text)
             ELSE providers # Gone => NamesGone(Console!GoneAfter(op.o), providers)
        ELSE providers # Gone => NamesGone(gone, providers)

GoneFromModels ==
    IF Writing("models") THEN EntriesGone(Console!GoneAfter(op.o), op.text)
    ELSE models # Gone => EntriesGone(gone, models)

\* ... and not in memory, with files of one's own.
GoneFromMemory ==
    up /\ mishaps = {} /\ inMemory.from = Console!Files =>
        NamesGone(gone, inMemory.quota) /\ EntriesGone(gone, inMemory)

Deleted == Complete /\ GoneFromProviders /\ GoneFromModels /\ GoneFromMemory

LEMMA InitDeleted == MCInit => Deleted
  <1>. SUFFICES ASSUME Console!Init PROVE Deleted
    BY DEF MCInit
  <1>1. /\ gone = {} /\ op = Console!Idle /\ inMemory = Console!OnDisk
    BY DEF Console!Init
  <1>2. \A f \in Console!Files : ~Writing(f)
    BY <1>1, AtRest
  <1>. QED BY <1>1, <1>2 DEF Deleted, Complete, GoneFromProviders, GoneFromModels,
          GoneFromMemory, Changing, NamesGone, EntriesGone, Console!OnDisk, Console!Files

\* How operations change what counts as deleted.
LEMMA GoneChanges ==
    ASSUME NEW o \in Orders
    PROVE  /\ Console!FileOf(o) = "models" => Console!GoneAfter(o) \cap Names \subseteq gone
           /\ Console!FileOf(o) = "providers" =>
                /\ "model" \in Console!GoneAfter(o) => "model" \in gone
                /\ "alias" \in Console!GoneAfter(o) => "alias" \in gone
                /\ Console!GoneAfter(o) \subseteq gone \cup
                      (IF o.do \in {"rename", "remove provider"} /\ mishaps = {} THEN {o.n} ELSE {})
                /\ o.do = "provider" => o.n \notin Console!GoneAfter(o)
                /\ o.do = "rename" => o.to \notin Console!GoneAfter(o)
  <1>1. "model" \notin Names /\ "alias" \notin Names
    BY TemplateAssumption
  <1>2. ASSUME Console!FileOf(o) = "models"
        PROVE  Console!GoneAfter(o) \subseteq gone \cup {"model", "alias"}
    <2>1. o.do \in {"model", "merge", "remove model", "alias", "remove alias"}
      BY <1>2 DEF Console!FileOf, Orders, Named
    <2>. QED BY <2>1 DEF Console!GoneAfter
  <1>3. ASSUME Console!FileOf(o) = "providers"
        PROVE  /\ Console!GoneAfter(o) \subseteq gone \cup
                      (IF o.do \in {"rename", "remove provider"} /\ mishaps = {} THEN {o.n} ELSE {})
               /\ o.do = "provider" => o.n \notin Console!GoneAfter(o)
               /\ o.do = "rename" => o.to \notin Console!GoneAfter(o)
               /\ o.n \in Names
    <2>1. o.do \in {"quota", "provider", "rename", "remove provider"} /\ o.n \in Names
      BY <1>3 DEF Console!FileOf, Orders, Named
    <2>. QED BY <2>1 DEF Console!GoneAfter
  <1>. QED BY <1>1, <1>2, <1>3

LEMMA GoneStays ==
    ASSUME NEW o \in Orders, UNCHANGED <<gone, mishaps>>
    PROVE  Console!GoneAfter(o)' = Console!GoneAfter(o)
  BY DEF Console!GoneAfter

\* What is loaded of the files has nothing of what is gone from them.
LEMMA ReadDeleted ==
    ASSUME InCourse, Deleted, op = Console!Idle, "half" \notin mishaps, NEW rows \in Rows,
           UNCHANGED gone, inMemory'.quota = Over(Console!OnDisk.quota, rows),
           inMemory'.deps = Console!OnDisk.deps, inMemory'.alias = Console!OnDisk.alias,
           inMemory'.from = Console!OnDisk.from
    PROVE  GoneFromMemory'
  <1>. SUFFICES ASSUME inMemory'.from = Console!Files
                PROVE  NamesGone(gone', inMemory'.quota) /\ EntriesGone(gone', inMemory')
    BY DEF GoneFromMemory
  <1>1. providers # Gone /\ models # Gone
    BY DEF Console!OnDisk, Console!Holds, Console!Files
  <1>2. ~Changing /\ ~Writing("models")
    BY AtRest DEF Changing, Console!Files
  <1>3. NamesGone(gone, providers) /\ EntriesGone(gone, models)
    BY <1>1, <1>2 DEF Deleted, GoneFromProviders, GoneFromModels
  <1>4. /\ Console!OnDisk.quota = providers /\ Console!OnDisk.deps = models.deps
        /\ Console!OnDisk.alias = models.alias
    BY <1>1 DEF Console!OnDisk
  <1>. QED BY <1>3, <1>4 DEF NamesGone, EntriesGone, Over

\* What an operation leaves in memory.
LEMMA OperationDeleted ==
    ASSUME InCourse, NEW o \in Orders, o.do # "remove alias" => Console!Accepts(o),
           NamesGone(gone, inMemory.quota), EntriesGone(gone, inMemory)
    PROVE  /\ NamesGone(Console!GoneAfter(o), Console!QuotaAfter(o))
           /\ EntriesGone(Console!GoneAfter(o), Console!InMemory(o))
  <1>1. /\ inMemory.quota \in Console!Entries /\ inMemory.alias \in BOOLEAN
        /\ Console!InMemory(o).deps = Console!DepsAfter(o)
        /\ Console!InMemory(o).alias = Console!AliasAfter(o)
    BY InMemoryLoads DEF InCourse, ConsoleTypes, Loaded
  <1>2. CASE Console!FileOf(o) = "providers"
    <2>1. o.do \in {"quota", "provider", "rename", "remove provider"} /\ o.n \in Names
      BY <1>2 DEF Console!FileOf, Orders, Named
    <2>2. Console!AliasAfter(o) = inMemory.alias
      BY <1>2, OtherFile
    <2>3. "model" \in gone => Console!DepsAfter(o) = {}
      BY <2>1 DEF Console!DepsAfter, Console!Renamed, EntriesGone
    <2>4. EntriesGone(Console!GoneAfter(o), Console!InMemory(o))
      BY <1>1, <1>2, <2>2, <2>3, GoneChanges DEF EntriesGone
    <2>5. ASSUME NEW m \in Console!GoneAfter(o) \cap Names
          PROVE  Console!QuotaAfter(o)[m] = Console!Absent
      <3>1. CASE o.do = "quota"
        <4>1. m \in gone /\ inMemory.quota[o.n] # Console!Absent
          BY <1>2, <3>1, GoneChanges DEF Console!Accepts
        <4>2. m # o.n
          BY <4>1 DEF NamesGone
        <4>3. Console!QuotaAfter(o)[m] = inMemory.quota[m]
          BY <1>1, <3>1, <4>2 DEF Console!QuotaAfter, Console!Entries
        <4>. QED BY <4>1, <4>3 DEF NamesGone
      <3>2. CASE o.do = "provider"
        <4>1. m \in gone /\ m # o.n
          BY <1>2, <3>2, GoneChanges
        <4>2. Console!QuotaAfter(o)[m] = inMemory.quota[m]
          BY <1>1, <3>2, <4>1 DEF Console!QuotaAfter, Console!Entries
        <4>. QED BY <4>1, <4>2 DEF NamesGone
      <3>3. CASE o.do \in {"rename", "remove provider"}
        <4>1. /\ m \in gone \cup {o.n} /\ (o.do = "rename" => m # o.to)
          BY <1>2, <3>3, GoneChanges
        <4>2. Console!QuotaAfter(o)[m] = IF m = o.n THEN Console!Absent ELSE inMemory.quota[m]
          BY <1>1, <2>1, <3>3, <4>1 DEF Console!QuotaAfter, Console!Entries
        <4>. QED BY <4>1, <4>2 DEF NamesGone
      <3>. QED BY <2>1, <3>1, <3>2, <3>3
    <2>. QED BY <2>4, <2>5 DEF NamesGone
  <1>3. CASE Console!FileOf(o) = "models"
    <2>1. o.do \in {"model", "merge", "remove model", "alias", "remove alias"}
      BY <1>3 DEF Console!FileOf, Orders, Named
    <2>2. NamesGone(Console!GoneAfter(o), Console!QuotaAfter(o))
      BY <1>3, GoneChanges, OtherFile DEF NamesGone
    <2>3. "model" \in Console!GoneAfter(o) => Console!DepsAfter(o) = {}
      BY <2>1 DEF Console!GoneAfter, Console!DepsAfter, EntriesGone
    <2>4. "alias" \in Console!GoneAfter(o) => ~Console!AliasAfter(o)
      BY <1>1, <2>1 DEF Console!GoneAfter, Console!AliasAfter, EntriesGone
    <2>. QED BY <1>1, <2>2, <2>3, <2>4 DEF EntriesGone
  <1>. QED BY <1>2, <1>3 DEF Console!FileOf

\* What an operation writes.
LEMMA WrittenDeleted ==
    ASSUME InCourse, NEW o \in Orders, Console!Finds(o)
    PROVE  /\ /\ Console!FileOf(o) = "providers" /\ providers \in Console!Entries
              /\ NamesGone(gone, providers)
              => NamesGone(Console!GoneAfter(o), Console!Written(o))
           /\ /\ Console!FileOf(o) = "models" /\ models \in Console!Catalogues
              /\ EntriesGone(gone, models)
              => EntriesGone(Console!GoneAfter(o), Console!Written(o))
  <1>1. ASSUME Console!FileOf(o) = "providers", providers \in Console!Entries,
               NamesGone(gone, providers), NEW m \in Console!GoneAfter(o) \cap Names
        PROVE  Console!Written(o)[m] = Console!Absent
    <2>1. o.do \in {"quota", "provider", "rename", "remove provider"} /\ o.n \in Names
      BY <1>1 DEF Console!FileOf, Orders, Named
    <2>2. CASE o.do = "quota"
      <3>1. m \in gone /\ providers[o.n] # Console!Absent
        BY <1>1, <2>2, GoneChanges DEF Console!Finds
      <3>2. m # o.n
        BY <1>1, <3>1 DEF NamesGone
      <3>3. Console!Written(o)[m] = providers[m]
        BY <1>1, <2>2, <3>2 DEF Console!Written, Console!Entries
      <3>. QED BY <1>1, <3>1, <3>3 DEF NamesGone
    <2>3. CASE o.do = "provider"
      <3>1. m \in gone /\ m # o.n
        BY <1>1, <2>3, GoneChanges
      <3>2. Console!Written(o)[m] = providers[m]
        BY <1>1, <2>3, <3>1 DEF Console!Written, Console!Entries
      <3>. QED BY <1>1, <3>1, <3>2 DEF NamesGone
    <2>4. CASE o.do \in {"rename", "remove provider"}
      <3>1. m \in gone \cup {o.n} /\ (o.do = "rename" => m # o.to)
        BY <1>1, <2>4, GoneChanges
      <3>2. Console!Written(o)[m] = IF m = o.n THEN Console!Absent ELSE providers[m]
        BY <1>1, <2>1, <2>4, <3>1 DEF Console!Written, Console!Entries
      <3>. QED BY <1>1, <3>1, <3>2 DEF NamesGone
    <2>. QED BY <2>1, <2>2, <2>3, <2>4
  <1>2. ASSUME Console!FileOf(o) = "models", models \in Console!Catalogues,
               EntriesGone(gone, models)
        PROVE  EntriesGone(Console!GoneAfter(o), Console!Written(o))
    <2>1. o.do \in {"model", "merge", "remove model", "alias", "remove alias"}
      BY <1>2 DEF Console!FileOf, Orders, Named
    <2>. QED BY <1>2, <2>1 DEF Console!GoneAfter, Console!Written, EntriesGone, Console!Catalogues
  <1>. QED BY <1>1, <1>2 DEF NamesGone

LEMMA NextComplete == ASSUME InCourse, Complete, Console!Next PROVE Complete'
  <1>1. CASE Console!Start
    <2>1. inMemory'.from = Console!OnDisk.from /\ UNCHANGED <<providers, models>>
      <3>1. Console!OnDisk \in Loaded
        BY OnDiskLoads DEF InCourse
      <3>. QED BY <1>1, <3>1 DEF Console!Start, Console!files, Loaded
    <2>. QED BY <2>1 DEF Complete, Console!OnDisk, Console!Holds
  <1>2. CASE Console!ReloadAssign
    <2>1. CASE reload.overtaken
      BY <1>2, <2>1 DEF Console!ReloadAssign, Complete
    <2>2. CASE ~reload.overtaken
      <3>1. reload.text = Console!OnDisk
        BY <1>2, <2>2 DEF Console!ReloadAssign, InCourse, Course
      <3>2. Console!OnDisk \in Loaded /\ console \in Rows
        BY OnDiskLoads DEF InCourse, ConsoleTypes
      <3>3. inMemory'.from = Console!OnDisk.from /\ UNCHANGED <<providers, models>>
        BY <1>2, <3>1, <3>2, OverriddenLoads DEF Console!ReloadAssign, Console!files
      <3>. QED BY <3>3 DEF Complete, Console!OnDisk, Console!Holds
    <2>. QED BY <2>1, <2>2
  <1>3. ASSUME inMemory'.from = inMemory.from, mishaps \subseteq mishaps', up,
               \A f \in Console!Files : Console!Holds(f)' => Console!Holds(f) \/ f \in inMemory.from
        PROVE  Complete'
    BY <1>3 DEF Complete
  <1>4. ASSUME NEW o \in Orders, Console!Begin(o) \/ Console!Refuse(o) \/ Console!Unwritten(o)
        PROVE  Complete'
    <2>1. /\ up /\ mishaps \subseteq mishaps'
          /\ \A f \in Console!Files : Console!Holds(f)' => Console!Holds(f)
      <3>1. CASE Console!Begin(o)
        BY <3>1 DEF Console!Begin, Console!Asked, Console!Rotate, Console!Holds, Console!Files
      <3>2. CASE Console!Refuse(o) \/ Console!Unwritten(o)
        BY <3>2 DEF Console!Refuse, Console!Unwritten, Console!Asked, Console!Done,
           Console!Holds, Console!files
      <3>. QED BY <1>4, <3>1, <3>2
    <2>2. inMemory'.from = inMemory.from
      <3>1. CASE Console!Begin(o)
        BY <3>1 DEF Console!Begin, Console!memory
      <3>2. CASE Console!Refuse(o)
        <4>1. inMemory \in Loaded
          BY DEF InCourse, ConsoleTypes
        <4>. QED BY <3>2, <4>1 DEF Console!Refuse, Loaded
      <3>3. CASE Console!Unwritten(o)
        <4>1. Console!Done(o) \/ inMemory' = inMemory
          BY <3>3 DEF Console!Unwritten, Console!memory
        <4>. QED BY <4>1, DoneTypes DEF InCourse
      <3>. QED BY <1>4, <3>1, <3>2, <3>3
    <2>. QED BY <1>3, <2>1, <2>2
  <1>5. CASE Console!Put
    <2> DEFINE target == IF op.step = "put2" THEN "models" ELSE Console!FileOf(op.o)
    <2>1. /\ up /\ op.o \in Orders
          /\ \A f \in Console!Files : Writing(f) <=> f = target
          /\ \A f \in Console!Files : Console!Holds(f)' <=> (Console!Holds(f) \/ f = target)
      BY <1>5, Placed
    <2> HIDE DEF target
    <2>2. mishaps \subseteq mishaps' /\ (Console!Done(op.o) \/ inMemory' = inMemory)
      BY <1>5 DEF Console!Put, Console!memory, Console!Done
    <2>3. inMemory'.from = inMemory.from
      <3>1. PICK o \in Orders : o = op.o
        BY <2>1
      <3>. QED BY <2>2, <3>1, DoneTypes DEF InCourse
    <2>4. \A f \in Console!Files : Writing(f) => f \in inMemory.from
      BY DEF InCourse, Course
    <2>. QED BY <1>3, <2>1, <2>2, <2>3, <2>4
  <1>6. CASE Console!Retarget
    <2>1. up /\ op # Console!Idle /\ mishaps \subseteq mishaps'
      BY <1>6 DEF Console!Retarget, Console!Done
    <2>2. PICK o \in Orders : o = op.o
      BY <2>1 DEF InCourse, ConsoleTypes
    <2>3. Console!Done(o) \/ inMemory' = inMemory
      BY <1>6, <2>2 DEF Console!Retarget, Console!memory
    <2>4. \/ UNCHANGED <<providers, models>>
          \/ Console!Rotate(o, "put2", [models EXCEPT !.deps = Console!Renamed(@, o)])
      BY <1>6, <2>2 DEF Console!Retarget, Console!files
    <2>5. \A f \in Console!Files : Console!Holds(f)' => Console!Holds(f)
      BY <2>4 DEF Console!Rotate, Console!Holds
    <2>. QED BY <1>3, <2>1, <2>3, <2>5, DoneTypes DEF InCourse
  <1>7. ASSUME NEW n \in Names, Console!ResetProviderLimits(n) PROVE Complete'
    <2>1. inMemory \in Loaded
      BY DEF InCourse, ConsoleTypes
    <2>2. inMemory'.from = inMemory.from
      BY <1>7, <2>1 DEF Console!ResetProviderLimits, Loaded
    <2>. QED BY <1>3, <1>7, <2>2 DEF Console!ResetProviderLimits, Console!files, Console!Holds
  <1>8. CASE Console!EditProviders \/ Console!EditModels
    <2>1. /\ mishaps' = mishaps /\ inMemory' = inMemory /\ up' = up
          /\ \/ "lost" \in mishaps
             \/ providers # Gone /\ models' = models
             \/ models # Gone /\ providers' = providers
      BY <1>8 DEF Console!EditProviders, Console!EditModels, Console!memory
    <2>. QED BY <2>1 DEF Complete, Console!Holds
  <1>9. CASE Console!Crash \/ Console!ReloadRead \/ Console!Peek
    BY <1>9 DEF Console!Crash, Console!ReloadRead, Console!Peek, Console!files, Console!memory,
       Complete, Console!Holds
  <1>. QED BY ConsoleSteps, <1>1, <1>2, <1>4, <1>5, <1>6, <1>7, <1>8, <1>9

\* A rename broken off half way is not made up for.
LEMMA HalfStays == ASSUME Console!Next, "half" \in mishaps PROVE "half" \in mishaps'
  <1>1. ASSUME NEW o \in Orders, Console!Begin(o) \/ Console!Refuse(o) \/ Console!Unwritten(o)
        PROVE  "half" \in mishaps'
    BY <1>1 DEF Console!Begin, Console!Refuse, Console!Unwritten, Console!Done
  <1>2. CASE Console!Start \/ Console!ReloadAssign
    BY <1>2 DEF Console!Start, Console!ReloadAssign, Console!Lasting
  <1>3. CASE \/ Console!Crash \/ Console!ReloadRead \/ Console!Peek
             \/ \E n \in Names : Console!ResetProviderLimits(n)
             \/ Console!EditProviders \/ Console!EditModels
    BY <1>3 DEF Console!Crash, Console!ReloadRead, Console!Peek, Console!ResetProviderLimits,
       Console!EditProviders, Console!EditModels
  <1>4. CASE Console!Put
    BY <1>4 DEF Console!Put, Console!Done
  <1>5. CASE Console!Retarget
    BY <1>5 DEF Console!Retarget, Console!Done
  <1>. QED BY ConsoleSteps, <1>1, <1>2, <1>3, <1>4, <1>5

\* An operation is under way: memory is as it was.
LEMMA UnderWayDeleted ==
    ASSUME NEW o \in Orders, NEW step, NEW text, op' = [o |-> o, step |-> step, text |-> text],
           UNCHANGED <<up, inMemory, gone, mishaps>>, Complete', GoneFromMemory,
           "half" \notin mishaps =>
              IF Console!FileOf(o) = "providers"
              THEN IF step = "put" THEN NamesGone(Console!GoneAfter(o), text)
                   ELSE providers' # Gone => NamesGone(Console!GoneAfter(o), providers')
              ELSE providers' # Gone => NamesGone(gone, providers'),
           IF (IF step = "put" THEN Console!FileOf(o) = "models" ELSE step = "put2")
           THEN EntriesGone(Console!GoneAfter(o), text)
           ELSE models' # Gone => EntriesGone(gone, models')
    PROVE  Deleted'
  <1>1. op'.o = o /\ op'.step = step /\ op'.text = text /\ op' # Console!Idle
    BY DEF Console!Idle
  <1>2. Console!FileOf(op.o)' = Console!FileOf(o)
    BY <1>1 DEF Console!FileOf
  <1>3. /\ Changing' <=> Console!FileOf(o) = "providers"
        /\ Writing("models")' <=> IF step = "put" THEN Console!FileOf(o) = "models"
                                     ELSE step = "put2"
    BY <1>1, <1>2 DEF Changing, Writing
  <1>4. Console!GoneAfter(op.o)' = Console!GoneAfter(o)
    <2>1. Console!GoneAfter(o)' = Console!GoneAfter(o)
      BY GoneStays
    <2>. QED BY <1>1, <2>1
  <1>5. GoneFromProviders'
    BY <1>1, <1>3, <1>4 DEF GoneFromProviders, NamesGone
  <1>6. GoneFromModels'
    BY <1>1, <1>3, <1>4 DEF GoneFromModels, EntriesGone
  <1>7. GoneFromMemory'
    BY DEF GoneFromMemory, NamesGone, EntriesGone
  <1>. QED BY <1>5, <1>6, <1>7 DEF Deleted

\* Between operations.
LEMMA RestsDeleted ==
    ASSUME op' = Console!Idle, Complete', GoneFromMemory',
           "half" \notin mishaps' /\ providers' # Gone => NamesGone(gone', providers'),
           models' # Gone => EntriesGone(gone', models')
    PROVE  Deleted'
  <1>1. ~Changing' /\ ~Writing("models")'
    BY AtRestNext DEF Changing, Console!Files
  <1>. QED BY <1>1 DEF Deleted, GoneFromProviders, GoneFromModels, NamesGone, EntriesGone

\* The end of an operation.
LEMMA DoneDeleted ==
    ASSUME InCourse, NEW o \in Orders, Console!Done(o), op' = Console!Idle, up, Complete',
           o.do # "remove alias" => Console!Accepts(o), GoneFromMemory,
           "half" \notin mishaps /\ providers' # Gone =>
               NamesGone(Console!GoneAfter(o), providers'),
           models' # Gone => EntriesGone(Console!GoneAfter(o), models')
    PROVE  Deleted'
  <1>1. /\ inMemory' = Console!InMemory(o) /\ gone' = Console!GoneAfter(o)
        /\ mishaps \subseteq mishaps'
    BY DEF Console!Done
  <1>2. inMemory'.quota = Console!QuotaAfter(o) /\ inMemory'.from = inMemory.from
    BY <1>1, InMemoryLoads DEF InCourse, ConsoleTypes
  <1>3. GoneFromMemory'
    <2>. SUFFICES ASSUME mishaps' = {}, inMemory'.from = Console!Files
                  PROVE  NamesGone(gone', inMemory'.quota) /\ EntriesGone(gone', inMemory')
      BY DEF GoneFromMemory
    <2>1. NamesGone(gone, inMemory.quota) /\ EntriesGone(gone, inMemory)
      BY <1>1, <1>2 DEF GoneFromMemory
    <2>. QED BY <1>1, <1>2, <2>1, OperationDeleted
  <1>. QED BY <1>1, <1>3, RestsDeleted

LEMMA StartDeleted ==
    ASSUME InCourse, Deleted, Complete', Console!Start PROVE Deleted'
  <1>1. /\ op' = Console!Idle /\ op = Console!Idle
        /\ inMemory' = [Console!OnDisk EXCEPT !.quota =
              [n \in Names |-> IF @[n] # Console!Absent /\ console'[n] # Console!None
                               THEN console'[n] ELSE @[n]]]
        /\ console' = Console!Mirrored(console, Console!OnDisk.quota)
        /\ UNCHANGED <<providers, models, gone>>
        /\ "half" \in mishaps => "half" \in mishaps'
    BY DEF Console!Start, Console!files, Console!Lasting, InCourse, Course
  <1>2. Console!OnDisk \in Loaded
    BY OnDiskLoads DEF InCourse
  <1>3. PICK rows \in Rows : rows = Console!Mirrored(console, Console!OnDisk.quota)
    BY MirroredRows DEF InCourse, ConsoleTypes
  <1>4. /\ inMemory'.quota = Over(Console!OnDisk.quota, rows)
        /\ inMemory'.deps = Console!OnDisk.deps /\ inMemory'.alias = Console!OnDisk.alias
        /\ inMemory'.from = Console!OnDisk.from
    BY <1>1, <1>2, <1>3 DEF Loaded, Over
  <1>5. GoneFromMemory'
    <2>1. CASE "half" \in mishaps
      BY <1>1, <2>1 DEF GoneFromMemory
    <2>2. CASE "half" \notin mishaps
      BY <1>1, <1>4, <2>2, ReadDeleted
    <2>. QED BY <2>1, <2>2
  <1>6. ~Changing /\ ~Writing("models")
    BY <1>1, AtRest DEF Changing, Console!Files
  <1>. QED BY <1>1, <1>5, <1>6, RestsDeleted DEF Deleted, GoneFromProviders, GoneFromModels

LEMMA ReloadAssignDeleted ==
    ASSUME InCourse, Deleted, Complete', Console!ReloadAssign PROVE Deleted'
  <1>1. /\ op' = op /\ op = Console!Idle /\ reload # Console!Idle
        /\ inMemory' = Console!Overridden(reload.text)
        /\ UNCHANGED <<providers, models, gone>>
        /\ "half" \in mishaps => "half" \in mishaps'
        /\ reload.overtaken => mishaps' # {}
    BY DEF Console!ReloadAssign, Console!files, Console!Lasting
  <1>2. GoneFromMemory'
    <2>1. CASE "half" \in mishaps \/ reload.overtaken
      BY <1>1, <2>1 DEF GoneFromMemory
    <2>2. CASE "half" \notin mishaps /\ ~reload.overtaken
      <3>1. reload.text = Console!OnDisk
        BY <1>1, <2>2 DEF InCourse, Course
      <3>2. Console!OnDisk \in Loaded
        BY OnDiskLoads DEF InCourse
      <3>3. PICK rows \in Rows : rows = console
        BY DEF InCourse, ConsoleTypes
      <3>4. /\ inMemory'.quota = Over(Console!OnDisk.quota, rows)
            /\ inMemory'.deps = Console!OnDisk.deps /\ inMemory'.alias = Console!OnDisk.alias
            /\ inMemory'.from = Console!OnDisk.from
        BY <1>1, <3>1, <3>2, <3>3, OverriddenLoads DEF Over
      <3>. QED BY <1>1, <2>2, <3>4, ReadDeleted
    <2>. QED BY <2>1, <2>2
  <1>3. ~Changing /\ ~Writing("models")
    BY <1>1, AtRest DEF Changing, Console!Files
  <1>. QED BY <1>1, <1>2, <1>3, RestsDeleted DEF Deleted, GoneFromProviders, GoneFromModels

LEMMA CrashDeleted == ASSUME InCourse, Deleted, Complete', Console!Crash PROVE Deleted'
  <1>1. /\ up' = FALSE /\ op' = Console!Idle /\ UNCHANGED <<providers, models, gone>>
        /\ op # Console!Idle =>
              mishaps' = mishaps \cup (CASE op.step = "put" -> {"lost"}
                                         [] op.step = "retarget" -> {"half"}
                                         [] op.step = "put2" -> {"lost", "half"})
        /\ mishaps \subseteq mishaps'
    BY DEF Console!Crash, Console!files, Console!history
  <1>2. GoneFromMemory'
    BY <1>1 DEF GoneFromMemory
  <1>3. "half" \notin mishaps' /\ providers # Gone => NamesGone(gone, providers)
    <2>1. CASE ~Changing
      BY <1>1, <2>1 DEF Deleted, GoneFromProviders
    <2>2. CASE Changing /\ op.step = "put"
      BY <2>2 DEF Changing, Writing, InCourse, Course, Console!Holds, Console!Files
    <2>3. CASE Changing /\ op.step # "put"
      <3>1. op # Console!Idle /\ op.step \in {"retarget", "put2"}
        BY <2>3 DEF Changing, InCourse, ConsoleTypes
      <3>. QED BY <1>1, <3>1
    <2>. QED BY <2>1, <2>2, <2>3
  <1>4. models # Gone => EntriesGone(gone, models)
    <2>1. CASE Writing("models")
      BY <2>1 DEF InCourse, Course, Console!Holds, Console!Files
    <2>2. CASE ~Writing("models")
      BY <2>2 DEF Deleted, GoneFromModels
    <2>. QED BY <2>1, <2>2
  <1>. QED BY <1>1, <1>2, <1>3, <1>4, RestsDeleted

LEMMA BeginDeleted ==
    ASSUME InCourse, Deleted, Complete', NEW o \in Orders, Console!Begin(o) PROVE Deleted'
  <1>1. /\ up /\ up' = up /\ op = Console!Idle /\ Console!Accepts(o) /\ Console!Finds(o)
        /\ Console!FileOf(o) \in inMemory.from
        /\ op' = [o |-> o, step |-> "put", text |-> Console!Written(o)]
        /\ Console!FileOf(o) = "providers" => models' = models
        /\ Console!FileOf(o) # "providers" => providers' = providers
        /\ UNCHANGED <<inMemory, gone, mishaps>>
    BY DEF Console!Begin, Console!Asked, Console!Rotate, Console!memory, Console!history
  <1>2. ~Changing /\ ~Writing("models")
    BY <1>1, AtRest DEF Changing, Console!Files
  <1>3. /\ "half" \notin mishaps /\ providers # Gone => NamesGone(gone, providers)
        /\ models # Gone => EntriesGone(gone, models)
    BY <1>2 DEF Deleted, GoneFromProviders, GoneFromModels
  <1>4. Console!FileOf(o) \in Console!Files /\ Console!Holds(Console!FileOf(o))
    BY <1>1, AtRest, WrittenTypes DEF InCourse, Course, ConsoleTypes
  <1>5. /\ Console!FileOf(o) = "providers" => providers # Gone /\ providers \in Console!Entries
        /\ Console!FileOf(o) = "models" => models # Gone /\ models \in Console!Catalogues
    BY <1>4 DEF InCourse, ConsoleTypes, Console!Holds
  <1>6. /\ Console!FileOf(o) = "providers" /\ "half" \notin mishaps =>
             NamesGone(Console!GoneAfter(o), Console!Written(o))
        /\ Console!FileOf(o) = "models" => EntriesGone(Console!GoneAfter(o), Console!Written(o))
    BY <1>1, <1>3, <1>5, WrittenDeleted
  <1>7. Console!FileOf(o) \in {"providers", "models"}
    BY DEF Console!FileOf
  <1>8. GoneFromMemory
    BY DEF Deleted
  <1> DEFINE text == Console!Written(o)
  <1> HIDE DEF text
  <1>9. /\ op' = [o |-> o, step |-> "put", text |-> text]
        /\ Console!FileOf(o) = "providers" /\ "half" \notin mishaps =>
              NamesGone(Console!GoneAfter(o), text)
        /\ Console!FileOf(o) = "models" => EntriesGone(Console!GoneAfter(o), text)
    BY <1>1, <1>6 DEF text
  <1>. QED BY <1>1, <1>3, <1>7, <1>8, <1>9, UnderWayDeleted

\* After a mishap nothing more counts as deleted.
LEMMA GoneShrinks ==
    ASSUME NEW o \in Orders, mishaps # {} PROVE Console!GoneAfter(o) \subseteq gone
  <1>1. o.do \in {"quota", "provider", "rename", "remove provider", "model", "merge",
                  "remove model", "alias", "remove alias"}
    BY DEF Orders, Named
  <1>. QED BY <1>1 DEF Console!GoneAfter

LEMMA RefuseDeleted ==
    ASSUME InCourse, Deleted, Complete', NEW o \in Orders, Console!Refuse(o) PROVE Deleted'
  <1>1. /\ up /\ op = Console!Idle /\ op' = op /\ UNCHANGED <<providers, models, gone>>
        /\ mishaps \subseteq mishaps' /\ ("half" \in mishaps' => "half" \in mishaps)
        /\ mishaps' = {} => inMemory' = inMemory
    BY DEF Console!Refuse, Console!Asked, Console!files, Console!history
  <1>2. ~Changing /\ ~Writing("models")
    BY <1>1, AtRest DEF Changing, Console!Files
  <1>3. GoneFromMemory'
    BY <1>1 DEF Deleted, GoneFromMemory
  <1>. QED BY <1>1, <1>2, <1>3, RestsDeleted DEF Deleted, GoneFromProviders, GoneFromModels

LEMMA UnwrittenDeleted ==
    ASSUME InCourse, Deleted, Complete', NEW o \in Orders, Console!Unwritten(o) PROVE Deleted'
  <1>1. /\ up /\ up' = up /\ op = Console!Idle /\ Console!Accepts(o)
        /\ Console!FileOf(o) \in inMemory.from => Console!NothingToWrite(o)
        /\ UNCHANGED <<providers, models>>
        /\ IF o.do = "rename"
           THEN /\ op' = [o |-> o, step |-> "retarget", text |-> Gone]
                /\ UNCHANGED <<inMemory, gone, mishaps>>
           ELSE Console!Done(o) /\ UNCHANGED op
    BY DEF Console!Unwritten, Console!Asked, Console!files, Console!memory
  <1>2. /\ "half" \notin mishaps /\ providers # Gone => NamesGone(gone, providers)
        /\ models # Gone => EntriesGone(gone, models)
        /\ GoneFromMemory
    BY <1>1, AtRest DEF Deleted, GoneFromProviders, GoneFromModels, Changing, Console!Files
  <1>3. \A f \in Console!Files : Console!Holds(f) /\ f \notin inMemory.from => mishaps # {}
    BY <1>1 DEF Deleted, Complete
  <1>4. "half" \notin mishaps /\ providers # Gone => NamesGone(Console!GoneAfter(o), providers)
    <2>1. CASE Console!FileOf(o) = "models"
      BY <1>2, <2>1, GoneChanges DEF NamesGone
    <2>2. CASE Console!FileOf(o) = "providers" /\ "providers" \in inMemory.from
      <3>1. o.do = "remove provider" /\ providers[o.n] = Console!Absent
        BY <1>1, <2>2 DEF Console!NothingToWrite, Console!FileOf
      <3>. QED BY <1>2, <2>2, <3>1, GoneChanges DEF NamesGone
    <2>3. CASE Console!FileOf(o) = "providers" /\ "providers" \notin inMemory.from
      <3>1. providers # Gone => Console!GoneAfter(o) \subseteq gone
        BY <1>3, <2>3, GoneShrinks DEF Console!Holds, Console!Files
      <3>. QED BY <1>2, <3>1 DEF NamesGone
    <2>. QED BY <2>1, <2>2, <2>3 DEF Console!FileOf
  <1>5. models # Gone => EntriesGone(Console!GoneAfter(o), models)
    <2>1. CASE Console!FileOf(o) = "providers"
      BY <1>2, <2>1, GoneChanges DEF EntriesGone
    <2>2. CASE Console!FileOf(o) = "models" /\ "models" \in inMemory.from
      <3>1. \/ o.do = "remove model" /\ models.deps = {}
            \/ o.do = "remove alias" /\ ~models.alias
        BY <1>1, <2>2 DEF Console!NothingToWrite, Console!FileOf
      <3>. QED BY <1>2, <3>1 DEF EntriesGone, Console!GoneAfter
    <2>3. CASE Console!FileOf(o) = "models" /\ "models" \notin inMemory.from
      <3>1. models # Gone => Console!GoneAfter(o) \subseteq gone
        BY <1>3, <2>3, GoneShrinks DEF Console!Holds, Console!Files
      <3>. QED BY <1>2, <3>1 DEF EntriesGone
    <2>. QED BY <2>1, <2>2, <2>3 DEF Console!FileOf
  <1>6. CASE o.do = "rename"
    <2>1. Console!FileOf(o) = "providers"
      BY <1>6 DEF Console!FileOf
    <2>. QED BY <1>1, <1>2, <1>4, <1>6, <2>1, UnderWayDeleted
  <1>7. CASE o.do # "rename"
    BY <1>1, <1>2, <1>4, <1>5, <1>7, DoneDeleted
  <1>. QED BY <1>6, <1>7

LEMMA PutDeleted ==
    ASSUME InCourse, Deleted, Complete', Console!Put PROVE Deleted'
  <1> DEFINE target == IF op.step = "put2" THEN "models" ELSE Console!FileOf(op.o)
  <1>1. /\ op # Console!Idle /\ up /\ up' = up /\ op.o \in Orders
        /\ op = [o |-> op.o, step |-> op.step, text |-> op.text]
        /\ \A f \in Console!Files : Writing(f) <=> f = target
        /\ target = "providers" => providers' = op.text /\ models' = models
        /\ target = "models" => models' = op.text /\ providers' = providers
    BY Placed
  <1>2. PICK o \in Orders : o = op.o
    BY <1>1
  <1>3. /\ op.step \in {"put", "put2"} /\ (op.step = "put2" => o.do = "rename")
        /\ op.step = "put" => target = Console!FileOf(o)
        /\ op.step = "put2" => target = "models"
        /\ o.do = "rename" => Console!FileOf(o) = "providers"
        /\ target \in {"providers", "models"} /\ Console!FileOf(o) \in {"providers", "models"}
    BY <1>1, <1>2 DEF InCourse, ConsoleTypes, Console!Put, Console!FileOf
  <1>4. Writing("models") <=> target = "models"
    BY <1>1 DEF Console!Files
  <1>5. o.do # "remove alias" => Console!Accepts(o)
    BY <1>1, <1>2 DEF InCourse, Course
  <1> HIDE DEF target
  <1>6. \/ /\ o.do = "rename" /\ op.step = "put" /\ UNCHANGED <<inMemory, gone, mishaps>>
           /\ op' = [op EXCEPT !.step = "retarget", !.text = Gone]
        \/ op' = Console!Idle /\ Console!Done(o) /\ (o.do = "rename" => op.step = "put2")
        \/ /\ o.do = "model" /\ op' = Console!Idle /\ mishaps' = mishaps \cup {"refused"}
           /\ gone' = gone \ {"model"}
    BY <1>2 DEF Console!Put, Console!memory
  <1>7. Changing <=> Console!FileOf(o) = "providers"
    BY <1>1, <1>2 DEF Changing
  <1>8. "half" \notin mishaps /\ providers' # Gone => NamesGone(Console!GoneAfter(o), providers')
    <2>1. CASE Console!FileOf(o) = "models"
      <3>1. providers' = providers /\ ~Changing
        BY <1>1, <1>3, <1>7, <2>1
      <3>2. "half" \notin mishaps /\ providers # Gone => NamesGone(gone, providers)
        BY <3>1 DEF Deleted, GoneFromProviders
      <3>. QED BY <2>1, <3>1, <3>2, GoneChanges DEF NamesGone
    <2>2. CASE Console!FileOf(o) = "providers"
      BY <1>1, <1>2, <1>3, <1>7, <2>2 DEF Deleted, GoneFromProviders
    <2>. QED BY <1>3, <2>1, <2>2
  <1>9. models' # Gone => EntriesGone(Console!GoneAfter(o), models')
    <2>1. CASE target = "models"
      BY <1>1, <1>2, <1>4, <2>1 DEF Deleted, GoneFromModels
    <2>2. CASE target = "providers"
      <3>1. /\ models' = models /\ Console!FileOf(o) = "providers"
            /\ models # Gone => EntriesGone(gone, models)
        BY <1>1, <1>3, <1>4, <2>2 DEF Deleted, GoneFromModels
      <3>. QED BY <3>1, GoneChanges DEF EntriesGone
    <2>. QED BY <1>3, <2>1, <2>2
  <1>10. CASE /\ o.do = "rename" /\ op.step = "put" /\ UNCHANGED <<inMemory, gone, mishaps>>
              /\ op' = [op EXCEPT !.step = "retarget", !.text = Gone]
    <2>1. op' = [o |-> o, step |-> "retarget", text |-> Gone]
      BY <1>1, <1>2, <1>10
    <2>2. Console!FileOf(o) = "providers" /\ models' = models /\ ~Writing("models")
      BY <1>1, <1>3, <1>4, <1>10
    <2>3. models' # Gone => EntriesGone(gone, models')
      BY <2>2 DEF Deleted, GoneFromModels
    <2>4. GoneFromMemory
      BY DEF Deleted
    <2>. QED BY <1>1, <1>8, <1>10, <2>1, <2>2, <2>3, <2>4, UnderWayDeleted
  <1>11. CASE op' = Console!Idle /\ Console!Done(o)
    BY <1>1, <1>5, <1>8, <1>9, <1>11, DoneDeleted DEF Deleted
  <1>12. CASE /\ o.do = "model" /\ op' = Console!Idle /\ mishaps' = mishaps \cup {"refused"}
              /\ gone' = gone \ {"model"}
    <2>1. gone' = Console!GoneAfter(o)
      BY <1>12 DEF Console!GoneAfter
    <2>2. GoneFromMemory'
      BY <1>12 DEF GoneFromMemory
    <2>. QED BY <1>8, <1>9, <1>12, <2>1, <2>2, RestsDeleted
  <1>. QED BY <1>6, <1>10, <1>11, <1>12

LEMMA RetargetStepDeleted ==
    ASSUME InCourse, Deleted, Complete', Console!Retarget PROVE Deleted'
  <1>1. /\ up /\ up' = up /\ op # Console!Idle /\ op.step = "retarget"
    BY DEF Console!Retarget
  <1>2. PICK o \in Orders : o = op.o /\ o.do = "rename"
    BY <1>1 DEF InCourse, ConsoleTypes
  <1>3. Console!FileOf(o) = "providers" /\ Changing /\ ~Writing("models") /\ Console!Accepts(o)
    BY <1>1, <1>2 DEF Console!FileOf, Changing, Writing, InCourse, Course
  <1>4. /\ "half" \notin mishaps /\ providers # Gone => NamesGone(Console!GoneAfter(o), providers)
        /\ models # Gone => EntriesGone(gone, models)
        /\ models # Gone => EntriesGone(Console!GoneAfter(o), models)
        /\ GoneFromMemory
    <2>1. /\ "half" \notin mishaps /\ providers # Gone => NamesGone(Console!GoneAfter(o), providers)
          /\ models # Gone => EntriesGone(gone, models)
          /\ GoneFromMemory
      BY <1>1, <1>2, <1>3 DEF Deleted, GoneFromProviders, GoneFromModels
    <2>. QED BY <1>3, <2>1, GoneChanges DEF EntriesGone
  <1>5. CASE Console!Done(o) /\ op' = Console!Idle /\ UNCHANGED <<providers, models>>
    BY <1>1, <1>3, <1>4, <1>5, DoneDeleted
  <1>6. CASE /\ "models" \in inMemory.from
             /\ Console!Rotate(o, "put2", [models EXCEPT !.deps = Console!Renamed(@, o)])
             /\ UNCHANGED <<inMemory, gone, mishaps>>
    <2> DEFINE text == [models EXCEPT !.deps = Console!Renamed(@, o)]
    <2>1. op' = [o |-> o, step |-> "put2", text |-> text] /\ providers' = providers
      BY <1>6 DEF Console!Rotate
    <2>2. models # Gone /\ models \in Console!Catalogues
      BY <1>1, <1>3, <1>6 DEF InCourse, ConsoleTypes, Course, Console!Holds
    <2>3. EntriesGone(Console!GoneAfter(o), text)
      BY <1>4, <2>2 DEF EntriesGone, Console!Catalogues, Console!Renamed
    <2> HIDE DEF text
    <2>. QED BY <1>1, <1>3, <1>4, <1>6, <2>1, <2>3, UnderWayDeleted
  <1>7. CASE "half" \in mishaps' /\ op' = Console!Idle /\ UNCHANGED <<providers, models, gone>>
    <2>1. GoneFromMemory'
      BY <1>7 DEF GoneFromMemory
    <2>. QED BY <1>4, <1>7, <2>1, RestsDeleted
  <1>. QED
    <2>1. \/ Console!Done(o) /\ op' = Console!Idle /\ UNCHANGED <<providers, models>>
          \/ /\ "models" \in inMemory.from
             /\ Console!Rotate(o, "put2", [models EXCEPT !.deps = Console!Renamed(@, o)])
             /\ UNCHANGED <<inMemory, gone, mishaps>>
          \/ "half" \in mishaps' /\ op' = Console!Idle /\ UNCHANGED <<providers, models, gone>>
      BY <1>2 DEF Console!Retarget, Console!memory, Console!files
    <2>. QED BY <1>5, <1>6, <1>7, <2>1

LEMMA ResetDeleted ==
    ASSUME InCourse, Deleted, Complete', NEW n \in Names, Console!ResetProviderLimits(n)
    PROVE  Deleted'
  <1> DEFINE quota == IF Console!OnDisk.quota[n] = Console!Absent THEN "own"
                      ELSE Console!OnDisk.quota[n]
  <1>1. /\ up /\ op = Console!Idle /\ op' = op /\ inMemory.quota[n] # Console!Absent
        /\ inMemory' = [inMemory EXCEPT !.quota[n] = quota]
        /\ UNCHANGED <<providers, models, gone>>
        /\ mishaps \subseteq mishaps' /\ ("half" \in mishaps' => "half" \in mishaps)
    BY DEF Console!ResetProviderLimits, Console!files
  <1>2. inMemory \in Loaded
    BY DEF InCourse, ConsoleTypes
  <1> HIDE DEF quota
  <1>3. /\ inMemory'.quota = [inMemory.quota EXCEPT ![n] = quota]
        /\ inMemory'.from = inMemory.from /\ inMemory'.deps = inMemory.deps
        /\ inMemory'.alias = inMemory.alias
    BY <1>1, <1>2 DEF Loaded
  <1>4. \A m \in Names : m # n => inMemory'.quota[m] = inMemory.quota[m]
    BY <1>2, <1>3 DEF Loaded, Console!Entries
  <1>5. GoneFromMemory'
    BY <1>1, <1>3, <1>4 DEF Deleted, GoneFromMemory, NamesGone, EntriesGone
  <1>6. ~Changing /\ ~Writing("models")
    BY <1>1, AtRest DEF Changing, Console!Files
  <1>. QED BY <1>1, <1>5, <1>6, RestsDeleted DEF Deleted, GoneFromProviders, GoneFromModels

\* What an editor writes was not deleted.
LEMMA EditDeleted ==
    ASSUME InCourse, Deleted, Complete', Console!EditProviders \/ Console!EditModels
    PROVE  Deleted'
  <1>1. /\ op = Console!Idle /\ op' = op /\ UNCHANGED <<up, inMemory, mishaps>>
        /\ gone' \subseteq gone
        /\ providers' = providers \/ gone' = gone \ Console!Deps(providers')
        /\ models' = models \/ ("model" \notin gone' /\ "alias" \notin gone')
    BY DEF Console!EditProviders, Console!EditModels, Console!memory
  <1>2. GoneFromMemory'
    BY <1>1 DEF Deleted, GoneFromMemory, NamesGone, EntriesGone
  <1>3. ~Changing /\ ~Writing("models")
    BY <1>1, AtRest DEF Changing, Console!Files
  <1>4. /\ "half" \notin mishaps /\ providers # Gone => NamesGone(gone, providers)
        /\ models # Gone => EntriesGone(gone, models)
    BY <1>3 DEF Deleted, GoneFromProviders, GoneFromModels
  <1>5. "half" \notin mishaps' /\ providers' # Gone => NamesGone(gone', providers')
    BY <1>1, <1>4 DEF NamesGone, Console!Deps
  <1>6. models' # Gone => EntriesGone(gone', models')
    BY <1>1, <1>4 DEF EntriesGone
  <1>. QED BY <1>1, <1>2, <1>5, <1>6, RestsDeleted

\* A page that reads the files has changed nothing of all this.
LEMMA PeekDeleted == ASSUME InCourse, Deleted, Complete', Console!Peek PROVE Deleted'
  <1>1. /\ op = Console!Idle /\ op' = op /\ UNCHANGED <<providers, models, gone>>
        /\ mishaps' = mishaps \cup {"peek"}
    BY DEF Console!Peek, Console!files, Console!history
  <1>2. GoneFromMemory'
    BY <1>1 DEF GoneFromMemory
  <1>3. ~Changing /\ ~Writing("models")
    BY <1>1, AtRest DEF Changing, Console!Files
  <1>. QED BY <1>1, <1>2, <1>3, RestsDeleted DEF Deleted, GoneFromProviders, GoneFromModels

LEMMA DeletedStays ==
    ASSUME Deleted, UNCHANGED <<providers, models, up, inMemory, op, gone, mishaps>>
    PROVE  Deleted'
  BY DEF Deleted, Complete, GoneFromProviders, GoneFromModels, GoneFromMemory, Changing, Writing,
     NamesGone, EntriesGone, Console!Holds, Console!FileOf, Console!GoneAfter

LEMMA NextDeleted == ASSUME InCourse, Deleted, Console!Next PROVE Deleted'
  <1>1. Complete'
    BY NextComplete DEF Deleted
  <1>2. CASE Console!ReloadRead
    BY <1>2, DeletedStays DEF Console!ReloadRead, Console!files, Console!history
  <1>. QED BY <1>1, <1>2, ConsoleSteps, StartDeleted, CrashDeleted, ReloadAssignDeleted,
          BeginDeleted, RefuseDeleted, UnwrittenDeleted, PutDeleted, RetargetStepDeleted,
          ResetDeleted, PeekDeleted, EditDeleted

LEMMA DeletedHolds == InCourse /\ Deleted => Console!DeletedNeverReturns
  BY DEF Deleted, GoneFromMemory, NamesGone, EntriesGone, Console!DeletedNeverReturns,
     Console!Quiet

-----------------------------------------------------------------------------
(* The files at every step *)

FilesInv == CourseInv /\ Agrees /\ Sound /\ Limits /\ Deleted

LEMMA InitFiles == MCInit => FilesInv
  BY InitCourse, InitGated, InitAgrees, InitSound, InitLimits, InitDeleted DEF FilesInv, CourseInv

LEMMA FilesRest == ASSUME FilesInv, UNCHANGED consoleVars PROVE FilesInv'
  <1>1. /\ UNCHANGED <<providers, models, stale, up, inMemory, registry, reload, op, console>>
        /\ UNCHANGED <<unread, gone, asked, astray, mishaps, strayed>>
    BY DEF consoleVars
  <1>2. CourseInv'
    BY ConsoleRests DEF FilesInv, CourseInv
  <1>3. Agrees'
    <2>1. Over(providers, console)' = Over(providers, console)
      BY <1>1 DEF Over
    <2>2. RegistryAgrees' <=> RegistryAgrees
      BY <1>1 DEF RegistryAgrees
    <2>3. (QuotasAgree => QuotasAgree') /\ (ModelsAgree => ModelsAgree')
      <3>1. CASE op = Console!Idle
        BY <1>1, <2>1, <3>1 DEF QuotasAgree, ModelsAgree, Writing
      <3>2. CASE op # Console!Idle
        <4>1. PICK o \in Orders : o = op.o /\ o = op'.o
          BY <1>1, <3>2 DEF FilesInv, CourseInv, InCourse, ConsoleTypes
        <4>2. /\ Console!QuotaAfter(o)' = Console!QuotaAfter(o)
              /\ Console!DepsAfter(o)' = Console!DepsAfter(o)
              /\ Console!AliasAfter(o)' = Console!AliasAfter(o)
              /\ Console!InDatabase(o)' = Console!InDatabase(o)
          BY <1>1, OperationStays
        <4>3. /\ Console!QuotaAfter(op.o)' = Console!QuotaAfter(op.o)
              /\ Console!DepsAfter(op.o)' = Console!DepsAfter(op.o)
              /\ Console!AliasAfter(op.o)' = Console!AliasAfter(op.o)
              /\ Console!InDatabase(op.o)' = Console!InDatabase(op.o)
          BY <4>1, <4>2
        <4>4. Console!FileOf(op.o)' = Console!FileOf(op.o)
          BY <1>1 DEF Console!FileOf
        <4>5. Writing("models")' <=> Writing("models")
          BY <1>1, <4>4 DEF Writing
        <4>6. ModelsAgree => ModelsAgree'
          BY <1>1, <4>3, <4>5 DEF ModelsAgree
        <4>7. Over(IF op.step = "put" THEN op.text ELSE providers, Console!InDatabase(op.o))'
               = Over(IF op.step = "put" THEN op.text ELSE providers, Console!InDatabase(op.o))
          BY <1>1, <4>3 DEF Over
        <4>8. QuotasAgree => QuotasAgree'
          BY <1>1, <2>1, <4>3, <4>4, <4>7 DEF QuotasAgree
        <4>. QED BY <4>6, <4>8
      <3>. QED BY <3>1, <3>2
    <2>. QED BY <1>1, <2>2, <2>3 DEF FilesInv, Agrees
  <1>4. Sound'
    BY <1>1 DEF FilesInv, Sound, Writing, Console!FileOf, Console!Holds, Console!OnDisk,
       Console!Deps
  <1>5. Limits'
    <2>1. Exempt => Exempt'
      BY <1>1 DEF Exempt, Writing, Console!FileOf
    <2>. QED BY <1>1, <2>1, LimitsStay DEF FilesInv, CourseInv
  <1>6. Deleted'
    BY <1>1, DeletedStays DEF FilesInv
  <1>. QED BY <1>2, <1>3, <1>4, <1>5, <1>6 DEF FilesInv

LEMMA NextFiles ==
    FilesInv /\ [ReloadNext \/ FilesNext \/ KeysNext]_all => FilesInv'
  <1>. SUFFICES ASSUME FilesInv, [ReloadNext \/ FilesNext \/ KeysNext]_all PROVE FilesInv'
    OBVIOUS
  <1>1. CASE UNCHANGED consoleVars
    BY <1>1, FilesRest
  <1>2. CASE Console!Next
    <2>1. InCourse' /\ Gated'
      BY <1>2, NextCourse, ConsoleGated DEF FilesInv, CourseInv
    <2>. QED BY <1>2, <2>1, NextAgrees, NextSound, NextLimits, NextDeleted DEF FilesInv, CourseInv
  <1>. QED BY <1>1, <1>2 DEF ReloadNext, OnlyReload, FilesNext, KeysNext, all

\* Outside of the known mishaps, and for any number of providers, operations, reloads, edits,
\* crashes and restarts: what the gateway works with is what it would load from its files and
\* its database, a quota set in the console stays set, and what was deleted there stays deleted.
THEOREM MemoryFollowsFiles == MCSpec => []MemoryIsFile
  <1>1. FilesInv => MemoryIsFile
    BY AgreesIsFile, LimitsHold, DeletedHolds DEF FilesInv, CourseInv, MemoryIsFile
  <1>. QED BY <1>1, InitFiles, NextFiles, PTL DEF MCSpec

\* Whatever the console does, and however often the gateway reloads, dies and starts again: as
\* long as no editor writes a file, and outside of the mishaps, the only deployments without a
\* provider are those that a merge put there.
THEOREM DeploymentsStayServed == MCSpec => []DeploymentsHaveProviders
  <1>1. FilesInv => DeploymentsHaveProviders
    BY DEF FilesInv, Sound, DeploymentsHaveProviders, Console!DeploymentsHaveProviders,
       Console!Quiet
  <1>. QED BY <1>1, InitFiles, NextFiles, PTL DEF MCSpec

=============================================================================
