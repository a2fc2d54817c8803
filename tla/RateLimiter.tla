---------------------------- MODULE RateLimiter ----------------------------
(***************************************************************************)
(* The quotas a provider is kept under (app/routing/limits.py), with the   *)
(* requests the scheduler admits, the loop that writes the counters to     *)
(* data/rate_limits.json (app/core/container.py), configuration reloads    *)
(* and restarts.                                                           *)
(*                                                                         *)
(* One provider.  A rule that caps requests and tokens is two rules here   *)
(* that cap one each: they share the bucket's key but no list of it.  A    *)
(* list of timestamps is a function from age, in units of time, to how     *)
(* many there are of that age; a response costs one unit of tokens.        *)
(***************************************************************************)
EXTENDS Naturals, FiniteSets

CONSTANTS
    None,
    Keys, Account,      \* credentials, the account tag of each, or None
    Requests,           \* requests that may be in flight together
    Plans,              \* the sets of rules the provider may be configured with
    Longest,            \* the longest window
    Period,             \* _RATE_LIMIT_FLUSH_SECONDS
    Keep,               \* how many entries of a list are written (5000)
    MaxBurst,           \* bound: admissions of one key in one unit of time
    MaxEdits,           \* bound: changes of the rules in a behaviour
    MaxRestarts         \* bound: restarts in a behaviour

AllRules == UNION Plans
Ages == 0..(Longest - 1)

ASSUME LimiterAssumption ==
    /\ IsFiniteSet(Keys) /\ IsFiniteSet(Requests)
    /\ \A plan \in Plans : IsFiniteSet(plan)
    /\ {Longest, Period, Keep, MaxBurst} \subseteq Nat \ {0}
    /\ {MaxEdits, MaxRestarts} \subseteq Nat
    /\ AllRules \subseteq [scope : {"credential", "account", "provider"},
                           counts : {"requests", "tokens"},
                           window : 1..Longest, max : Nat \ {0}]

\* The part of the bucket key that tells buckets of one scope apart.
Who(scope, k) ==
    CASE scope = "provider" -> None
      [] scope = "account"  -> IF Account[k] = None THEN k ELSE Account[k]
      [] scope = "credential" -> k

CounterOf(rule, k) == [scope |-> rule.scope, window |-> rule.window,
                       counts |-> rule.counts, who |-> Who(rule.scope, k)]
Counters == {CounterOf(rule, k) : rule \in AllRules, k \in Keys}

VARIABLES
    rules,      \* _rules
    ledger,     \* _buckets: how many entries of each age a counter has
    dirty,      \* _dirty
    saved,      \* data/rate_limits.json
    phase,      \* time since the flush loop last woke up
    flight,     \* the key each request was admitted on, or None
    edits, restarts,
    sent,       \* history: how many requests of each age were sent with a key
    since,      \* history: how long the limiter has kept count for a rule
    whole       \* history: the last write was a success and left nothing out

vars == <<rules, ledger, dirty, saved, phase, flight, edits, restarts, sent, since, whole>>
disk == <<saved, whole>>

Lists == [Ages -> Nat]

TypeOK ==
    /\ rules \in Plans
    /\ ledger \in [Counters -> Lists] /\ saved \in [Counters -> Lists]
    /\ dirty \in BOOLEAN /\ whole \in BOOLEAN
    /\ phase \in 0..Period
    /\ flight \in [Requests -> Keys \cup {None}]
    /\ edits \in 0..MaxEdits /\ restarts \in 0..MaxRestarts
    /\ sent \in [Keys -> Lists]
    /\ since \in [AllRules -> 0..Longest]

Empty == [a \in Ages |-> 0]
NoneInFlight == [r \in Requests |-> None]

Init ==
    /\ rules \in Plans
    /\ ledger = [c \in Counters |-> Empty] /\ saved = ledger
    /\ dirty = FALSE /\ whole = TRUE
    /\ phase = 0 /\ flight = NoneInFlight
    /\ edits = 0 /\ restarts = 0
    /\ sent = [k \in Keys |-> Empty]
    /\ since = [rule \in AllRules |-> IF rule \in rules THEN rule.window ELSE 0]

-----------------------------------------------------------------------------
(* Accounting *)

\* The entries of a list that are younger than the window, numbered at each age.
Entries(list, window) == UNION {{a} \X (1..list[a]) : a \in 0..(window - 1)}

Recent(list, window) == Cardinality(Entries(list, window))

\* mutant: a window that has just been spent is not full yet.
HasRoomAtMax(rule, k) == Recent(ledger[CounterOf(rule, k)], rule.window) <= rule.max

HasRoom(rule, k) == Recent(ledger[CounterOf(rule, k)], rule.window) < rule.max

\* One rule may find several entries of a call: as many as rules share its counter.
Counted(k, what) ==
    [c \in Counters |->
        [ledger[c] EXCEPT ![0] = @ + Cardinality({rule \in rules :
                                       rule.counts = what /\ CounterOf(rule, k) = c})]]

\* Whether the pool offers the key and the limiter admits it.
Open(k) == \A rule \in rules : HasRoom(rule, k)

\* Without rules nothing is written down.
Admit(r, k) ==
    /\ flight[r] = None /\ sent[k][0] < MaxBurst
    /\ Open(k)
    /\ ledger' = Counted(k, "requests")
    /\ dirty' = (dirty \/ rules # {})
    /\ flight' = [flight EXCEPT ![r] = k]
    /\ sent' = [sent EXCEPT ![k][0] = @ + 1]
    /\ UNCHANGED <<rules, disk, phase, edits, restarts, since>>

TokenRules == {rule \in rules : rule.counts = "tokens"}

\* mutant: only admissions mark the counters as changed.
TouchedNever == UNCHANGED dirty

Touched == dirty' = (dirty \/ TokenRules # {})

\* The key's response came with its usage.
Respond(r) ==
    /\ flight[r] # None
    /\ ledger' = Counted(flight[r], "tokens")
    /\ Touched
    /\ flight' = [flight EXCEPT ![r] = None]
    /\ UNCHANGED <<rules, disk, phase, edits, restarts, sent, since>>

\* The call failed, was cancelled or had no usage: the admission is not given back.
EndWithoutUsage(r) ==
    /\ flight[r] # None
    /\ flight' = [flight EXCEPT ![r] = None]
    /\ UNCHANGED <<rules, ledger, dirty, disk, phase, edits, restarts, sent, since>>

-----------------------------------------------------------------------------
(* The file *)

\* The Keep youngest entries: those with fewer than Keep before them.
Newest(list) == [a \in Ages |-> Cardinality({i \in 1..list[a] : Recent(list, a) + i <= Keep})]

\* The counters are called clean before they are written, which may fail.
Flush ==
    IF dirty
    THEN \/ /\ saved' = [c \in Counters |-> Newest(ledger[c])]
            /\ whole' = (saved' = ledger)
         \/ /\ whole' = FALSE
            /\ UNCHANGED saved
    ELSE UNCHANGED disk

Wake ==
    /\ phase = Period
    /\ Flush
    /\ dirty' = FALSE /\ phase' = 0
    /\ UNCHANGED <<rules, ledger, flight, edits, restarts, sent, since>>

\* A new process loads the file.  What was in flight is gone.
Load ==
    /\ restarts < MaxRestarts /\ restarts' = restarts + 1
    /\ ledger' = saved'
    /\ dirty' = FALSE /\ phase' = 0 /\ whole' = TRUE
    /\ flight' = NoneInFlight
    /\ since' = [rule \in AllRules |-> 0]
    /\ UNCHANGED <<rules, edits, sent>>

Crash == UNCHANGED saved /\ Load

Shutdown ==
    /\ saved' \in {saved} \cup (IF dirty THEN {[c \in Counters |-> Newest(ledger[c])]} ELSE {})
    /\ Load

-----------------------------------------------------------------------------
(* Rules and time *)

CountersKept == UNCHANGED ledger

\* A reload may change the rules; those it leaves alone go on counting.
Configure ==
    /\ edits < MaxEdits /\ edits' = edits + 1
    /\ rules' \in Plans
    /\ CountersKept
    /\ since' = [rule \in AllRules |-> IF rule \in rules \cap rules' THEN since[rule] ELSE 0]
    /\ UNCHANGED <<dirty, disk, phase, flight, restarts, sent>>

\* mutant: what is beyond the window stays in the list.
OlderKept(list, window) ==
    [a \in Ages |-> IF a = 0 THEN 0
                    ELSE IF a = window - 1 THEN list[a - 1] + list[a] ELSE list[a - 1]]

\* Every entry is a unit older; what is beyond the window is dropped.  The code drops it
\* when it looks at the list the next time.
Older(list, window) ==
    [a \in Ages |-> IF a = 0 \/ a >= window THEN 0 ELSE list[a - 1]]

\* The loop wakes up when it is due.
Due == phase < Period /\ phase' = phase + 1

Tick ==
    /\ Due
    /\ ledger' = [c \in Counters |-> Older(ledger[c], c.window)]
    /\ saved' = [c \in Counters |-> Older(saved[c], c.window)]
    /\ sent' = [k \in Keys |-> Older(sent[k], Longest)]
    /\ since' = [rule \in AllRules |-> IF rule \in rules /\ since[rule] < rule.window
                                      THEN since[rule] + 1 ELSE since[rule]]
    /\ UNCHANGED <<rules, dirty, flight, edits, restarts, whole>>

Next ==
    \/ \E r \in Requests : \/ \E k \in Keys : Admit(r, k)
                           \/ Respond(r) \/ EndWithoutUsage(r)
    \/ Wake \/ Crash \/ Shutdown \/ Configure \/ Tick

Spec == Init /\ [][Next]_vars

\* Time passes and the flush loop runs; nobody has to send anything.
FairSpec == Spec /\ WF_vars(Tick) /\ WF_vars(Wake)

-----------------------------------------------------------------------------
(* Properties *)

\* The limiter has kept count for the rule for a whole window.
Settled(rule) == since[rule] = rule.window

Sharing(rule, k) == {other \in Keys : CounterOf(rule, other) = CounterOf(rule, k)}
SentWithin(rule, k, window) ==
    UNION {{other} \X Entries(sent[other], window) : other \in Sharing(rule, k)}
SentFor(rule, k) == Cardinality(SentWithin(rule, k, rule.window))

\* The provider never sees more admitted requests in a window than the rule allows, from
\* all the keys of the bucket together, however many rules a key is under and however
\* often the configuration is reloaded meanwhile: a reload that leaves a rule alone does
\* not reopen its window.  (Restarts, and rules that are new, need a window to settle.)
QuotaHeld ==
    \A rule \in rules, k \in Keys :
        rule.counts = "requests" /\ Settled(rule) => SentFor(rule, k) <= rule.max

\* Usage is known only after a response, so a token cap may be exceeded; but by no more
\* than the requests that were in flight when it was reached, and reaching it stops the
\* keys of the bucket whatever happens to those requests.
OvershootIsInFlight ==
    \A rule \in rules, k \in Keys :
        rule.counts = "tokens" /\ Settled(rule) =>
            Recent(ledger[CounterOf(rule, k)], rule.window) < rule.max + Cardinality(Requests)

\* Both kinds of cap (RateLimiter.acquire, release).
QuotasHold == QuotaHeld /\ OvershootIsInFlight

\* What a crash at any moment loses is at most the last period of the flush loop, unless
\* the last write failed or a list was too long for the file ("losing a minute of counters
\* just means the limiter re-admits a little early"): a change always makes a write due,
\* and between two writes nothing else is lost, over restarts and reloads.
LossIsRecent ==
    whole => \A c \in Counters, a \in Ages :
                 a > phase \/ ~dirty => saved[c][a] = ledger[c][a]

\* No key stays refused for ever: windows slide on, also when nobody looks at them, and
\* whatever a restart or a reload has put into them.
WindowsReopen == \A k \in Keys : []<>Open(k)

=============================================================================
