------------------------------ MODULE BurnerPace ------------------------------
(***************************************************************************)
(* The pace of the burner (scripts/burn_sensenova.py): workers that all    *)
(* pick a key, send a request and pick again; accounts whose number of     *)
(* requests at a time is halved by a 429 and grows when it is quiet, that  *)
(* are lent more when they starve and rest when they are refused too often *)
(* in a row; keys that cool down or are dead.  The credits are             *)
(* BurnerLedger's: here an account is parked for want of them at any time. *)
(*                                                                         *)
(* What happens between two awaits is one step: a worker whose request has *)
(* ended picks its next key before anything else runs.                     *)
(***************************************************************************)
EXTENDS Integers, FiniteSets, Functions, SequencesExt

CONSTANTS
    Accounts,       \* sequence, in the order of the configuration
    KeysOf,         \* the keys of an account, a sequence
    Workers,        \* concurrency
    PerAccount,     \* per_account_max
    ParkAfter,      \* rate_park_after
    MaxUpsets       \* bound: requests that fail and accounts that are parked

Forever == -1
MaxBoost == 2

Accts == Range(Accounts)
Keys == UNION {Range(KeysOf[a]) : a \in Accts}
AccountOf(k) == CHOOSE a \in Accts : k \in Range(KeysOf[a])

VARIABLES
    load,       \* AccountState.inflight
    flight,     \* KeyState.inflight
    asleep,     \* workers that found no key
    cool,       \* [Keys -> Nat], ticks until cooldown_until
    dead,       \* keys with parked_until = inf
    target,     \* AccountState.target, whole while PerAccount is 2
    streak,     \* rate_streak, counted up to ParkAfter
    rest,       \* ticks until rate_park_until
    parked,     \* ticks until parked_until, or Forever
    boost,      \* starve_boost
    frequent,   \* accounts whose last 429 was about the frequency (_last_limit_kind)
    quiet,      \* accounts without a 429 for a minute
    hungry,     \* accounts without a success for starve_after
    over,       \* the process has ended
    upsets

vars == <<load, flight, asleep, cool, dead, target, streak, rest, parked, boost, frequent, quiet,
          hungry, over, upsets>>

TypeOK ==
    /\ load \in [Accts -> 0 .. Workers] /\ flight \in [Keys -> 0 .. Workers]
    /\ asleep \in 0 .. Workers
    /\ cool \in [Keys -> 0 .. 2] /\ dead \subseteq Keys
    /\ target \in [Accts -> 1 .. PerAccount] /\ streak \in [Accts -> 0 .. ParkAfter]
    /\ rest \in [Accts -> 0 .. 2] /\ parked \in [Accts -> {Forever, 0, 1}]
    /\ boost \in [Accts -> 0 .. MaxBoost]
    /\ frequent \subseteq Accts /\ quiet \subseteq Accts /\ hungry \subseteq Accts
    /\ over \in BOOLEAN /\ upsets \in 0 .. MaxUpsets

Init ==
    /\ load = [a \in Accts |-> 0] /\ flight = [k \in Keys |-> 0] /\ asleep = Workers
    /\ cool = [k \in Keys |-> 0] /\ dead = {}
    /\ target = [a \in Accts |-> PerAccount] /\ streak = [a \in Accts |-> 0]
    /\ rest = [a \in Accts |-> 0] /\ parked = [a \in Accts |-> 0]
    /\ boost = [a \in Accts |-> 0] /\ frequent = {} /\ quiet = Accts /\ hungry = {}
    /\ over = FALSE /\ upsets = 0

-----------------------------------------------------------------------------
(* The workers *)

\* The end of the process.
Nothing == load' = [a \in Accts |-> 0] /\ flight' = [k \in Keys |-> 0] /\ asleep' = 0

\* KeyState.available and the filters of pick_key, after what the step has changed.
Usable(k) == cool'[k] = 0 /\ k \notin dead'
Open(a, busy) ==
    /\ busy[a] < target'[a] /\ parked'[a] = 0 /\ rest'[a] = 0
    /\ \E k \in Range(KeysOf[a]) : Usable(k)

\* The first position in seq of an element of S with the fewest requests.
First(seq, S, busy) ==
    CHOOSE i \in DOMAIN seq :
        /\ seq[i] \in S
        /\ \A j \in DOMAIN seq : seq[j] \in S =>
              busy[seq[i]] < busy[seq[j]] \/ (busy[seq[i]] = busy[seq[j]] /\ i <= j)

\* A worker that is free, with busy and keys the requests of the others by account and by key:
\* it ends when all keys are dead, and all end with it; it sends a request, with the key in
\* least use of the open account in least use (pick_key); or it sleeps for half a second.
Picks(busy, keys, sleepers) ==
    LET open == {a \in Accts : Open(a, busy)}
        a == Accounts[First(Accounts, open, busy)]
        k == KeysOf[a][First(KeysOf[a], {x \in Range(KeysOf[a]) : Usable(x)}, keys)]
    IN  \/ dead' = Keys /\ over' = TRUE /\ Nothing
        \/ /\ dead' # Keys /\ open = {} /\ UNCHANGED over
           /\ load' = busy /\ flight' = keys /\ asleep' = sleepers + 1
        \/ /\ dead' # Keys /\ open # {} /\ UNCHANGED over
           /\ load' = [busy EXCEPT ![a] = @ + 1] /\ flight' = [keys EXCEPT ![k] = @ + 1]
           /\ asleep' = sleepers

Wakes ==
    /\ asleep > 0
    /\ UNCHANGED <<cool, dead, target, streak, rest, parked, boost, frequent, quiet, hungry, upsets>>
    /\ Picks(load, flight, asleep - 1)

\* The request with key k has ended; the worker is free.
Goes(k) == Picks([load EXCEPT ![AccountOf(k)] = @ - 1], [flight EXCEPT ![k] = @ - 1], asleep)

-----------------------------------------------------------------------------
(* Answers *)

\* burn_once: a success ends the row of refusals, and what was lent is forgotten.
Succeed(k) ==
    LET a == AccountOf(k) IN
    /\ streak' = [streak EXCEPT ![a] = 0] /\ boost' = [boost EXCEPT ![a] = 0]
    /\ hungry' = hungry \ {a}
    /\ UNCHANGED <<cool, dead, target, rest, parked, frequent, quiet, upsets>>
    /\ Goes(k)

Upset == upsets < MaxUpsets /\ upsets' = upsets + 1

\* _last_limit_kind: the accounts whose last refusal was of the frequency of requests.
LastLimit(a, frequency) == IF frequency THEN frequent \cup {a} ELSE frequent \ {a}

\* on_error, too many requests or tokens: the key cools down, longer when refused again; the
\* account is halved, loses what it was lent, and rests after ParkAfter refusals.
Throttled(k, frequency) ==
    LET a == AccountOf(k)
        n == IF streak[a] < ParkAfter THEN streak[a] + 1 ELSE ParkAfter
        half == IF target[a] < 2 THEN 1 ELSE target[a] \div 2
    IN  /\ Upset
        /\ frequent' = LastLimit(a, frequency)
        /\ boost' = [boost EXCEPT ![a] = 0] /\ target' = [target EXCEPT ![a] = half]
        /\ quiet' = quiet \ {a} /\ streak' = [streak EXCEPT ![a] = n]
        /\ \E t \in {1, 2} : (t = 2 => half > 1) /\ cool' = [cool EXCEPT ![k] = t]
        /\ rest' = IF n >= ParkAfter THEN [rest EXCEPT ![a] = 2] ELSE rest
        /\ UNCHANGED <<dead, parked, hungry>>
        /\ Goes(k)

\* on_error, "entitlement exhausted": the account is parked.
Spent(k) ==
    /\ Upset /\ parked' = [parked EXCEPT ![AccountOf(k)] = 1]
    /\ UNCHANGED <<cool, dead, target, streak, rest, boost, frequent, quiet, hungry>>
    /\ Goes(k)

\* on_error, 401 or 403: the key is dead.
Refused(k) ==
    /\ Upset /\ dead' = dead \cup {k}
    /\ UNCHANGED <<cool, target, streak, rest, parked, boost, frequent, quiet, hungry>>
    /\ Goes(k)

\* Anything else, and what the network does: another key goes on.
Breaks(k) ==
    /\ Upset /\ cool' = [cool EXCEPT ![k] = 1]
    /\ UNCHANGED <<dead, target, streak, rest, parked, boost, frequent, quiet, hungry>>
    /\ Goes(k)

Answered(k) ==
    /\ flight[k] > 0
    /\ Succeed(k) \/ (\E f \in BOOLEAN : Throttled(k, f)) \/ Spent(k) \/ Refused(k) \/ Breaks(k)

-----------------------------------------------------------------------------
(* Beside the workers *)

\* budget_allow: no room in a window, or the absolute limit is reached.
Park(a) ==
    /\ ~over /\ parked[a] = 0 /\ Upset
    /\ \E t \in {1, Forever} : parked' = [parked EXCEPT ![a] = t]
    /\ UNCHANGED <<load, flight, asleep, cool, dead, target, streak, rest, boost, frequent, quiet,
                   hungry, over>>

\* _rebalance_concurrency: a quiet account grows by one, and a starving one is lent one more,
\* twice at most, unless the frequency is what is limited. A resting account takes part.
Grown(a) == IF a \in quiet /\ target[a] < PerAccount THEN target[a] + 1 ELSE target[a]
Lent(a) == a \in hungry /\ boost[a] < MaxBoost /\ a \notin frequent /\ Grown(a) < PerAccount
Rebalance ==
    LET here == {a \in Accts : parked[a] = 0} IN
    /\ target' = [a \in Accts |-> IF a \notin here THEN target[a]
                                  ELSE IF Lent(a) THEN Grown(a) + 1 ELSE Grown(a)]
    /\ boost' = [a \in Accts |-> IF a \in here /\ Lent(a) THEN boost[a] + 1 ELSE boost[a]]

\* periodic_summary: ends when every account has reached the absolute limit.
Summary ==
    /\ ~over
    /\ IF \A a \in Accts : parked[a] = Forever
       THEN over' = TRUE /\ Nothing /\ UNCHANGED <<target, boost>>
       ELSE Rebalance /\ UNCHANGED <<load, flight, asleep, over>>
    /\ UNCHANGED <<cool, dead, streak, rest, parked, frequent, quiet, hungry, upsets>>

Sooner(n) == IF n > 0 THEN n - 1 ELSE n

Tick ==
    /\ ~over
    /\ cool' = [k \in Keys |-> Sooner(cool[k])]
    /\ rest' = [a \in Accts |-> Sooner(rest[a])] /\ parked' = [a \in Accts |-> Sooner(parked[a])]
    /\ quiet' = Accts /\ hungry' \in {hungry, Accts}
    /\ UNCHANGED <<load, flight, asleep, dead, target, streak, boost, frequent, over, upsets>>

Ended == \E k \in Keys : Answered(k)

Next == Wakes \/ Ended \/ (\E a \in Accts : Park(a)) \/ Summary \/ Tick

\* A worker sleeps for half a second, every request ends or times out, time goes on.
Spec == Init /\ [][Next]_vars /\ WF_vars(Wakes) /\ WF_vars(Ended) /\ WF_vars(Summary) /\ WF_vars(Tick)

-----------------------------------------------------------------------------
(* Properties *)

\* Nobody starves: as long as the process runs, every account that can still be used - with a
\* key that works and credits to burn - has a request in flight again and again ([]<>Served),
\* whatever cooled down, rested or was lent in between, as long as there is a worker per
\* account (pick_key; the starvation of 2026-09-28 that _rebalance_concurrency tells of).
Served(a) == over \/ load[a] > 0 \/ parked[a] = Forever \/ Range(KeysOf[a]) \subseteq dead
=============================================================================
