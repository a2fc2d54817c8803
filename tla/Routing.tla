------------------------------- MODULE Routing -------------------------------
(***************************************************************************)
(* Which deployments a request may go to, and in which order: the rewriting *)
(* of zk-auto (app/routing/agent_auto.py), the alias table (aliases.py),   *)
(* requirements, gates and scores (capability.py), the order of the        *)
(* strategies (strategy.py), the plan (router.py), the session's sticky    *)
(* deployment that the scheduler moves ahead (scheduler.py), and the       *)
(* operator's hot edits of the aliases (app/api/admin/models.py,           *)
(* chatgpt.py).                                                            *)
(*                                                                         *)
(* Weights are ten times the code's.  coding and structured_output are     *)
(* weighed like reasoning and tool_use and are left out, and so is the     *)
(* weighted strategy, which draws lots within a priority.                  *)
(***************************************************************************)
EXTENDS Integers, Sequences, FiniteSets, SequencesExt

CONSTANTS
    Names,          \* alias names; "zk-auto", "zk-long" and "zk-vision" mean something
    Models,
    DeploymentsOf,  \* [Models -> Seq(deployment)], a deployment is a number, in label order
    ProviderOf,     \* [deployment -> provider]
    Caps,           \* [deployment -> [Dims -> 0 .. 10]], effective capabilities
    Priority,       \* [deployment -> Nat]
    Window,         \* [deployment -> context window, in thousands of tokens]
    Asks,           \* [deployment -> [Dims -> Nat]], request_requires
    Direct,         \* [Models -> strategy of a model asked for by its own name]
    Configured,     \* [Names -> alias], the YAML
    MaxDepth,       \* how deep nested aliases are followed (8)
    Offers,         \* the aliases an operator may upsert: a set of <<name, alias>>
    Requests,       \* shapes: [model, image, result, tools, tokens, thinks]
    Limit,          \* ZKAI_MAX_INPUT_TOKENS, in thousands
    MaxOff,         \* bound: models, providers, deployments off or cooling down at a time
    MaxEdits        \* bound: edits of the aliases since the configuration was loaded

Dims == {"reasoning", "tool_use", "long_context", "vision", "speed", "cost"}
Deployments == DOMAIN ProviderOf
Providers == {ProviderOf[d] : d \in Deployments}
None == "none"
Unset == -1     \* a dimension that an alias requires nothing of; it may require 0

Absent == [targets |-> <<>>, enabled |-> FALSE, strategy |-> "priority", pin |-> FALSE,
           front |-> None, requires |-> [n \in Dims |-> Unset], floors |-> [n \in Dims |-> 0]]

Strategies == {"priority", "capability", "cost", "speed", "round_robin"}
AliasType == [targets : Seq(STRING), enabled : BOOLEAN, strategy : Strategies, pin : BOOLEAN,
              front : STRING \cup {None}, requires : [Dims -> Nat \cup {Unset}], floors : [Dims -> Nat]]

\* The fields' types (models/provider.py, models/request.py). Names are not empty.
ASSUME RoutingAssumption ==
    /\ Names \cup Models \subseteq STRING /\ None \notin Models
    /\ IsFiniteSet(Deployments) /\ Deployments \subseteq Nat \ {0}
    /\ Caps \in [Deployments -> [Dims -> Nat]] /\ Asks \in [Deployments -> [Dims -> Nat]]
    /\ Priority \in [Deployments -> Int] /\ Window \in [Deployments -> Nat]
    /\ Direct \in [Models -> Strategies]
    /\ Configured \in [Names -> AliasType] /\ Offers \subseteq Names \X AliasType
    /\ Requests \subseteq [model : STRING, image : BOOLEAN, result : BOOLEAN, tools : BOOLEAN,
                          tokens : Nat, thinks : BOOLEAN]
    /\ Limit \in Nat /\ MaxDepth \in Nat /\ MaxEdits \in Nat

VARIABLES
    aliases,    \* [Names -> alias, Absent when there is none]: the registry
    off,        \* models and providers with enabled: false
    shut,       \* deployments with enabled: false
    parked,     \* deployments the scheduler does not call (cooldown, quarantine)
    sticky,     \* the session's deployment, 0 for none
    edits,      \* aliases edited since the configuration was loaded
    cursor      \* [Models -> Nat], RoundRobinSelection._cursor, shared by all plans

vars == <<aliases, off, shut, parked, sticky, edits, cursor>>

TypeOK ==
    /\ aliases \in [Names -> AliasType]
    /\ off \subseteq Models \cup Providers
    /\ shut \subseteq Deployments /\ parked \subseteq Deployments
    /\ sticky \in Deployments \cup {0}
    /\ edits \in 0 .. MaxEdits
    /\ cursor \in [Models -> Nat]

Present(a) == aliases[a] # Absent
Live(a) == a \in Names /\ aliases[a].enabled

ModelOf(d) == CHOOSE m \in Models : \E i \in DOMAIN DeploymentsOf[m] : DeploymentsOf[m][i] = d

Least(S) == CHOOSE x \in S : \A y \in S : x <= y

\* Python's order of tuples, and a set of them sorted.
Lesser(k, l) ==
    \E i \in DOMAIN k : k[i] < l[i] /\ \A j \in 1 .. i - 1 : k[j] = l[j]

Ascending(K) ==
    CHOOSE s \in [1 .. Cardinality(K) -> K] :
        \A i, j \in DOMAIN s : i < j => Lesser(s[i], s[j])

Picked(s, I) ==  \* what s holds at the places I
    LET places == Ascending({<<i>> : i \in I})
    IN  [n \in DOMAIN places |-> s[places[n][1]]]

-----------------------------------------------------------------------------
(* aliases.py *)

Distinct(s) ==  \* in order of first appearance
    Picked(s, {i \in DOMAIN s : \A j \in 1 .. i - 1 : s[j] # s[i]})

\* What a target stands for, when deeper tells what aliases do.
Meant(t, deeper) == IF t \in Models THEN <<t>> ELSE IF Live(t) THEN deeper[t] ELSE <<>>

\* Nested aliases are followed, but no deeper than MaxDepth.
Nested[depth \in 0 .. MaxDepth + 1] ==
    [a \in Names |->
        IF depth > MaxDepth THEN <<>>
        ELSE Distinct(FlattenSeq([i \in DOMAIN aliases[a].targets |->
                                     Meant(aliases[a].targets[i], Nested[depth + 1])]))]

\* expand: a disabled alias has no models.
Expand(a) == IF Live(a) THEN Nested[0][a] ELSE <<>>

-----------------------------------------------------------------------------
(* agent_auto.py: only zk-auto is rewritten, by the shape of the request *)

\* _servable_aliases: the alias expands to at least one model.
Servable(a) == a \in Names /\ Expand(a) # <<>>

Shape(r) ==
    CASE r.image -> "zk-vision"
      [] ~r.image /\ (r.result \/ r.tokens >= 100 \/ (r.tools /\ r.tokens >= 24)) -> "zk-long"
      [] OTHER -> "zk-auto"

Rewritten(r) ==
    IF r.model # "zk-auto" \/ Shape(r) = "zk-auto" THEN r.model
    ELSE IF Servable(Shape(r)) THEN Shape(r) ELSE "zk-auto"

\* resolve_model_ids: the name of a model goes before that of an alias.
Resolved(name) == IF name \in Models THEN <<name>>
                  ELSE IF name \in Names THEN Expand(name) ELSE <<>>

-----------------------------------------------------------------------------
(* capability.py *)

Greater(x, y) == IF x >= y THEN x ELSE y

\* mutant: pictures in the request are overlooked.
MinimumsOfText(r, alias) ==
    [n \in Dims |->
        IF alias.requires[n] # Unset THEN alias.requires[n]
        ELSE IF \/ n = "tool_use" /\ r.tools
                \/ n = "long_context" /\ r.tokens >= 100 THEN 1 ELSE Unset]

\* The minimums: what the request is made of, overruled by the alias, by a 0 too.
Minimums(r, alias) ==
    [n \in Dims |->
        IF alias.requires[n] # Unset THEN alias.requires[n]
        ELSE IF \/ n = "vision" /\ r.image
                \/ n = "tool_use" /\ r.tools
                \/ n = "long_context" /\ r.tokens >= 100 THEN 1 ELSE Unset]

Baseline == [reasoning |-> 10, tool_use |-> 2, long_context |-> 3, vision |-> 0,
             speed |-> 4, cost |-> 4]

\* The weights: a gate weighs 8 at least, an alias only ever raises them.
Weights(r, alias) ==
    LET raised(n) == IF \/ n = "reasoning" /\ (r.image \/ r.thinks)
                        \/ n = "long_context" /\ r.tokens >= 24 THEN 50 ELSE Baseline[n]
        gated(n) == IF Minimums(r, alias)[n] # Unset THEN Greater(raised(n), 80) ELSE raised(n)
    IN  [n \in Dims |-> Greater(gated(n), 10 * alias.floors[n])]

Fits(d, r) == 10 * Window[d] >= 9 * r.tokens

\* score_candidate's gates. open: the request's minimums and the deployment's demands on
\* the request are waived (the safety valve of plan).
Passes(d, r, alias, open) ==
    /\ Fits(d, r) /\ d \notin shut
    /\ open \/ \A n \in Dims : /\ Caps[d][n] >= Minimums(r, alias)[n]
                               /\ Weights(r, alias)[n] >= 10 * Asks[d][n]

Total(f) == f.reasoning + f.tool_use + f.long_context + f.vision + f.speed + f.cost

Bonus(d) == IF Priority[d] < 0 THEN 0 ELSE IF Priority[d] < 100 THEN Priority[d] ELSE 100

\* The weighted mean of the capabilities plus a small bonus for the priority, times 20000
\* and the sum of the weights w.
Score(d, w) == 2000 * Total([n \in Dims |-> w[n] * Caps[d][n]]) + Bonus(d) * 10 * Total(w)

-----------------------------------------------------------------------------
(* strategy.py *)

Index(d, ids) == CHOOSE i \in DOMAIN ids : ids[i] = ModelOf(d)

\* By what a strategy sorts, given the score and the place of the model among the targets.
\* Only capability heeds the pin.
Key(d, alias, strategy, score, place) ==
    CASE strategy = "priority" -> <<place, -Priority[d], d>>
      [] strategy = "cost" -> <<-Caps[d].cost, -score, d>>
      [] strategy = "speed" -> <<-Caps[d].speed, -score, d>>
      [] strategy = "round_robin" -> <<-Priority[d], -score, d>>
      [] OTHER -> <<IF alias.pin /\ place > 1 THEN 1 ELSE 0, -score, -Priority[d], d>>

\* A key ends with its deployment.
Sorted(S, r, alias, strategy, ids) ==
    LET keys == Ascending({Key(d, alias, strategy, Score(d, Weights(r, alias)), Index(d, ids)) :
                              d \in S})
    IN  [n \in DOMAIN keys |-> keys[n][Len(keys[n])]]

Rotated(s, n) == SubSeq(s, n + 1, Len(s)) \o SubSeq(s, 1, n)

\* Whose cursor turns the candidates s: that of the first one's model, in a round robin only.
Turner(s, strategy) ==
    IF strategy = "round_robin" /\ s # <<>> THEN ModelOf(s[1]) ELSE None

\* The eligible candidates in the order of their attempts.
Turned(s, turner) == IF turner = None THEN s ELSE Rotated(s, cursor[turner] % Len(s))

-----------------------------------------------------------------------------
(* router.py *)

AliasFor(name) == IF name \notin Models /\ Live(name) THEN aliases[name] ELSE Absent

Candidates(ids) ==
    {d \in Deployments : /\ \E i \in DOMAIN ids : ids[i] = ModelOf(d)
                         /\ ModelOf(d) \notin off /\ ProviderOf[d] \notin off}

StrategyFor(name) == IF name \in Models THEN Direct[name] ELSE aliases[name].strategy

Ahead(s, i, at) ==  \* list.insert(at, list.pop(i))
    [j \in DOMAIN s |-> IF j = at THEN s[i] ELSE IF at < j /\ j <= i THEN s[j - 1] ELSE s[j]]

\* _promote_front_model: the first of the front model's eligible deployments that is called.
FrontAt(s, alias) == {i \in DOMAIN s : ModelOf(s[i]) = alias.front /\ s[i] \notin parked}

Promoted(s, alias) ==
    IF FrontAt(s, alias) = {} THEN s ELSE Ahead(s, Least(FrontAt(s, alias)), 1)

\* The deployments of the chain that pass; the gates are waived when none does.
Strict(ids, r, alias) == {d \in Candidates(ids) : Passes(d, r, alias, FALSE)}

Eligible(strict, ids, r, alias) ==
    IF strict # {} THEN strict ELSE {d \in Candidates(ids) : Passes(d, r, alias, TRUE)}

\* The plan made of the sorted candidates s, when turner's cursor turns them: the order of
\* the attempts, what is said of the front model, and whether the gates were waived. The
\* strategy and the front model are applied when they are, too, and what came of the front
\* model is then not said.
Made(name, alias, open, turner, s) ==
    [name |-> name, open |-> open, turner |-> turner, order |-> Promoted(s, alias),
     said |-> IF ~open /\ FrontAt(s, alias) # {} THEN alias.front ELSE None]

Ranked(name, alias, open, strategy, s) ==
    Made(name, alias, open, Turner(s, strategy), Turned(s, Turner(s, strategy)))

PlanFor(r, name, ids, alias, strict) ==
    Ranked(name, alias, strict = {}, StrategyFor(name),
           Sorted(Eligible(strict, ids, r, alias), r, alias, StrategyFor(name), ids))

\* plan: no order when the request is refused.
PlanOf(r, name) ==
    IF Candidates(Resolved(name)) = {}
    THEN [name |-> name, open |-> FALSE, turner |-> None, order |-> <<>>, said |-> None]
    ELSE PlanFor(r, name, Resolved(name), AliasFor(name),
                 Strict(Resolved(name), r, AliasFor(name)))

Plan(r) == PlanOf(r, Rewritten(r))

\* Every plan moves the cursor of a round robin, whoever asked for it.
CursorAfter(p) ==
    IF p.turner = None THEN cursor
    ELSE [cursor EXCEPT ![p.turner] = ((@ % Len(p.order)) + 1) % Len(p.order)]

-----------------------------------------------------------------------------
(* scheduler.py *)

\* mutant: the sticky deployment goes first in any case.
PinsNothing(name) == FALSE

\* _alias_pins_front
Pins(name) == name \notin Models /\ Live(name) /\ aliases[name].pin

\* _apply_deployment_affinity
Attempts(p) ==
    LET at == IF Pins(p.name) THEN 2 ELSE 1
        here == {i \in DOMAIN p.order : i > at /\ p.order[i] = sticky /\ sticky \notin parked}
    IN  IF here = {} THEN p.order ELSE Ahead(p.order, Least(here), at)

Called(p) == Range(Attempts(p)) \ parked

-----------------------------------------------------------------------------
Init ==
    /\ aliases = Configured
    /\ off = {} /\ shut = {} /\ parked = {}
    /\ sticky = 0
    /\ edits = 0
    /\ cursor = [m \in Models |-> 0]

\* A request of the session is answered by one of the deployments called.
Serve(r) ==
    /\ \E p \in {Plan(r)} :
          /\ \E d \in Called(p) : sticky' = d
          /\ cursor' = CursorAfter(p)
    /\ UNCHANGED <<aliases, off, shut, parked, edits>>

\* The input size guard asks for a plan of its own, and the console for a preview.
Ask(r) ==
    /\ r.tokens > Limit
    /\ \E p \in {Plan(r)} : cursor' = CursorAfter(p)
    /\ UNCHANGED <<aliases, off, shut, parked, edits, sticky>>

Forget ==
    /\ sticky # 0 /\ sticky' = 0
    /\ UNCHANGED <<aliases, off, shut, parked, edits, cursor>>

Edit == edits < MaxEdits /\ edits' = edits + 1

\* POST /admin/aliases: the targets must be known, and the front model one of them.
Upsert(a, alias) ==
    /\ Edit
    /\ \A i \in DOMAIN alias.targets :
        alias.targets[i] \in Models \/ (alias.targets[i] \in Names /\ Present(alias.targets[i]))
    /\ alias.front # None => Contains(alias.targets, alias.front)
    /\ aliases' = [aliases EXCEPT ![a] = alias]
    /\ UNCHANGED <<off, shut, parked, sticky, cursor>>

Delete(a) ==
    /\ Edit /\ Present(a)
    /\ aliases' = [aliases EXCEPT ![a] = Absent]
    /\ UNCHANGED <<off, shut, parked, sticky, cursor>>

\* POST /admin/chatgpt: the model leads zk-auto, pinned; a front model is dropped.
HotSwap(m) ==
    /\ Edit /\ Present("zk-auto")
    /\ m \in Models \ off \/ (m # "zk-auto" /\ Live(m))
    /\ LET old == aliases["zk-auto"]
       IN  aliases' = [aliases EXCEPT !["zk-auto"] =
                [old EXCEPT !.targets = <<m>> \o Picked(@, {i \in DOMAIN @ : @[i] # m}),
                            !.enabled = TRUE, !.pin = TRUE, !.front = None]]
    /\ UNCHANGED <<off, shut, parked, sticky, cursor>>

\* The edits went to the YAML as well; the operator takes them back and it is loaded again.
Reload ==
    /\ aliases' = Configured /\ edits' = 0
    /\ UNCHANGED <<off, shut, parked, sticky, cursor>>

Few == Cardinality(off') + Cardinality(shut') + Cardinality(parked') <= MaxOff

Switch(x) ==
    /\ off' = IF x \in off THEN off \ {x} ELSE off \cup {x}
    /\ UNCHANGED <<aliases, shut, parked, sticky, edits, cursor>> /\ Few

SwitchDeployment(d) ==
    /\ shut' = IF d \in shut THEN shut \ {d} ELSE shut \cup {d}
    /\ UNCHANGED <<aliases, off, parked, sticky, edits, cursor>> /\ Few

\* A failure parks a deployment; time releases it.
Park(d) ==
    /\ parked' = IF d \in parked THEN parked \ {d} ELSE parked \cup {d}
    /\ UNCHANGED <<aliases, off, shut, sticky, edits, cursor>> /\ Few

Next ==
    \/ \E r \in Requests : Serve(r) \/ Ask(r)
    \/ \E o \in Offers : Upsert(o[1], o[2])
    \/ \E a \in Names : Delete(a)
    \/ \E m \in Models \cup Names : HotSwap(m)
    \/ \E x \in Models \cup Providers : Switch(x)
    \/ \E d \in Deployments : SwitchDeployment(d) \/ Park(d)
    \/ Forget \/ Reload

Spec == Init /\ [][Next]_vars

-----------------------------------------------------------------------------
(* Properties. Each speaks of every request that could arrive in a state. *)

\* The enabled aliases that a leads to, by at most n steps.
Leads(a, b) == Contains(aliases[a].targets, b)
Further(S) == S \cup {t \in Names \ Models : Live(t) /\ \E a \in S : Leads(a, t)}
Reach(a) ==
    LET within[n \in 0 .. MaxDepth] == IF n = 0 THEN {b \in {a} : Live(b)} ELSE Further(within[n - 1])
    IN  within[MaxDepth]

\* An alias stands for the models that its targets, through at most MaxDepth more
\* enabled aliases, lead to, each once, whatever cycles there are: the reference is reachability.
ExpandIsReach ==
    \A a \in Names :
        /\ Range(Expand(a)) = {m \in Models : \E b \in Reach(a) : Leads(b, m)}
        /\ IsInjective(Expand(a))

\* A deployment that can be tried now, gates or not.
Ready(d, r) == Fits(d, r) /\ d \notin shut

\* The exception to what follows: zk-auto was rewritten, by the shape of the request, to an
\* alias that names models, and nothing that it names can be tried. There is no way back.
Stranded(r) ==
    /\ Rewritten(r) # r.model /\ Resolved(Rewritten(r)) # <<>>
    /\ \A d \in Candidates(Resolved(Rewritten(r))) : ~Ready(d, r)

\* Neither gates nor rewriting refuse a request: while something that its own model name or
\* the rewritten one stands for can be tried, there is a plan, unless the request is stranded;
\* and what is tried are those that pass the gates if any does, each once.
NobodyIsRefused ==
    \A r \in Requests : \A p \in {Plan(r)} :
        LET own == Candidates(Resolved(r.model))
            all == Candidates(Resolved(p.name))
            tried == {p.order[i] : i \in DOMAIN p.order}
            good == {d \in all : Passes(d, r, AliasFor(p.name), FALSE)}
        IN  /\ (\E d \in own \cup all : Ready(d, r)) => tried # {} \/ Stranded(r)
            /\ good # {} => tried = good
            /\ Len(p.order) = Cardinality(tried)

\* A picture goes first to a deployment that sees, whatever aliases are missing or off,
\* whatever the operator put in front and wherever the session was before; to a blind one
\* only when no candidate that sees passes the gates, or the alias says vision: 0.
ImagesAreSeen ==
    \A r \in Requests : \A p \in {Plan(r)} :
        LET tries == Attempts(p)
            blind == {i \in DOMAIN tries : Caps[tries[i]].vision = 0}
        IN  r.image /\ blind # {} /\ AliasFor(p.name).requires.vision # 0 =>
                \A d \in Candidates(Resolved(p.name)) :
                    Caps[d].vision > 0 => ~Passes(d, r, AliasFor(p.name), FALSE)

\* A pin is an order: under a strategy that heeds it, the first attempt goes to the model
\* the operator put first, ahead of better scores and of the session's deployment, unless
\* that model has no candidate to try or a front model is set.
OperatorLeads ==
    \A r \in Requests : \A p \in {Plan(r)} :
        LET chain == Resolved(p.name)
            alias == AliasFor(Rewritten(r))
        IN  alias.pin /\ alias.front = None /\ alias.strategy \in {"priority", "capability"}
              /\ (\E i \in DOMAIN p.order : ModelOf(p.order[i]) = chain[1])
            => ModelOf(Attempts(p)[1]) = chain[1]

\* What the routing reason says of the front model is so: it is called before any other, but
\* for the session's deployment, which goes ahead of it where the alias has no pin_first; and
\* it is not passed over in silence while it could be called.
FrontIsTruthful ==
    \A r \in Requests : \A p \in {Plan(r)} :
        LET tries == Attempts(p)
        IN  IF p.said # None
            THEN \E i \in DOMAIN tries :
                    /\ ModelOf(tries[i]) = p.said /\ tries[i] \notin parked
                    /\ \A j \in 1 .. i - 1 : tries[j] = sticky /\ ~Pins(p.name)
            ELSE p.open \/ \A i \in DOMAIN tries :
                    ModelOf(tries[i]) = AliasFor(p.name).front => tries[i] \in parked
=============================================================================
