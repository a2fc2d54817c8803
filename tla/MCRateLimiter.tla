--------------------------- MODULE MCRateLimiter ---------------------------
(***************************************************************************)
(* Two keys of one account.  A reload changes the scope of the request     *)
(* rule and leaves the token rule alone.                                   *)
(***************************************************************************)
EXTENDS RateLimiter

CONSTANTS k1, k2, acc

MCAccount == [k \in Keys |-> acc]

Rule(scope, counts, window, max) ==
    [scope |-> scope, counts |-> counts, window |-> window, max |-> max]

MCPlans == {{Rule("account", "requests", 2, 2), Rule("provider", "tokens", 3, 1)},
            {Rule("credential", "requests", 2, 1), Rule("provider", "tokens", 3, 1)}}
=============================================================================
