--------------------------- MODULE MCEventCenter ---------------------------
(* The event center with one alert: the queue, the chains, the decisions. *)
EXTENDS EventCenter, TLC

\* Workers and handlers may be exchanged where no fairness is assumed.
Interchangeable == Permutations(Workers) \cup Permutations(Handlers)
=============================================================================
