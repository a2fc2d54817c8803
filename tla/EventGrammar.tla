---------------------------- MODULE EventGrammar ----------------------------
(***************************************************************************)
(* What a client of a streaming endpoint may rely on: an item is announced   *)
(* before anything is said in it, everything announced is closed before the  *)
(* answer is called complete, and nothing follows the last event.            *)
(***************************************************************************)
EXTENDS Naturals, Sequences

CONSTANTS Kind, Id, Piece

VARIABLES item, ended

grammarVars == <<item, ended>>

Fresh(kind, id) == [kind |-> kind, id |-> id, said |-> <<>>, open |-> TRUE]

Init == item = <<>> /\ ended = "no"

Announce(kind, id) == item' = Append(item, Fresh(kind, id)) /\ UNCHANGED ended

Say(i, p) ==
    /\ item[i].open
    /\ item' = [item EXCEPT ![i].said = Append(@, p)]
    /\ UNCHANGED ended

Close(i) ==
    /\ item[i].open
    /\ item' = [item EXCEPT ![i].open = FALSE]
    /\ UNCHANGED ended

Complete == (\A i \in DOMAIN item : ~item[i].open) /\ ended' = "completed" /\ UNCHANGED item

Fail == ended' = "failed" /\ UNCHANGED item

Next ==
    /\ ended = "no"
    /\ \/ \E kind \in Kind, id \in Id : Announce(kind, id)
       \/ \E i \in DOMAIN item : Close(i) \/ \E p \in Piece : Say(i, p)
       \/ Complete
       \/ Fail

Spec == Init /\ [][Next]_grammarVars
=============================================================================
