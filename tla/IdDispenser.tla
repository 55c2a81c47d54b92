----------------------------- MODULE IdDispenser -----------------------------
(***************************************************************************)
(* What server/seq.go promises its callers: every Get hands out an id that *)
(* no caller was ever given before.                                        *)
(***************************************************************************)
EXTENDS Naturals

CONSTANT Callers      \* the goroutines that ask for ids

VARIABLE issued       \* issued[p]: the ids that p has been given

Taken == UNION {issued[p] : p \in Callers}

Init == issued = [p \in Callers |-> {}]

Issue(p) ==
  \E id \in issued'[p] :
     /\ id \in Nat \ Taken
     /\ issued' = [issued EXCEPT ![p] = @ \cup {id}]

Next == \E p \in Callers : Issue(p)

Spec == Init /\ [][Next]_issued
=============================================================================
