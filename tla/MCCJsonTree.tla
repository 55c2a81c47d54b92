------------------------------ MODULE MCCJsonTree ------------------------------
(***************************************************************************)
(* Instances of CJsonTree for TLC, three in one run: world says which one  *)
(* a behaviour is of.  Blocks are interchangeable.  In "calls" and         *)
(* "references" the blocks of Few are used, so that those are permuted;    *)
(* in "equality" a block is the next one of a fixed order, and as nothing  *)
(* is freed there, two states that a permutation of Few makes equal have   *)
(* used the same blocks and go on with the same ones.                      *)
(***************************************************************************)
EXTENDS CJsonCompare, TLC

CONSTANT Few \* the blocks of "calls" and "references"

VARIABLE world

\* A capital is a name that differs from another in case only.
MCFold == [n \in {"a", "A"} |-> "a"]

MCIndices == -1..2

Symmetry == Permutations(Few)

\* What the worlds have of the constants' values.
Bounds ==
  [calls      |-> [live |-> 4, kinds |-> {"1", "array", "object"}, refs |-> 0],
   references |-> [live |-> 3, kinds |-> {"t", "array", "object"}, refs |-> MaxRefs]]

Within(b) ==
  LET live == Live(heap')
  IN  /\ Cardinality(live) <= b.live
      /\ \A i \in live : heap'[i].type \in b.kinds /\ heap'[i].string \in {"a", NoName}
      /\ Cardinality({i \in live : "ref" \in heap'[i].flags}) <= b.refs

MCInit ==
  /\ world \in {"calls", "references", "equality"}
  /\ heap = [i \in IF world = "equality" THEN Items ELSE Few |-> New]
  /\ strs = 0 /\ held = {} /\ lost = {} /\ crashed = FALSE

MCNext ==
  /\ \/ /\ world \in DOMAIN Bounds
        /\ Next
        /\ Within(Bounds[world])
     \/ /\ world = "equality"
        /\ Unused # {} /\ Building(CHOOSE i \in Unused : TRUE, {"1", "object"})
        /\ UNCHANGED crashed
  /\ UNCHANGED world

MCSpec == MCInit /\ [][MCNext]_<<vars, world>>
===============================================================================
