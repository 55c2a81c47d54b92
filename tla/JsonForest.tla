------------------------------ MODULE JsonForest ------------------------------
(***************************************************************************)
(* What xface/cJSON.h promises of the items a program builds: a forest.    *)
(* An item has a sequence of subitems; the program holds the roots and is  *)
(* to delete them; an operation moves one item into one list or out of it, *)
(* makes a tree, or deletes one, and disturbs nothing else.                *)
(***************************************************************************)
EXTENDS Integers, SequencesExt

CONSTANT Items

VARIABLES
  kids,   \* the subitems of every item there is
  roots   \* the items the program holds, and has to delete

vars == <<kids, roots>>

Init == kids = [i \in {} |-> <<>>] /\ roots = {}

\* The item i and everything under it.
Tree(old, i) ==
  LET Grow(S) == S \cup UNION {ToSet(old[j]) : j \in S}
      after[n \in 0..Cardinality(Items)] == IF n = 0 THEN {i} ELSE Grow(after[n - 1])
  IN  after[Cardinality(Items)]

Without(old, S) == [j \in DOMAIN old \ S |-> old[j]]

(* The steps: old and new are kids before and after. *)

\* A new tree, of any number of new items.
Make(old, new) ==
  /\ Without(new, DOMAIN new \ DOMAIN old) = old
  /\ \E r \in DOMAIN new \ DOMAIN old : roots' = roots \cup {r}

\* "Append item to the specified array/object", or "Shifts pre-existing items to the
\* right": the root i becomes the n-th subitem of a, which is not a part of it.
Put(old, new, a, n, i) ==
  /\ i \in roots /\ roots' = roots \ {i}
  /\ n \in 1..Len(old[a]) + 1 /\ a \notin Tree(old, i)
  /\ new = [old EXCEPT ![a] = InsertAt(@, n, i)]

\* "Remove/Detach items": the n-th subitem of a becomes a root.
Take(old, new, a, n) ==
  /\ roots' = roots \cup {old[a][n]}
  /\ new = [old EXCEPT ![a] = RemoveAt(@, n)]

\* A new item is made and put at the end of a, in one call.
MakeAndPut(old, new, a, i) ==
  /\ UNCHANGED roots
  /\ i \in DOMAIN new \ DOMAIN old /\ new[i] = <<>>
  /\ Without(new, {i}) = [old EXCEPT ![a] = Append(@, i)]

\* "Delete a cJSON entity and all subentities."
Delete(old, new, i) ==
  /\ roots' = roots \ {i}
  /\ new = Without(old, Tree(old, i))

TakeAndDelete(old, new, a, n) ==
  /\ UNCHANGED roots
  /\ new = [Without(old, Tree(old, old[a][n])) EXCEPT ![a] = RemoveAt(@, n)]

\* "Update array items": the root i takes the place of the n-th subitem, which is deleted.
Replace(old, new, a, n, i) ==
  /\ i \in roots /\ roots' = roots \ {i}
  /\ n \in DOMAIN old[a] /\ a \notin Tree(old, i)
  /\ new = [Without(old, Tree(old, old[a][n])) EXCEPT ![a] = ReplaceAt(@, n, i)]

Step(old, new) ==
  \/ Make(old, new)
  \/ \E i \in roots : Delete(old, new, i)
  \/ \E a \in DOMAIN old \cap DOMAIN new : \* the one list that is another
       /\ new[a] # old[a]
       /\ \/ \E n \in DOMAIN new[a] :
               LET i == new[a][n]
               IN  Put(old, new, a, n, i) \/ Replace(old, new, a, n, i) \/ MakeAndPut(old, new, a, i)
          \/ \E n \in DOMAIN old[a] : Take(old, new, a, n) \/ TakeAndDelete(old, new, a, n)

Next == \E old \in {kids}, new \in {kids'} : Step(old, new)

Spec == Init /\ [][Next]_vars
===============================================================================
