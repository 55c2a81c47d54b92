---------------------------- MODULE CJsonTreeProofs ---------------------------
(***************************************************************************)
(* For any number of blocks, names and values: in whatever order cJSON.c's *)
(* calls on items are made, and wherever one of them runs out of memory,   *)
(* every list stays whole (WellLinked), every block has one owner          *)
(* (EveryBlockOwned), and the items are the forest of JsonForest           *)
(* (ImplementsForest).                                                     *)
(*                                                                         *)
(* None of these is inductive.  TreeInv says instead how every single pointer of *)
(* a heap lies (Linked): there is a function par, the item whose list an   *)
(* item is in, with which neighbours in a list agree and the first of a    *)
(* list points back at the last; what the program holds or has lost is in  *)
(* no list; every other item is led to from one; and nothing goes round in *)
(* a circle (Grounded), which stands for what a recursive definition of    *)
(* depth would say.  That walks end, that an item is under one root, and   *)
(* that what cJSON_Delete frees is what the root owned, follow from these. *)
(* The forest is read off the lists: the sequence that a walk comes to is  *)
(* the only one that begins at the child, follows next and ends (IsList),  *)
(* so that what a call makes of a list is shown by giving the new sequence *)
(* and checking its pointers, place by place.                              *)
(***************************************************************************)
EXTENDS CJsonTree, FiniteSetTheorems, SequenceTheorems, WellFoundedInduction, TLAPS

\* j leads to k: k is what cJSON_Delete goes on to from j.
Edge(h, j, k) ==
  k # NoItem /\ (h[j].next = k \/ ("ref" \notin h[j].flags /\ h[j].child = k))

\* Reach is the least set with i that is closed under to.
LEMMA ReachIs ==
  ASSUME NEW to, NEW i \in DOMAIN to, \A j \in DOMAIN to : to[j] \subseteq DOMAIN to \cup {NoItem}
  PROVE  /\ i \in Reach(i, to) /\ Reach(i, to) \subseteq DOMAIN to
         /\ \A j \in Reach(i, to) : to[j] \subseteq Reach(i, to) \cup {NoItem}
         /\ \A C \in SUBSET DOMAIN to :
              i \in C /\ (\A j \in C : to[j] \subseteq C \cup {NoItem}) => Reach(i, to) \subseteq C
<1> DEFINE Kept == {S \in SUBSET DOMAIN to : i \in S /\ \A j \in S : to[j] \subseteq S \cup {NoItem}}
<1>1. Reach(i, to) = {j \in DOMAIN to : \A S \in Kept : j \in S}  BY DEF Reach
<1>2. i \in Reach(i, to) /\ Reach(i, to) \subseteq DOMAIN to  BY <1>1
<1>3. ASSUME NEW j \in Reach(i, to), NEW k \in to[j], k # NoItem  PROVE k \in Reach(i, to)
  <2>1. k \in DOMAIN to  BY <1>1, <1>3
  <2>2. \A S \in Kept : k \in S  BY <1>1, <1>3
  <2> QED  BY <1>1, <2>1, <2>2
<1>4. ASSUME NEW C \in SUBSET DOMAIN to, i \in C, \A j \in C : to[j] \subseteq C \cup {NoItem}
      PROVE  Reach(i, to) \subseteq C
  <2>1. C \in Kept  BY <1>4
  <2> QED  BY <1>1, <2>1
<1> QED  BY <1>2, <1>3, <1>4

\* What i owns is i and all that is led to from there, and no more.
LEMMA OwnedIs ==
  ASSUME NEW h \in [Items -> Item], NEW i \in Items
  PROVE  /\ i \in Owned(h, i) /\ Owned(h, i) \subseteq Items
         /\ \A j \in Owned(h, i), k \in Items : Edge(h, j, k) => k \in Owned(h, i)
         /\ \A C \in SUBSET Items :
              i \in C /\ (\A j \in C, k \in Items : Edge(h, j, k) => k \in C) => Owned(h, i) \subseteq C
<1> DEFINE to == Owns(h)
<1>1. DOMAIN to = Items /\ \A j \in Items : to[j] = {h[j].next, IF "ref" \in h[j].flags THEN NoItem ELSE h[j].child}
  BY DEF Owns
<1>2. \A j \in Items : h[j].next \in Items \cup {NoItem} /\ h[j].child \in Items \cup {NoItem}  BY DEF Item
<1>3. \A j \in Items, C \in SUBSET Items :
        to[j] \subseteq C \cup {NoItem} <=> \A k \in Items : Edge(h, j, k) => k \in C
  <2> TAKE j \in Items, C \in SUBSET Items
  <2>1. NoItem \notin Items  BY CJsonTreeAssumption
  <2>2. \A k : k \in to[j] /\ k # NoItem <=> Edge(h, j, k)  BY <1>1 DEF Edge
  <2>3. \A k : Edge(h, j, k) => k \in Items  BY <1>2 DEF Edge
  <2> QED  BY <2>1, <2>2, <2>3
<1>4. \A j \in DOMAIN to : to[j] \subseteq DOMAIN to \cup {NoItem}  BY <1>1, <1>2
<1> HIDE DEF to
<1>5. /\ i \in Reach(i, to) /\ Reach(i, to) \subseteq DOMAIN to
      /\ \A j \in Reach(i, to) : to[j] \subseteq Reach(i, to) \cup {NoItem}
      /\ \A C \in SUBSET DOMAIN to :
           i \in C /\ (\A j \in C : to[j] \subseteq C \cup {NoItem}) => Reach(i, to) \subseteq C
  BY <1>1, <1>4, ReachIs
<1>6. Owned(h, i) = Reach(i, to)  BY DEF Owned, to
<1> QED  BY <1>1, <1>3, <1>5, <1>6

\* Whatever is closed under what cJSON_Delete follows holds all that i owns.
LEMMA OwnedLeast ==
  ASSUME NEW h \in [Items -> Item], NEW i \in Items, NEW C \in SUBSET Items, i \in C,
         \A j \in C, k \in Items : Edge(h, j, k) => k \in C
  PROVE  Owned(h, i) \subseteq C
BY OwnedIs

\* What i owns, but for i, is led to from something that i owns.
LEMMA LastStep ==
  ASSUME NEW h \in [Items -> Item], NEW i \in Items, NEW k \in Owned(h, i), k # i
  PROVE  \E j \in Owned(h, i) : Edge(h, j, k)
<1> SUFFICES ASSUME \A j \in Owned(h, i) : ~Edge(h, j, k) PROVE FALSE  OBVIOUS
<1> DEFINE C == Owned(h, i) \ {k}
<1>1. C \in SUBSET Items /\ i \in C  BY OwnedIs
<1>2. \A j \in C, m \in Items : Edge(h, j, m) => m \in C  BY OwnedIs
<1> QED  BY <1>1, <1>2, OwnedIs
-----------------------------------------------------------------------------
(* How items are linked *)

\* The first prev of the list of j is its last item; par is whose list an item is in.
ListEnds(h, par) ==
  \A j \in Live(h) : "ref" \notin h[j].flags /\ h[j].child # NoItem =>
    /\ par[h[j].child] = j
    /\ h[h[j].child].prev \in Live(h)
    /\ par[h[h[j].child].prev] = j
    /\ h[h[h[j].child].prev].next = NoItem

Neighbours(h, par) ==
  \A j \in Live(h) : h[j].next # NoItem => par[h[j].next] = par[j] /\ h[h[j].next].prev = j

Apart(h, R, par) ==
  \A i \in R : par[i] = NoItem /\ h[i].next = NoItem /\ h[i].prev = NoItem

LedTo(h, R) == \A k \in Live(h) \ R : \E j \in Live(h) : Edge(h, j, k)

\* Nothing goes round in a circle: no set of items is led to from itself.
Grounded(h) == \A S \in SUBSET Live(h) : S # {} => \E k \in S : \A j \in S : ~Edge(h, j, k)

\* All pointers lead to items.
Solid(h) ==
  /\ \A i \in Items : h[i].type = "free" => h[i] = New
  /\ \A j \in Live(h) : {h[j].next, h[j].prev, h[j].child} \subseteq Live(h) \cup {NoItem}

Linked(h, R, par) ==
  /\ h \in [Items -> Item] /\ par \in [Items -> Items \cup {NoItem}] /\ R \subseteq Live(h)
  /\ Solid(h) /\ ListEnds(h, par) /\ Neighbours(h, par) /\ Apart(h, R, par) /\ LedTo(h, R)
  /\ Grounded(h)

LEMMA LiveIs ==
  ASSUME NEW h \in [Items -> Item]
  PROVE  Live(h) \subseteq Items /\ \A i \in Items : i \in Live(h) <=> h[i].type # "free"
BY DEF Live

\* One item leads to another, in one way; none leads to a root.
LEMMA OneEdge ==
  ASSUME NEW h, NEW R, NEW par, Linked(h, R, par),
         NEW j \in Live(h), NEW k, Edge(h, j, k)
  PROVE  /\ k \in Live(h) /\ k \notin R /\ j \in Items /\ k \in Items
         /\ \A l \in Live(h) : Edge(h, l, k) => l = j
         /\ h[j].next = k => \A l \in Live(h) : ~("ref" \notin h[l].flags /\ h[l].child = k)
<1>0. h \in [Items -> Item] /\ NoItem \notin Items /\ R \subseteq Live(h) /\ Live(h) \subseteq Items
  BY CJsonTreeAssumption, LiveIs DEF Linked
<1>1. k \in Live(h) /\ k # NoItem  BY DEF Linked, Solid, Edge
<1>2. \A l \in Live(h) : h[l].next = k => h[k].prev = l /\ par[k] = par[l]
  BY <1>1 DEF Linked, Neighbours
<1>3. \A l \in Live(h) : "ref" \notin h[l].flags /\ h[l].child = k =>
        par[k] = l /\ h[k].prev \in Live(h) /\ h[h[k].prev].next = NoItem
  BY <1>1 DEF Linked, ListEnds
<1>4. ASSUME h[j].next = k  PROVE \A l \in Live(h) : ~("ref" \notin h[l].flags /\ h[l].child = k)
  BY <1>1, <1>2, <1>3, <1>4
<1>5. \A l \in Live(h) : Edge(h, l, k) => l = j
  BY <1>1, <1>2, <1>3, <1>4 DEF Edge
<1>6. k \notin R
  BY <1>0, <1>1, <1>2, <1>3 DEF Linked, Apart, Edge
<1> QED  BY <1>0, <1>1, <1>4, <1>5, <1>6

\* An item in a list of an item that is not under the root i is not under i.
LEMMA NotBelow ==
  ASSUME NEW h, NEW R, NEW par, Linked(h, R, par), NEW i \in R,
         NEW a \in Live(h), a \notin Owned(h, i), NEW m \in Live(h), par[m] = a
  PROVE  m \notin Owned(h, i)
<1> DEFINE Q == {j \in Owned(h, i) \cap Live(h) : par[j] = a}
<1>0. h \in [Items -> Item] /\ NoItem \notin Items /\ R \subseteq Live(h) /\ Live(h) \subseteq Items
  BY CJsonTreeAssumption, LiveIs DEF Linked
<1>1. ASSUME NEW k \in Q  PROVE \E j \in Q : Edge(h, j, k)
  <2>1. k # i  BY <1>0 DEF Linked, Apart
  <2>2. PICK j \in Owned(h, i) : Edge(h, j, k)  BY <1>0, <2>1, LastStep
  <2>3. j \in Items  BY <1>0, OwnedIs
  <2>4. j \in Live(h)
    <3>1. k \in Items /\ k # NoItem  BY <1>0
    <3>2. h[j].type = "free" => h[j] = New  BY <2>3 DEF Linked, Solid
    <3> QED  BY <1>0, <2>2, <2>3, <3>1, <3>2, LiveIs DEF Edge, New
  <2>5. CASE h[j].next = k
    <3>1. par[j] = a  BY <1>0, <2>4, <2>5 DEF Linked, Neighbours
    <3> QED  BY <2>2, <2>4, <3>1
  <2>6. CASE "ref" \notin h[j].flags /\ h[j].child = k
    <3>1. par[k] = j  BY <1>0, <2>4, <2>6 DEF Linked, ListEnds
    <3> QED  BY <2>2, <3>1
  <2> QED  BY <2>2, <2>5, <2>6 DEF Edge
<1>2. Q = {}  BY <1>1 DEF Linked, Grounded
<1> QED  BY <1>2

\* cJSON_Delete reaches no block that is free.
LEMMA OwnedAreLive ==
  ASSUME NEW h, NEW R, NEW par, Linked(h, R, par), NEW i \in Live(h)
  PROVE  Owned(h, i) \subseteq Live(h)
<1>0. h \in [Items -> Item] /\ NoItem \notin Items /\ Live(h) \subseteq Items
  BY CJsonTreeAssumption, LiveIs DEF Linked
<1>1. \A j \in Live(h), k \in Items : Edge(h, j, k) => k \in Live(h)
  BY <1>0 DEF Linked, Solid, Edge
<1> QED  BY <1>0, <1>1, OwnedIs

\* Nothing under the root i is led to from elsewhere.
LEMMA OnlyFromBelow ==
  ASSUME NEW h, NEW R, NEW par, Linked(h, R, par), NEW i \in R,
         NEW j \in Live(h), NEW k \in Owned(h, i), Edge(h, j, k)
  PROVE  j \in Owned(h, i)
<1>0. h \in [Items -> Item] /\ R \subseteq Live(h) /\ Live(h) \subseteq Items  BY LiveIs DEF Linked
<1>1. k # i  BY OneEdge
<1>2. PICK l \in Owned(h, i) : Edge(h, l, k)  BY <1>0, <1>1, LastStep
<1>3. l \in Live(h)  BY <1>0, OwnedAreLive
<1> QED  BY <1>2, <1>3, OneEdge

\* What only changes values and names leaves the links as they are.
SameShape(g, h) ==
  \A j \in Items : /\ g[j].next = h[j].next /\ g[j].prev = h[j].prev /\ g[j].child = h[j].child
                   /\ "ref" \in g[j].flags <=> "ref" \in h[j].flags
                   /\ g[j].type = "free" <=> h[j].type = "free"
                   /\ g[j].type = "free" => g[j] = New

LEMMA SameLinks ==
  ASSUME NEW h, NEW R, NEW par, Linked(h, R, par), NEW g \in [Items -> Item], SameShape(g, h)
  PROVE  /\ Linked(g, R, par) /\ Live(g) = Live(h)
         /\ \A i \in Items : Owned(g, i) = Owned(h, i)
<1> USE DEF SameShape
<1>0. h \in [Items -> Item] /\ R \subseteq Live(h) /\ Live(h) \subseteq Items  BY LiveIs DEF Linked
<1>1. Live(g) = Live(h)  BY <1>0, LiveIs
<1>2. \A j \in Items : \A k : Edge(g, j, k) <=> Edge(h, j, k)  BY DEF Edge
<1>3. Solid(g)  BY <1>0, <1>1 DEF Linked, Solid
<1>4. ListEnds(g, par)
  <2> SUFFICES ASSUME NEW j \in Live(g), "ref" \notin g[j].flags, g[j].child # NoItem
               PROVE  /\ par[g[j].child] = j /\ g[g[j].child].prev \in Live(g)
                      /\ par[g[g[j].child].prev] = j /\ g[g[g[j].child].prev].next = NoItem
    BY DEF ListEnds
  <2>1. j \in Items /\ j \in Live(h) /\ g[j].child = h[j].child /\ "ref" \notin h[j].flags  BY <1>0, <1>1
  <2>2. /\ par[h[j].child] = j /\ h[h[j].child].prev \in Live(h)
        /\ par[h[h[j].child].prev] = j /\ h[h[h[j].child].prev].next = NoItem
    BY <2>1 DEF Linked, ListEnds
  <2>3. h[j].child \in Items  BY <1>0, <2>1 DEF Linked, Solid
  <2> QED  BY <1>0, <1>1, <2>1, <2>2, <2>3
<1>5. Neighbours(g, par)
  BY <1>0, <1>1 DEF Linked, Neighbours, Solid
<1>6. Apart(g, R, par)  BY <1>0 DEF Linked, Apart
<1>7. LedTo(g, R)  BY <1>0, <1>1, <1>2 DEF Linked, LedTo
<1>8. Grounded(g)
  <2> SUFFICES ASSUME NEW S \in SUBSET Live(g), S # {} PROVE \E k \in S : \A j \in S : ~Edge(g, j, k)
    BY DEF Grounded
  <2>1. PICK k \in S : \A j \in S : ~Edge(h, j, k)  BY <1>1 DEF Linked, Grounded
  <2> QED  BY <1>0, <1>1, <1>2, <2>1
<1>9. ASSUME NEW i \in Items PROVE Owned(g, i) = Owned(h, i)
  <2>1. Owned(g, i) \subseteq Owned(h, i)  BY <1>0, <1>2, OwnedIs
  <2>2. Owned(h, i) \subseteq Owned(g, i)  BY <1>0, <1>2, OwnedIs
  <2> QED  BY <2>1, <2>2
<1> QED  BY <1>0, <1>1, <1>3, <1>4, <1>5, <1>6, <1>7, <1>8, <1>9 DEF Linked

\* A lemma is cited more easily for sets that have a name.
With(R, i) == R \cup {i}
Without(R, i) == R \ {i}

\* g is h with the new item i, which is in no list and owns no other.
IsFresh(g, h, i) ==
  /\ i \in Items /\ h[i].type = "free" /\ g \in [Items -> Item]
  /\ \A j \in Items \ {i} : g[j] = h[j]
  /\ g[i].type # "free" /\ g[i].next = NoItem /\ g[i].prev = NoItem
  /\ g[i].child = NoItem \/ ("ref" \in g[i].flags /\ g[i].child \in Live(h))

\* It is one more root.
LEMMA FreshRoot ==
  ASSUME NEW h, NEW R, NEW par, Linked(h, R, par), NEW i, NEW g, IsFresh(g, h, i)
  PROVE  /\ \E own : Linked(g, With(R, i), own)
         /\ Live(g) = Live(h) \cup {i} /\ Owned(g, i) = {i} /\ i \notin Live(h)
         /\ \A j \in Live(h) : Owned(g, j) = Owned(h, j)
<1> DEFINE own == [par EXCEPT ![i] = NoItem]
<1>0. /\ h \in [Items -> Item] /\ par \in [Items -> Items \cup {NoItem}] /\ NoItem \notin Items
      /\ R \subseteq Live(h) /\ Live(h) \subseteq Items /\ i \notin Live(h) /\ i \in Items
  BY CJsonTreeAssumption, LiveIs DEF Linked, IsFresh
<1>1. /\ g \in [Items -> Item] /\ own \in [Items -> Items \cup {NoItem}]
      /\ own[i] = NoItem /\ g[i].type # "free" /\ g[i].next = NoItem /\ g[i].prev = NoItem
      /\ g[i].child = NoItem \/ ("ref" \in g[i].flags /\ g[i].child \in Live(h))
      /\ \A j \in Items \ {i} : g[j] = h[j] /\ own[j] = par[j]
  BY <1>0 DEF IsFresh
<1> HIDE DEF own
<1>2. Live(g) = Live(h) \cup {i}  BY <1>0, <1>1, LiveIs
<1>3. \A k : ~Edge(g, i, k)  BY <1>1 DEF Edge
<1>4. \A j \in Live(h) : \A k : Edge(g, j, k) <=> Edge(h, j, k)  BY <1>0, <1>1 DEF Edge
<1>5. \A j \in Live(h) : \A k : Edge(h, j, k) => k \in Live(h)  BY OneEdge
<1>6. Solid(g)  BY <1>0, <1>1, <1>2 DEF Linked, Solid
<1>7. ListEnds(g, own)
  <2> SUFFICES ASSUME NEW j \in Live(g), "ref" \notin g[j].flags, g[j].child # NoItem
               PROVE  /\ own[g[j].child] = j /\ g[g[j].child].prev \in Live(g)
                      /\ own[g[g[j].child].prev] = j /\ g[g[g[j].child].prev].next = NoItem
    BY DEF ListEnds
  <2>1. j \in Live(h) /\ j \in Items /\ g[j] = h[j]  BY <1>0, <1>1, <1>2
  <2>2. /\ par[h[j].child] = j /\ h[h[j].child].prev \in Live(h)
        /\ par[h[h[j].child].prev] = j /\ h[h[h[j].child].prev].next = NoItem
    BY <2>1 DEF Linked, ListEnds
  <2>3. h[j].child \in Live(h)  BY <1>0, <2>1 DEF Linked, Solid
  <2> QED  BY <1>0, <1>1, <1>2, <2>1, <2>2, <2>3
<1>8. Neighbours(g, own)
  <2> SUFFICES ASSUME NEW j \in Live(g), g[j].next # NoItem
               PROVE  own[g[j].next] = own[j] /\ g[g[j].next].prev = j
    BY DEF Neighbours
  <2>1. j \in Live(h) /\ j \in Items /\ g[j] = h[j]  BY <1>0, <1>1, <1>2
  <2>2. h[j].next \in Live(h)  BY <1>0, <2>1 DEF Linked, Solid
  <2> QED  BY <1>0, <1>1, <2>1, <2>2 DEF Linked, Neighbours
<1>9. Apart(g, R \cup {i}, own)
  BY <1>0, <1>1 DEF Linked, Apart
<1>10. LedTo(g, R \cup {i})
  BY <1>0, <1>2, <1>4 DEF Linked, LedTo
<1>11. Grounded(g)
  <2> SUFFICES ASSUME NEW S \in SUBSET Live(g), S # {} PROVE \E k \in S : \A j \in S : ~Edge(g, j, k)
    BY DEF Grounded
  <2>1. CASE i \in S
    <3>1. \A j \in Live(h) : ~Edge(g, j, i)  BY <1>0, <1>4, <1>5
    <3> QED  BY <1>2, <1>3, <2>1, <3>1
  <2>2. CASE i \notin S
    <3>1. S \in SUBSET Live(h)  BY <1>2, <2>2
    <3>2. PICK k \in S : \A j \in S : ~Edge(h, j, k)  BY <3>1 DEF Linked, Grounded
    <3> QED  BY <1>4, <3>1, <3>2
  <2> QED  BY <2>1, <2>2
<1>12. Owned(g, i) = {i}
  <2>1. Owned(g, i) \subseteq {i}
    <3>1. {i} \in SUBSET Items /\ \A j \in {i}, k \in Items : Edge(g, j, k) => k \in {i}  BY <1>0, <1>3
    <3> QED  BY <1>0, <1>1, <3>1, OwnedLeast
  <2> QED  BY <1>0, <1>1, <2>1, OwnedIs
<1>13. ASSUME NEW j \in Live(h) PROVE Owned(g, j) = Owned(h, j)
  <2>0. j \in Items /\ Owned(h, j) \subseteq Live(h)  BY <1>0, OwnedAreLive
  <2>1. Owned(g, j) \subseteq Owned(h, j)
    <3>1. \A l \in Owned(h, j), k \in Items : Edge(g, l, k) => k \in Owned(h, j)  BY <1>0, <1>4, <2>0, OwnedIs
    <3> QED  BY <1>0, <1>1, <2>0, <3>1, OwnedIs
  <2>2. Owned(h, j) \subseteq Owned(g, j)
    <3> DEFINE C == Owned(g, j) \cap Live(h)
    <3>1. C \in SUBSET Items /\ j \in C  BY <1>0, <1>1, <2>0, OwnedIs
    <3>2. \A l \in C, k \in Items : Edge(h, l, k) => k \in C  BY <1>0, <1>1, <1>4, <1>5, <2>0, OwnedIs
    <3> HIDE DEF C
    <3>3. Owned(h, j) \subseteq C  BY <1>0, <2>0, <3>1, <3>2, OwnedLeast
    <3> QED  BY <3>3 DEF C
  <2> QED  BY <2>1, <2>2
<1> QED
  BY <1>0, <1>1, <1>2, <1>6, <1>7, <1>8, <1>9, <1>10, <1>11, <1>12, <1>13 DEF Linked, With

\* The items of g and of h differ in links only.
SameItems(g, h) ==
  \A j \in Items : g[j].type = h[j].type /\ g[j].flags = h[j].flags /\ g[j].string = h[j].string

LEMMA SameLive ==
  ASSUME NEW h \in [Items -> Item], NEW g \in [Items -> Item], SameItems(g, h)
  PROVE  Live(g) = Live(h)
BY DEF Live, SameItems

\* What the assignments of the calls come to, pointer by pointer.
LEMMA AppendFirst ==
  ASSUME NEW h \in [Items -> Item], NEW a \in Items, NEW i \in Items, a # i, h[a].child = NoItem
  PROVE  LET g == add_item_to_array(h, a, i)
         IN  /\ g \in [Items -> Item] /\ SameItems(g, h)
             /\ \A j \in Items : /\ g[j].next = IF j = i THEN NoItem ELSE h[j].next
                                 /\ g[j].prev = IF j = i THEN i ELSE h[j].prev
                                 /\ g[j].child = IF j = a THEN i ELSE h[j].child
<1>1. PICK h1 : h1 = [h EXCEPT ![a].child = i, ![i].prev = i]  OBVIOUS
<1>2. PICK g : g = [h1 EXCEPT ![i].next = NoItem]  OBVIOUS
<1>3. g = add_item_to_array(h, a, i)
  <2>1. add_item_to_array(h, a, i) = [h EXCEPT ![a].child = i, ![i].prev = i, ![i].next = NoItem]
    BY DEF add_item_to_array
  <2> QED  BY <1>1, <1>2, <2>1, Zenon
<1>4. /\ h1 \in [Items -> Item] /\ SameItems(h1, h)
      /\ \A j \in Items : /\ h1[j].next = h[j].next
                          /\ h1[j].prev = IF j = i THEN i ELSE h[j].prev
                          /\ h1[j].child = IF j = a THEN i ELSE h[j].child
  BY <1>1 DEF Item, SameItems
<1>5. /\ g \in [Items -> Item] /\ SameItems(g, h1)
      /\ \A j \in Items : /\ g[j].prev = h1[j].prev /\ g[j].child = h1[j].child
                          /\ g[j].next = IF j = i THEN NoItem ELSE h1[j].next
  <2>1. h1 \in [Items -> Item]  BY <1>4
  <2> QED  BY <1>2, <2>1 DEF Item, SameItems
<1> QED  BY <1>3, <1>4, <1>5 DEF SameItems

\* The second branch of add_item_to_array: c is the first of the list, m the last.
LEMMA AppendAfter ==
  ASSUME NEW h \in [Items -> Item], NEW a \in Items, NEW i \in Items, NEW c \in Items, NEW m \in Items,
         a # i, h[a].child = c, h[c].prev = m, c # NoItem, m # NoItem
  PROVE  LET g == add_item_to_array(h, a, i)
         IN  /\ g \in [Items -> Item] /\ SameItems(g, h)
             /\ \A j \in Items : /\ g[j].next = IF j = m THEN i ELSE h[j].next
                                 /\ g[j].prev = IF j = c THEN i ELSE IF j = i THEN m ELSE h[j].prev
                                 /\ g[j].child = h[j].child
<1> DEFINE g == add_item_to_array(h, a, i)
<1>1. g = [[h EXCEPT ![m].next = i, ![i].prev = m] EXCEPT ![c].prev = i]
  BY DEF add_item_to_array, suffix_object
<1> QED  BY <1>1 DEF Item, SameItems

\* The parts of cJSON_DetachItemViaPointer: i leaves its list, and what pointed at it passes on.
LEMMA Unlinking ==
  ASSUME NEW h \in [Items -> Item], NEW i \in Items
  PROVE  LET g == Unlink(h, i)
         IN  /\ g \in [Items -> Item] /\ SameItems(g, h)
             /\ \A j \in Items : /\ g[j].next = IF j = i THEN NoItem ELSE h[j].next
                                 /\ g[j].prev = IF j = i THEN NoItem ELSE h[j].prev
                                 /\ g[j].child = h[j].child
<1>1. PICK h1 : h1 = [h EXCEPT ![i].prev = NoItem]  OBVIOUS
<1>2. PICK g : g = [h1 EXCEPT ![i].next = NoItem]  OBVIOUS
<1>3. g = Unlink(h, i)  BY <1>1, <1>2, Zenon DEF Unlink
<1>4. /\ h1 \in [Items -> Item] /\ SameItems(h1, h)
      /\ \A j \in Items : /\ h1[j].next = h[j].next /\ h1[j].child = h[j].child
                          /\ h1[j].prev = IF j = i THEN NoItem ELSE h[j].prev
  BY <1>1 DEF Item, SameItems
<1>5. /\ g \in [Items -> Item] /\ SameItems(g, h1)
      /\ \A j \in Items : /\ g[j].prev = h1[j].prev /\ g[j].child = h1[j].child
                          /\ g[j].next = IF j = i THEN NoItem ELSE h1[j].next
  <2>1. h1 \in [Items -> Item]  BY <1>4
  <2> QED  BY <1>2, <2>1 DEF Item, SameItems
<1> QED  BY <1>3, <1>4, <1>5 DEF SameItems

LEMMA PassingForward ==
  ASSUME NEW h \in [Items -> Item], NEW p \in Items, NEW i \in Items, h[p].child # i => h[i].prev \in Items
  PROVE  LET g == PassForward(h, p, i)
         IN  /\ g \in [Items -> Item] /\ SameItems(g, h)
             /\ \A j \in Items : /\ g[j].next = IF h[p].child # i /\ j = h[i].prev THEN h[i].next ELSE h[j].next
                                 /\ g[j].prev = h[j].prev
                                 /\ g[j].child = h[j].child
<1>1. CASE h[p].child = i  BY <1>1 DEF PassForward, SameItems
<1>2. CASE h[p].child # i
  <2>1. PassForward(h, p, i) = [h EXCEPT ![h[i].prev].next = h[i].next]  BY <1>2 DEF PassForward
  <2> QED  BY <1>2, <2>1 DEF Item, SameItems
<1> QED  BY <1>1, <1>2

LEMMA PassingBack ==
  ASSUME NEW h \in [Items -> Item], NEW i \in Items
  PROVE  LET g == PassBack(h, i)
         IN  /\ g \in [Items -> Item] /\ SameItems(g, h)
             /\ \A j \in Items : /\ g[j].next = h[j].next
                                 /\ g[j].prev = IF j = h[i].next THEN h[i].prev ELSE h[j].prev
                                 /\ g[j].child = h[j].child
<1>0. NoItem \notin Items  BY CJsonTreeAssumption
<1>1. CASE h[i].next = NoItem  BY <1>0, <1>1 DEF PassBack, SameItems
<1>2. CASE h[i].next # NoItem
  <2>1. PassBack(h, i) = [h EXCEPT ![h[i].next].prev = h[i].prev]  BY <1>2 DEF PassBack
  <2> QED  BY <1>2, <2>1 DEF Item, SameItems
<1> QED  BY <1>1, <1>2

LEMMA PassingEnds ==
  ASSUME NEW h \in [Items -> Item], NEW p \in Items, NEW i \in Items, h[p].child \in Items
  PROVE  LET g == PassEnds(h, p, i)  c == h[p].child
         IN  /\ g \in [Items -> Item] /\ SameItems(g, h)
             /\ \A j \in Items : /\ g[j].next = h[j].next
                                 /\ g[j].prev = IF c # i /\ h[i].next = NoItem /\ j = c THEN h[i].prev ELSE h[j].prev
                                 /\ g[j].child = IF c = i /\ j = p THEN h[i].next ELSE h[j].child
<1>1. CASE h[p].child = i
  <2>1. PassEnds(h, p, i) = [h EXCEPT ![p].child = h[i].next]  BY <1>1 DEF PassEnds
  <2> QED  BY <1>1, <2>1 DEF Item, SameItems
<1>2. CASE h[p].child # i /\ h[i].next = NoItem
  <2>1. PassEnds(h, p, i) = [h EXCEPT ![h[p].child].prev = h[i].prev]  BY <1>2 DEF PassEnds
  <2> QED  BY <1>2, <2>1 DEF Item, SameItems
<1>3. CASE h[p].child # i /\ h[i].next # NoItem  BY <1>3 DEF PassEnds, SameItems
<1> QED  BY <1>1, <1>2, <1>3

\* c is the first item of p, q is before i and n after it.
LEMMA Detaching ==
  ASSUME NEW h \in [Items -> Item], NEW p \in Items, NEW i \in Items, NEW c \in Items,
         NEW q \in Items, NEW n \in Items \cup {NoItem},
         h[p].child = c, h[i].prev = q, h[i].next = n, c # i => q # i, n # i
  PROVE  LET g == DetachItem(h, p, i)
         IN  /\ g \in [Items -> Item] /\ SameItems(g, h)
             /\ \A j \in Items :
                  /\ g[j].next = IF j = i THEN NoItem ELSE IF c # i /\ j = q THEN n ELSE h[j].next
                  /\ g[j].prev = IF j = i THEN NoItem
                                 ELSE IF j = n \/ (c # i /\ n = NoItem /\ j = c) THEN q ELSE h[j].prev
                  /\ g[j].child = IF c = i /\ j = p THEN n ELSE h[j].child
<1>0. NoItem \notin Items  BY CJsonTreeAssumption
<1>1. PICK h1 : h1 = PassForward(h, p, i)  OBVIOUS
<1>2. PICK h2 : h2 = PassBack(h1, i)  OBVIOUS
<1>3. PICK h3 : h3 = PassEnds(h2, p, i)  OBVIOUS
<1>4. PICK g : g = Unlink(h3, i)  OBVIOUS
<1>5. g = DetachItem(h, p, i)  BY <1>1, <1>2, <1>3, <1>4, Zenon DEF DetachItem
<1>6. /\ h1 \in [Items -> Item] /\ SameItems(h1, h)
      /\ \A j \in Items : /\ h1[j].next = IF c # i /\ j = q THEN n ELSE h[j].next
                          /\ h1[j].prev = h[j].prev
                          /\ h1[j].child = h[j].child
  BY <1>1, PassingForward
<1>7. /\ h2 \in [Items -> Item] /\ SameItems(h2, h1)
      /\ \A j \in Items : /\ h2[j].next = h1[j].next
                          /\ h2[j].prev = IF j = n THEN q ELSE h1[j].prev
                          /\ h2[j].child = h1[j].child
  <2>1. h1 \in [Items -> Item] /\ h1[i].next = n /\ h1[i].prev = q  BY <1>6
  <2> QED  BY <1>2, <2>1, PassingBack
<1>8. /\ h3 \in [Items -> Item] /\ SameItems(h3, h2)
      /\ \A j \in Items : /\ h3[j].next = h2[j].next
                          /\ h3[j].prev = IF c # i /\ n = NoItem /\ j = c THEN q ELSE h2[j].prev
                          /\ h3[j].child = IF c = i /\ j = p THEN n ELSE h2[j].child
  <2>1. h2 \in [Items -> Item] /\ h2[i].next = n /\ h2[i].prev = q /\ h2[p].child = c  BY <1>6, <1>7
  <2> QED  BY <1>3, <2>1, PassingEnds
<1>9. /\ g \in [Items -> Item] /\ SameItems(g, h3)
      /\ \A j \in Items : /\ g[j].next = IF j = i THEN NoItem ELSE h3[j].next
                          /\ g[j].prev = IF j = i THEN NoItem ELSE h3[j].prev
                          /\ g[j].child = h3[j].child
  <2>1. h3 \in [Items -> Item]  BY <1>8
  <2> QED  BY <1>4, <2>1, Unlinking
<1>10. SameItems(g, h)  BY <1>6, <1>7, <1>8, <1>9 DEF SameItems
<1>11. \A j \in Items :
         /\ g[j].next = IF j = i THEN NoItem ELSE IF c # i /\ j = q THEN n ELSE h[j].next
         /\ g[j].prev = IF j = i THEN NoItem
                        ELSE IF j = n \/ (c # i /\ n = NoItem /\ j = c) THEN q ELSE h[j].prev
         /\ g[j].child = IF c = i /\ j = p THEN n ELSE h[j].child
  BY <1>0, <1>6, <1>7, <1>8, <1>9
<1> QED  BY <1>5, <1>9, <1>10, <1>11
-----------------------------------------------------------------------------
(* How calls change the links *)

\* The root i becomes the last item of a.
LEMMA Appended ==
  ASSUME NEW h, NEW R, NEW par, Linked(h, R, par), NEW i \in R,
         NEW a \in Live(h), "ref" \notin h[a].flags, a \notin Owned(h, i)
  PROVE  LET g == add_item_to_array(h, a, i)
         IN  /\ Linked(g, R \ {i}, [par EXCEPT ![i] = a])
             /\ Live(g) = Live(h) /\ SameItems(g, h)
<1> DEFINE g == add_item_to_array(h, a, i)  own == [par EXCEPT ![i] = a]
           c == h[a].child  m == h[c].prev
<1>0. /\ h \in [Items -> Item] /\ par \in [Items -> Items \cup {NoItem}] /\ NoItem \notin Items
      /\ R \subseteq Live(h) /\ Live(h) \subseteq Items /\ i \in Live(h) /\ i \in Items /\ a \in Items
  BY CJsonTreeAssumption, LiveIs DEF Linked
<1>1. a # i  BY <1>0, OwnedIs
<1>2. h[i].next = NoItem /\ h[i].prev = NoItem /\ par[i] = NoItem  BY DEF Linked, Apart
<1>3. ASSUME c # NoItem
      PROVE  /\ c \in Live(h) /\ m \in Live(h) /\ par[c] = a /\ par[m] = a /\ h[m].next = NoItem
             /\ m # NoItem /\ c # i /\ m # i /\ m \notin Owned(h, i)
  <2>1. c \in Live(h) /\ m \in Live(h) /\ par[c] = a /\ par[m] = a /\ h[m].next = NoItem
    BY <1>0, <1>3 DEF Linked, ListEnds, Solid
  <2> QED  BY <1>0, <1>2, <2>1, NotBelow
<1>4. own \in [Items -> Items \cup {NoItem}] /\ own[i] = a /\ \A j \in Items \ {i} : own[j] = par[j]
  BY <1>0
<1>5. ASSUME c = NoItem
      PROVE  /\ g \in [Items -> Item] /\ SameItems(g, h)
             /\ \A j \in Items : /\ g[j].next = h[j].next
                                 /\ g[j].prev = IF j = i THEN i ELSE h[j].prev
                                 /\ g[j].child = IF j = a THEN i ELSE h[j].child
  BY <1>0, <1>1, <1>2, <1>5, AppendFirst
<1>6. ASSUME c # NoItem
      PROVE  /\ g \in [Items -> Item] /\ SameItems(g, h)
             /\ \A j \in Items : /\ g[j].next = IF j = m THEN i ELSE h[j].next
                                 /\ g[j].prev = IF j = i THEN m ELSE IF j = c THEN i ELSE h[j].prev
                                 /\ g[j].child = h[j].child
  BY <1>0, <1>1, <1>3, <1>6, AppendAfter
<1>7. g \in [Items -> Item] /\ SameItems(g, h)  BY <1>5, <1>6
<1> HIDE DEF g, own
<1>8. Live(g) = Live(h)  BY <1>0, <1>7, SameLive
<1>9. Solid(g)
  <2>1. ASSUME NEW j \in Items, g[j].type = "free"  PROVE g[j] = New
    <3>1. j \notin Live(h) /\ h[j] = New /\ j # i /\ j # a /\ (c # NoItem => j # c /\ j # m)
      BY <1>0, <1>3, <1>8, <2>1, <1>7, LiveIs DEF Linked, Solid
    <3>2. g[j].next = NoItem /\ g[j].prev = NoItem /\ g[j].child = NoItem /\ g[j].type = "free"
          /\ g[j].flags = {} /\ g[j].string = NoName /\ g[j] \in Item
      BY <1>5, <1>6, <1>7, <3>1 DEF New, SameItems
    <3> QED  BY <3>2 DEF New, Item
  <2>2. \A j \in Live(g) : {g[j].next, g[j].prev, g[j].child} \subseteq Live(g) \cup {NoItem}
    BY <1>0, <1>3, <1>5, <1>6, <1>8 DEF Linked, Solid
  <2> QED  BY <2>1, <2>2 DEF Solid
<1>10. ListEnds(g, own)
  <2> SUFFICES ASSUME NEW j \in Live(g), "ref" \notin g[j].flags, g[j].child # NoItem
               PROVE  /\ own[g[j].child] = j /\ g[g[j].child].prev \in Live(g)
                      /\ own[g[g[j].child].prev] = j /\ g[g[g[j].child].prev].next = NoItem
    BY DEF ListEnds
  <2>1. j \in Live(h) /\ j \in Items /\ "ref" \notin h[j].flags  BY <1>0, <1>7, <1>8 DEF SameItems
  <2>2. ASSUME h[j].child # NoItem
        PROVE  /\ par[h[j].child] = j /\ h[h[j].child].prev \in Live(h) /\ h[j].child \in Live(h)
               /\ par[h[h[j].child].prev] = j /\ h[h[h[j].child].prev].next = NoItem
    BY <2>1, <2>2 DEF Linked, ListEnds, Solid
  <2>3. CASE j = a /\ c = NoItem
    <3>1. g[j].child = i /\ g[i].prev = i /\ g[i].next = NoItem  BY <1>0, <1>2, <1>5, <2>3
    <3> QED  BY <1>0, <1>4, <1>8, <2>3, <3>1
  <2>4. CASE j = a /\ c # NoItem
    <3>1. g[j].child = c /\ g[c].prev = i /\ g[i].next = NoItem  BY <1>0, <1>2, <1>3, <1>6, <2>4
    <3> QED  BY <1>0, <1>3, <1>4, <1>8, <2>4, <3>1
  <2>5. CASE j # a
    <3> DEFINE d == h[j].child  e == h[d].prev
    <3>1. g[j].child = d  BY <1>5, <1>6, <2>1, <2>5
    <3>2. /\ par[d] = j /\ e \in Live(h) /\ d \in Live(h) /\ par[e] = j /\ h[e].next = NoItem
      BY <2>2, <3>1
    <3>3. d # i /\ e # i /\ (c # NoItem => d # c /\ e # c /\ d # m /\ e # m)
      BY <1>0, <1>2, <1>3, <2>1, <2>5, <3>2
    <3>4. g[d].prev = e /\ g[e].next = NoItem  BY <1>0, <1>5, <1>6, <3>2, <3>3
    <3> QED  BY <1>0, <1>4, <1>8, <3>1, <3>2, <3>3, <3>4
  <2> QED  BY <2>3, <2>4, <2>5
<1>11. Neighbours(g, own)
  <2> SUFFICES ASSUME NEW j \in Live(g), g[j].next # NoItem
               PROVE  own[g[j].next] = own[j] /\ g[g[j].next].prev = j
    BY DEF Neighbours
  <2>1. j \in Live(h) /\ j \in Items  BY <1>0, <1>8
  <2>2. CASE c # NoItem /\ j = m
    BY <1>0, <1>3, <1>4, <1>6, <2>1, <2>2
  <2>3. CASE c = NoItem \/ j # m
    <3> DEFINE n == h[j].next
    <3>1. g[j].next = n  BY <1>5, <1>6, <2>1, <2>3
    <3>2. n \in Live(h) /\ par[n] = par[j] /\ h[n].prev = j
      BY <2>1, <3>1 DEF Linked, Neighbours, Solid
    <3>3. Edge(h, j, n)  BY <1>0, <3>2 DEF Edge
    <3>4. n # i /\ j # i  BY <1>0, <1>2, <2>1, <3>2, <3>3
    <3>5. c # NoItem => n # c
      BY <2>1, <3>3, OneEdge
    <3>6. g[n].prev = j  BY <1>0, <1>5, <1>6, <3>2, <3>4, <3>5
    <3> QED  BY <1>0, <1>4, <2>1, <3>1, <3>2, <3>4, <3>6
  <2> QED  BY <2>2, <2>3
<1>12. Apart(g, R \ {i}, own)
  <2> SUFFICES ASSUME NEW k \in R \ {i} PROVE own[k] = NoItem /\ g[k].next = NoItem /\ g[k].prev = NoItem
    BY DEF Apart
  <2>1. k \in Items /\ par[k] = NoItem /\ h[k].next = NoItem /\ h[k].prev = NoItem  BY <1>0 DEF Linked, Apart
  <2>2. c # NoItem => k # m /\ k # c  BY <1>0, <1>3, <2>1
  <2> QED  BY <1>4, <1>5, <1>6, <2>1, <2>2
<1>13. \A j \in Live(h) : \A k : Edge(g, j, k) <=> Edge(h, j, k) \/ (k = i /\ j = IF c = NoItem THEN a ELSE m)
  <2> SUFFICES ASSUME NEW j \in Live(h), NEW k
               PROVE  Edge(g, j, k) <=> Edge(h, j, k) \/ (k = i /\ j = IF c = NoItem THEN a ELSE m)
    OBVIOUS
  <2>1. j \in Items /\ i # NoItem /\ g[j].flags = h[j].flags  BY <1>0, <1>7 DEF SameItems
  <2>2. CASE c = NoItem
    <3>1. g[j].next = h[j].next /\ g[j].child = IF j = a THEN i ELSE h[j].child  BY <1>5, <2>1, <2>2
    <3> QED  BY <2>1, <2>2, <3>1 DEF Edge
  <2>3. CASE c # NoItem
    <3>1. g[j].next = (IF j = m THEN i ELSE h[j].next) /\ g[j].child = h[j].child  BY <1>6, <2>1, <2>3
    <3> QED  BY <1>3, <2>1, <2>3, <3>1 DEF Edge
  <2> QED  BY <2>2, <2>3
<1>14. LedTo(g, R \ {i})
  <2> SUFFICES ASSUME NEW k \in Live(h), k \notin R \/ k = i PROVE \E j \in Live(h) : Edge(g, j, k)
    BY <1>8 DEF LedTo
  <2>1. CASE k = i  BY <1>3, <1>13, <2>1
  <2>2. CASE k # i  BY <1>13, <2>2 DEF Linked, LedTo
  <2> QED  BY <2>1, <2>2
<1>15. Grounded(g)
  <2> SUFFICES ASSUME NEW S \in SUBSET Live(h), S # {}, \A k \in S : \E j \in S : Edge(g, j, k) PROVE FALSE
    BY <1>8 DEF Grounded
  <2> DEFINE l == IF c = NoItem THEN a ELSE m  T == S \ Owned(h, i)
  <2>1. l \notin Owned(h, i) /\ l \in Live(h)  BY <1>3
  <2>2. ASSUME NEW k \in T  PROVE \E j \in T : Edge(h, j, k)
    <3>1. PICK j \in S : Edge(g, j, k)  BY <2>2
    <3>2. k # i  BY <1>0, <2>2, OwnedIs
    <3>3. Edge(h, j, k)  BY <1>13, <3>1, <3>2
    <3>4. j \notin Owned(h, i)  BY <1>0, <2>2, <3>3, OwnedIs
    <3> QED  BY <3>3, <3>4
  <2>3. T = {}  BY <2>2 DEF Linked, Grounded
  <2>4. i \notin S
    <3> SUFFICES ASSUME i \in S PROVE FALSE  OBVIOUS
    <3>1. PICK j \in S : Edge(g, j, i)  OBVIOUS
    <3>2. ~Edge(h, j, i)  BY OneEdge
    <3>3. j = l  BY <1>13, <3>1, <3>2
    <3> QED  BY <2>1, <2>3, <3>3
  <2>5. \A k \in S : \E j \in S : Edge(h, j, k)  BY <1>13, <2>4
  <2> QED  BY <2>5 DEF Linked, Grounded
<1> QED
  <2>1. R \ {i} \subseteq Live(g)  BY <1>0, <1>8
  <2> QED
    BY <1>4, <1>7, <1>8, <1>9, <1>10, <1>11, <1>12, <1>14, <1>15, <2>1 DEF Linked, g, own

\* An item in a list has its list and its neighbours in it.
LEMMA InList ==
  ASSUME NEW h, NEW R, NEW par, Linked(h, R, par), NEW i \in Live(h), NEW p, par[i] = p, p # NoItem
  PROVE  LET c == h[p].child  m == h[c].prev  q == h[i].prev  n == h[i].next
         IN  /\ p \in Live(h) /\ "ref" \notin h[p].flags /\ i \notin R
             /\ c \in Live(h) /\ c # NoItem /\ par[c] = p
             /\ m \in Live(h) /\ m # NoItem /\ par[m] = p /\ h[m].next = NoItem
             /\ q \in Live(h) /\ q # NoItem /\ par[q] = p
             /\ i # c => h[q].next = i /\ q # i
             /\ n # i
             /\ n # NoItem => n \in Live(h) /\ par[n] = p /\ h[n].prev = i /\ n # c
<1> DEFINE Q == {j \in Live(h) : par[j] = p}
<1>0. h \in [Items -> Item] /\ NoItem \notin Items /\ R \subseteq Live(h) /\ Live(h) \subseteq Items
  BY CJsonTreeAssumption, LiveIs DEF Linked
<1>1. \A j \in Q : j \notin R  BY DEF Linked, Apart
<1>2. \A j \in Live(h), k \in Q : Edge(h, j, k) =>
        \/ j \in Q /\ h[j].next = k /\ h[k].prev = j
        \/ j = p /\ "ref" \notin h[j].flags /\ h[p].child = k
  <2> SUFFICES ASSUME NEW j \in Live(h), NEW k \in Q, Edge(h, j, k)
               PROVE  \/ j \in Q /\ h[j].next = k /\ h[k].prev = j
                      \/ j = p /\ "ref" \notin h[j].flags /\ h[p].child = k
    OBVIOUS
  <2>1. CASE h[j].next = k  BY <2>1 DEF Edge, Linked, Neighbours
  <2>2. CASE "ref" \notin h[j].flags /\ h[j].child = k  BY <2>2 DEF Edge, Linked, ListEnds
  <2> QED  BY <2>1, <2>2 DEF Edge
<1>3. PICK k \in Q : \A j \in Q : ~Edge(h, j, k)  BY DEF Linked, Grounded
<1>4. PICK l \in Live(h) : Edge(h, l, k)  BY <1>1 DEF Linked, LedTo
<1>5. p \in Live(h) /\ "ref" \notin h[p].flags /\ h[p].child = k /\ k # NoItem
  <2>1. ~(l \in Q)  BY <1>3, <1>4
  <2> QED  BY <1>2, <1>4, <2>1 DEF Edge
<1> DEFINE c == h[p].child  m == h[c].prev  q == h[i].prev  n == h[i].next
<1>6. /\ c \in Live(h) /\ c # NoItem /\ par[c] = p
      /\ m \in Live(h) /\ par[m] = p /\ h[m].next = NoItem
  BY <1>5 DEF Linked, ListEnds
<1>7. m # NoItem  BY <1>0, <1>6
<1>8. PICK j \in Live(h) : Edge(h, j, i)  BY <1>1 DEF Linked, LedTo
<1>9. ASSUME i # c  PROVE q \in Live(h) /\ par[q] = p /\ h[q].next = i
  BY <1>2, <1>8, <1>9
<1>10. q \in Live(h) /\ par[q] = p  BY <1>6, <1>9
<1>11. n # i
  <2> SUFFICES ASSUME n = i PROVE FALSE  OBVIOUS
  <2>1. Edge(h, i, i)  BY <1>0 DEF Edge
  <2>2. {i} \in SUBSET Live(h) /\ {i} # {}  OBVIOUS
  <2>3. \E x \in {i} : \A y \in {i} : ~Edge(h, y, x)  BY <2>2, Zenon DEF Linked, Grounded
  <2> QED  BY <2>1, <2>3
<1>12. ASSUME n # NoItem  PROVE n \in Live(h) /\ par[n] = p /\ h[n].prev = i /\ n # c
  <2>1. n \in Live(h) /\ par[n] = p /\ h[n].prev = i  BY <1>12 DEF Linked, Neighbours, Solid
  <2>2. Edge(h, i, n) /\ Edge(h, p, c)  BY <1>5, <1>12 DEF Edge
  <2> QED  BY <1>5, <2>1, <2>2, OneEdge
<1>13. i # c => q # i  BY <1>9, <1>11
<1>14. q # NoItem  BY <1>0, <1>10
<1> QED  BY <1>1, <1>5, <1>6, <1>7, <1>9, <1>10, <1>11, <1>12, <1>13, <1>14

\* The item i of the list of p becomes a root.
LEMMA Detached ==
  ASSUME NEW h, NEW R, NEW par, Linked(h, R, par), NEW i \in Live(h), NEW p \in Live(h), par[i] = p
  PROVE  LET g == DetachItem(h, p, i)
         IN  /\ Linked(g, R \cup {i}, [par EXCEPT ![i] = NoItem])
             /\ Live(g) = Live(h) /\ SameItems(g, h) /\ i \notin R
             /\ \A r \in R : p \notin Owned(h, r) => p \notin Owned(g, r)
<1> DEFINE g == DetachItem(h, p, i)  own == [par EXCEPT ![i] = NoItem]
           c == h[p].child  m == h[c].prev  q == h[i].prev  n == h[i].next
           l == IF i = c THEN p ELSE q
<1>0. /\ h \in [Items -> Item] /\ par \in [Items -> Items \cup {NoItem}] /\ NoItem \notin Items
      /\ R \subseteq Live(h) /\ Live(h) \subseteq Items /\ i \in Items /\ p \in Items /\ p # NoItem
  BY CJsonTreeAssumption, LiveIs DEF Linked
<1>1. /\ "ref" \notin h[p].flags /\ i \notin R
      /\ c \in Live(h) /\ c # NoItem /\ par[c] = p
      /\ m \in Live(h) /\ m # NoItem /\ par[m] = p /\ h[m].next = NoItem
      /\ q \in Live(h) /\ q # NoItem /\ par[q] = p
      /\ i # c => h[q].next = i /\ q # i
      /\ n # i
      /\ n # NoItem => n \in Live(h) /\ par[n] = p /\ h[n].prev = i /\ n # c
  BY <1>0, InList
<1>2. own \in [Items -> Items \cup {NoItem}] /\ own[i] = NoItem /\ \A j \in Items \ {i} : own[j] = par[j]
  BY <1>0
<1>3. c \in Items /\ q \in Items /\ n \in Items \cup {NoItem} /\ m \in Items  BY <1>0, <1>1
<1>4. /\ g \in [Items -> Item] /\ SameItems(g, h)
      /\ \A j \in Items :
           /\ g[j].next = IF j = i THEN NoItem ELSE IF c # i /\ j = q THEN n ELSE h[j].next
           /\ g[j].prev = IF j = i THEN NoItem
                          ELSE IF j = n \/ (c # i /\ n = NoItem /\ j = c) THEN q ELSE h[j].prev
           /\ g[j].child = IF c = i /\ j = p THEN n ELSE h[j].child
  BY <1>0, <1>1, <1>3, Detaching
<1> HIDE DEF g, own, c, m, q, n
<1>5. Live(g) = Live(h)  BY <1>0, <1>4, SameLive
<1>6. \A j \in Live(h) : \A k : Edge(h, j, k) => k \in Live(h) /\ k \notin R  BY OneEdge
<1>7. l \in Live(h) /\ Edge(h, l, i) /\ (n # NoItem => Edge(h, i, n)) /\ Edge(h, p, c)
  BY <1>0, <1>1 DEF Edge, c, q, n
<1>8. (\A j \in Live(h) : Edge(h, j, i) => j = l) /\ (\A j \in Live(h) : Edge(h, j, n) => j = i)
      /\ (\A j \in Live(h) : Edge(h, j, c) => j = p)
  <2>1. \A j \in Live(h) : Edge(h, j, i) => j = l  BY <1>7, OneEdge
  <2>2. \A j \in Live(h) : Edge(h, j, c) => j = p  BY <1>0, <1>7, OneEdge
  <2>3. \A j \in Live(h) : Edge(h, j, n) => j = i
    <3>1. CASE n = NoItem  BY <3>1 DEF Edge
    <3>2. CASE n # NoItem  BY <1>0, <1>7, <3>2, OneEdge
    <3> QED  BY <3>1, <3>2
  <2> QED  BY <2>1, <2>2, <2>3
<1>9. \A j \in Live(h) : \A k : Edge(g, j, k) => (Edge(h, j, k) /\ k # i) \/ (j = l /\ k = n)
  <2> SUFFICES ASSUME NEW j \in Live(h), NEW k, Edge(g, j, k)
               PROVE  (Edge(h, j, k) /\ k # i) \/ (j = l /\ k = n)
    OBVIOUS
  <2>1. j \in Items /\ k # NoItem /\ g[j].flags = h[j].flags  BY <1>0, <1>4 DEF Edge, SameItems
  <2>2. g[j].next = k \/ ("ref" \notin h[j].flags /\ g[j].child = k)  BY <2>1 DEF Edge
  <2>3. CASE g[j].next = k
    <3>1. h[j].next = k \/ (c # i /\ j = q /\ k = n)  BY <1>4, <2>1, <2>3
    <3>2. ASSUME h[j].next = k, k = i  PROVE c # i /\ j = q
      <4>1. Edge(h, j, i)  BY <2>1, <3>2 DEF Edge
      <4>2. ~(c = i)
        <5> SUFFICES ASSUME c = i PROVE FALSE  OBVIOUS
        <5>1. \A x \in Live(h) : ~("ref" \notin h[x].flags /\ h[x].child = i)
          BY <1>0, <3>2, <4>1, OneEdge
        <5> QED  BY <1>0, <1>1, <5>1 DEF c
      <4> QED  BY <1>8, <4>1, <4>2
    <3> QED  BY <1>1, <1>4, <2>1, <2>3, <3>1, <3>2 DEF Edge
  <2>4. CASE "ref" \notin h[j].flags /\ g[j].child = k
    <3>1. h[j].child = k \/ (c = i /\ j = p /\ k = n)  BY <1>4, <2>1, <2>4
    <3>2. ASSUME h[j].child = k, k = i  PROVE c = i /\ j = p
      <4>1. Edge(h, j, i)  BY <2>1, <2>4, <3>2 DEF Edge
      <4>2. par[i] = j  BY <1>0, <2>1, <2>4, <3>2 DEF Linked, ListEnds
      <4> QED  BY <2>1, <3>2, <4>2 DEF c
    <3> QED  BY <1>1, <1>4, <2>1, <2>4, <3>1, <3>2 DEF Edge
  <2> QED  BY <2>2, <2>3, <2>4
<1>10. \A j \in Live(h) : \A k : Edge(h, j, k) /\ k # i /\ ~(j = i /\ k = n /\ h[i].next = n) => Edge(g, j, k)
  <2> SUFFICES ASSUME NEW j \in Live(h), NEW k, Edge(h, j, k), k # i, ~(j = i /\ k = n /\ h[i].next = n)
               PROVE  Edge(g, j, k)
    OBVIOUS
  <2>1. j \in Items /\ k # NoItem /\ g[j].flags = h[j].flags /\ h[i].next = n
    BY <1>0, <1>4 DEF Edge, SameItems, n
  <2>2. CASE h[j].next = k
    <3>1. j # i  BY <2>1, <2>2
    <3>2. ~(c # i /\ j = q)  BY <1>1, <2>2
    <3> QED  BY <1>4, <2>1, <2>2, <3>1, <3>2 DEF Edge
  <2>3. CASE "ref" \notin h[j].flags /\ h[j].child = k
    <3>1. ~(c = i /\ j = p)  BY <2>3 DEF c
    <3> QED  BY <1>4, <2>1, <2>3, <3>1 DEF Edge
  <2> QED  BY <2>2, <2>3 DEF Edge
<1>11. n # NoItem => Edge(g, l, n)
  BY <1>0, <1>1, <1>3, <1>4 DEF Edge, SameItems
<1>12. Solid(g)
  <2>1. ASSUME NEW j \in Items, g[j].type = "free"  PROVE g[j] = New
    <3>1. j \notin Live(h) /\ h[j] = New
      BY <1>0, <1>4, <1>5, <2>1, LiveIs DEF Linked, Solid
    <3>2. g[j].next = NoItem /\ g[j].prev = NoItem /\ g[j].child = NoItem /\ g[j].type = "free"
          /\ g[j].flags = {} /\ g[j].string = NoName /\ g[j] \in Item
      BY <1>0, <1>1, <1>3, <1>4, <3>1 DEF New, SameItems
    <3> QED  BY <3>2 DEF New, Item
  <2>2. \A j \in Live(g) : {g[j].next, g[j].prev, g[j].child} \subseteq Live(g) \cup {NoItem}
    BY <1>0, <1>1, <1>3, <1>4, <1>5 DEF Linked, Solid
  <2> QED  BY <2>1, <2>2 DEF Solid
<1>13. ListEnds(g, own)
  <2> SUFFICES ASSUME NEW j \in Live(g), "ref" \notin g[j].flags, g[j].child # NoItem
               PROVE  /\ own[g[j].child] = j /\ g[g[j].child].prev \in Live(g)
                      /\ own[g[g[j].child].prev] = j /\ g[g[g[j].child].prev].next = NoItem
    BY DEF ListEnds
  <2>1. j \in Live(h) /\ j \in Items /\ "ref" \notin h[j].flags  BY <1>0, <1>4, <1>5 DEF SameItems
  <2>2. CASE j = p /\ c = i
    <3>1. g[j].child = n /\ n # NoItem  BY <1>4, <2>1, <2>2
    <3>2. q = m  BY <2>2 DEF q, m
    <3>3. m # i  BY <1>1, <3>1 DEF n
    <3>4. g[n].prev = m /\ g[m].next = NoItem  BY <1>1, <1>3, <1>4, <2>2, <3>1, <3>2, <3>3
    <3> QED  BY <1>1, <1>2, <1>3, <1>5, <2>2, <3>1, <3>3, <3>4
  <2>3. CASE j = p /\ c # i /\ n = NoItem
    <3>1. g[j].child = c /\ g[c].prev = q /\ g[q].next = NoItem  BY <1>1, <1>3, <1>4, <2>1, <2>3 DEF c
    <3> QED  BY <1>1, <1>2, <1>3, <1>5, <2>3, <3>1
  <2>4. CASE j = p /\ c # i /\ n # NoItem
    <3>1. m # i /\ m # q /\ c # n  BY <1>0, <1>1, <2>4 DEF n
    <3>2. g[j].child = c /\ g[c].prev = m /\ g[m].next = NoItem  BY <1>1, <1>3, <1>4, <2>1, <2>4, <3>1 DEF c, m
    <3> QED  BY <1>1, <1>2, <1>3, <1>5, <2>4, <3>1, <3>2
  <2>5. CASE j # p
    <3> DEFINE d == h[j].child  e == h[d].prev
    <3>1. g[j].child = d  BY <1>4, <2>1, <2>5
    <3>2. /\ par[d] = j /\ e \in Live(h) /\ d \in Live(h) /\ par[e] = j /\ h[e].next = NoItem
      BY <2>1, <3>1 DEF Linked, ListEnds, Solid
    <3>3. d # i /\ e # i /\ d # c /\ d # n /\ e # q  BY <1>0, <1>1, <2>5, <3>2
    <3>4. g[d].prev = e /\ g[e].next = NoItem  BY <1>0, <1>4, <3>2, <3>3
    <3> QED  BY <1>0, <1>2, <1>5, <3>1, <3>2, <3>3, <3>4
  <2> QED  BY <2>2, <2>3, <2>4, <2>5
<1>14. Neighbours(g, own)
  <2> SUFFICES ASSUME NEW j \in Live(g), g[j].next # NoItem
               PROVE  own[g[j].next] = own[j] /\ g[g[j].next].prev = j
    BY DEF Neighbours
  <2>1. j \in Live(h) /\ j \in Items /\ j # i  BY <1>0, <1>4, <1>5
  <2>2. CASE c # i /\ j = q
    <3>1. g[j].next = n  BY <1>4, <2>1, <2>2
    <3> QED  BY <1>1, <1>2, <1>3, <1>4, <2>1, <2>2, <3>1
  <2>3. CASE ~(c # i /\ j = q)
    <3> DEFINE k == h[j].next
    <3>1. g[j].next = k  BY <1>4, <2>1, <2>3
    <3>2. k \in Live(h) /\ par[k] = par[j] /\ h[k].prev = j /\ Edge(h, j, k)
      BY <2>1, <3>1 DEF Linked, Neighbours, Solid, Edge
    <3>3. k # n  BY <1>8, <2>1, <3>2
    <3>4. k # c
      BY <1>0, <1>1, <2>1, <3>2, OneEdge DEF c
    <3>5. k # i
      <4> SUFFICES ASSUME k = i PROVE FALSE  OBVIOUS
      <4>1. j = l  BY <1>8, <2>1, <3>2
      <4> QED  BY <2>3, <3>4, <4>1
    <3>6. g[k].prev = j  BY <1>0, <1>4, <3>2, <3>3, <3>4, <3>5
    <3> QED  BY <1>0, <1>2, <2>1, <3>1, <3>2, <3>5, <3>6
  <2> QED  BY <2>2, <2>3
<1>15. Apart(g, R \cup {i}, own)
  <2> SUFFICES ASSUME NEW k \in R PROVE own[k] = NoItem /\ g[k].next = NoItem /\ g[k].prev = NoItem
    BY <1>0, <1>2, <1>4 DEF Apart
  <2>1. k \in Items /\ par[k] = NoItem /\ h[k].next = NoItem /\ h[k].prev = NoItem  BY <1>0 DEF Linked, Apart
  <2>2. k # i /\ k # q /\ k # c /\ k # n  BY <1>0, <1>1, <2>1
  <2> QED  BY <1>2, <1>4, <2>1, <2>2
<1>16. LedTo(g, R \cup {i})
  <2> SUFFICES ASSUME NEW k \in Live(h), k \notin R, k # i PROVE \E j \in Live(h) : Edge(g, j, k)
    BY <1>5 DEF LedTo
  <2>1. PICK j \in Live(h) : Edge(h, j, k)  BY DEF Linked, LedTo
  <2>2. CASE j = i /\ k = n /\ h[i].next = n
    <3>1. n # NoItem  BY <1>0, <2>2
    <3> QED  BY <1>7, <1>11, <2>2, <3>1
  <2>3. CASE ~(j = i /\ k = n /\ h[i].next = n)  BY <1>10, <2>1, <2>3
  <2> QED  BY <2>2, <2>3
<1>17. Grounded(g)
  <2> SUFFICES ASSUME NEW S \in SUBSET Live(g), S # {}, \A k \in S : \E j \in S : Edge(g, j, k) PROVE FALSE
    BY DEF Grounded
  <2>1. i \notin S
    <3> SUFFICES ASSUME i \in S PROVE FALSE  OBVIOUS
    <3>1. PICK j \in S : Edge(g, j, i)  OBVIOUS
    <3> QED  BY <1>1, <1>5, <1>9, <3>1
  <2>2. CASE n \notin S
    <3>1. \A k \in S : \E j \in S : Edge(h, j, k)  BY <1>5, <1>9, <2>2
    <3>2. S \in SUBSET Live(h)  BY <1>5
    <3> QED  BY <3>1, <3>2 DEF Linked, Grounded
  <2>3. CASE n \in S
    <3> DEFINE T == S \cup {i}
    <3>1. T \in SUBSET Live(h) /\ T # {}  BY <1>5
    <3>2. n # NoItem  BY <1>0, <1>5, <2>3
    <3>3. l \in S
      <4>1. PICK j \in S : Edge(g, j, n)  BY <2>3
      <4>2. j = l \/ Edge(h, j, n)  BY <1>5, <1>9, <4>1
      <4>3. j # i  BY <2>1
      <4> QED  BY <1>5, <1>8, <4>2, <4>3
    <3>4. ASSUME NEW k \in T  PROVE \E j \in T : Edge(h, j, k)
      <4>1. CASE k = i  BY <1>7, <3>3, <4>1
      <4>2. CASE k = n  BY <1>7, <3>2, <4>2
      <4>3. CASE k \in S /\ k # n  BY <1>5, <1>9, <4>3
      <4> QED  BY <4>1, <4>2, <4>3
    <3> HIDE DEF T
    <3> QED  BY <3>1, <3>4 DEF Linked, Grounded
  <2> QED  BY <2>2, <2>3
<1>18. ASSUME NEW r \in R, p \notin Owned(h, r)  PROVE p \notin Owned(g, r)
  <2> DEFINE C == Owned(h, r)
  <2>0. r \in Items /\ r \in Live(h)  BY <1>0
  <2>1. C \in SUBSET Items /\ r \in C /\ C \subseteq Live(h)  BY <1>0, <2>0, OwnedIs, OwnedAreLive
  <2>2. ASSUME NEW j \in C, NEW k \in Items, Edge(g, j, k)  PROVE k \in C
    <3>1. j # l
      <4>1. q \notin C  BY <1>1, <1>18, <2>0, NotBelow
      <4> QED  BY <1>18, <4>1
    <3>2. Edge(h, j, k)  BY <1>9, <2>1, <2>2, <3>1
    <3> QED  BY <1>0, <2>0, <3>2, OwnedIs
  <2> HIDE DEF C
  <2>3. Owned(g, r) \subseteq C  BY <1>4, <2>0, <2>1, <2>2, OwnedLeast
  <2> QED  BY <1>18, <2>3 DEF C
<1> QED
  <2>1. R \cup {i} \subseteq Live(g)  BY <1>0, <1>5
  <2>2. Linked(g, R \cup {i}, own)
    BY <1>2, <1>4, <2>1, <1>12, <1>13, <1>14, <1>15, <1>16, <1>17 DEF Linked
  <2> QED  BY <1>1, <1>4, <1>5, <1>18, <2>2 DEF g, own

\* c is the first of the list, q the item that n had for its prev.
LEMMA Inserting ==
  ASSUME NEW h \in [Items -> Item], NEW a \in Items, NEW i \in Items, NEW c \in Items, NEW n \in Items,
         NEW q \in Items, h[a].child = c, h[n].prev = q, i # n, i # q, i # a
  PROVE  LET g == InsertBefore(h, a, n, i)
         IN  /\ g \in [Items -> Item] /\ SameItems(g, h)
             /\ \A j \in Items : /\ g[j].next = IF j = i THEN n ELSE IF n # c /\ j = q THEN i ELSE h[j].next
                                 /\ g[j].prev = IF j = i THEN q ELSE IF j = n THEN i ELSE h[j].prev
                                 /\ g[j].child = IF n = c /\ j = a THEN i ELSE h[j].child
<1>1. PICK h1 : h1 = [h EXCEPT ![i].next = n]  OBVIOUS
<1>2. PICK h2 : h2 = [h1 EXCEPT ![i].prev = h[n].prev, ![n].prev = i]  OBVIOUS
<1>3. PICK g : g = IF n = h2[a].child THEN [h2 EXCEPT ![a].child = i] ELSE [h2 EXCEPT ![h2[i].prev].next = i]
  OBVIOUS
<1>4. g = InsertBefore(h, a, n, i)
  <2>1. h2 = [h EXCEPT ![i].next = n, ![i].prev = h[n].prev, ![n].prev = i]  BY <1>1, <1>2, Zenon
  <2> QED  BY <1>3, <2>1 DEF InsertBefore
<1>5. /\ h1 \in [Items -> Item] /\ SameItems(h1, h)
      /\ \A j \in Items : /\ h1[j].next = IF j = i THEN n ELSE h[j].next
                          /\ h1[j].prev = h[j].prev
                          /\ h1[j].child = h[j].child
  BY <1>1 DEF Item, SameItems
<1>6. /\ h2 \in [Items -> Item] /\ SameItems(h2, h1)
      /\ \A j \in Items : /\ h2[j].next = h1[j].next
                          /\ h2[j].prev = IF j = i THEN q ELSE IF j = n THEN i ELSE h1[j].prev
                          /\ h2[j].child = h1[j].child
  <2>1. h1 \in [Items -> Item]  BY <1>5
  <2>2. h2 = [h1 EXCEPT ![i].prev = q, ![n].prev = i]  BY <1>2
  <2> QED  BY <2>1, <2>2 DEF Item, SameItems
<1>7. /\ g \in [Items -> Item] /\ SameItems(g, h2)
      /\ \A j \in Items : /\ g[j].next = IF n # c /\ j = q THEN i ELSE h2[j].next
                          /\ g[j].prev = h2[j].prev
                          /\ g[j].child = IF n = c /\ j = a THEN i ELSE h2[j].child
  <2>1. h2 \in [Items -> Item] /\ h2[a].child = c /\ h2[i].prev = q  BY <1>5, <1>6
  <2>2. CASE n = c
    <3>1. g = [h2 EXCEPT ![a].child = i]  BY <1>3, <2>1, <2>2
    <3> QED  BY <2>1, <2>2, <3>1 DEF Item, SameItems
  <2>3. CASE n # c
    <3>1. g = [h2 EXCEPT ![q].next = i]  BY <1>3, <2>1, <2>3
    <3> QED  BY <2>1, <2>3, <3>1 DEF Item, SameItems
  <2> QED  BY <2>2, <2>3
<1>8. SameItems(g, h)  BY <1>5, <1>6, <1>7 DEF SameItems
<1>9. \A j \in Items : /\ g[j].next = IF j = i THEN n ELSE IF n # c /\ j = q THEN i ELSE h[j].next
                       /\ g[j].prev = IF j = i THEN q ELSE IF j = n THEN i ELSE h[j].prev
                       /\ g[j].child = IF n = c /\ j = a THEN i ELSE h[j].child
  BY <1>5, <1>6, <1>7
<1> QED  BY <1>4, <1>7, <1>8, <1>9

\* i is the one replaced, r the replacement: c is the first item of p, q is before i and
\* n after it.
LEMMA Replacing ==
  ASSUME NEW h \in [Items -> Item], NEW p \in Items, NEW i \in Items, NEW r \in Items, NEW c \in Items,
         NEW q \in Items, NEW n \in Items \cup {NoItem},
         h[p].child = c, h[i].prev = q, h[i].next = n,
         r # i, r # n, r # q, r # c, n # i, c # i => q # i
  PROVE  LET g == ReplaceItem(h, p, i, r)
         IN  /\ g \in [Items -> Item] /\ SameItems(g, h)
             /\ \A j \in Items :
                  /\ g[j].next = IF j = i THEN NoItem ELSE IF j = r THEN n
                                 ELSE IF c # i /\ j = q THEN r ELSE h[j].next
                  /\ g[j].prev = IF j = i THEN NoItem
                                 ELSE IF j = r THEN (IF c = i /\ q = i THEN r ELSE q)
                                 ELSE IF j = n \/ (c # i /\ n = NoItem /\ j = c) THEN r ELSE h[j].prev
                  /\ g[j].child = IF c = i /\ j = p THEN r ELSE h[j].child
<1>0. NoItem \notin Items  BY CJsonTreeAssumption
<1>1. PICK h0 : h0 = [h EXCEPT ![r].next = n]  OBVIOUS
<1>2. PICK h1 : h1 = [h0 EXCEPT ![r].prev = q]  OBVIOUS
<1>3. PICK h2 : h2 = LinkAfter(h1, r)  OBVIOUS
<1>4. h1 = TakeLinks(h, i, r)  BY <1>1, <1>2, Zenon DEF TakeLinks
<1>5. /\ h0 \in [Items -> Item] /\ SameItems(h0, h)
      /\ \A j \in Items : /\ h0[j].next = IF j = r THEN n ELSE h[j].next
                          /\ h0[j].prev = h[j].prev /\ h0[j].child = h[j].child
  BY <1>1 DEF Item, SameItems
<1>6. /\ h1 \in [Items -> Item] /\ SameItems(h1, h0)
      /\ \A j \in Items : /\ h1[j].prev = IF j = r THEN q ELSE h0[j].prev
                          /\ h1[j].next = h0[j].next /\ h1[j].child = h0[j].child
  <2>1. h0 \in [Items -> Item]  BY <1>5
  <2> QED  BY <1>2, <2>1 DEF Item, SameItems
<1>7. /\ h2 \in [Items -> Item] /\ SameItems(h2, h1)
      /\ \A j \in Items : /\ h2[j].prev = IF j = n THEN r ELSE h1[j].prev
                          /\ h2[j].next = h1[j].next /\ h2[j].child = h1[j].child
  <2>1. h1 \in [Items -> Item] /\ h1[r].next = n  BY <1>5, <1>6
  <2>2. CASE n = NoItem  BY <1>0, <1>3, <2>1, <2>2 DEF LinkAfter, SameItems
  <2>3. CASE n # NoItem
    <3>1. h2 = [h1 EXCEPT ![n].prev = r] /\ n \in Items  BY <1>3, <2>1, <2>3 DEF LinkAfter
    <3> QED  BY <2>1, <3>1 DEF Item, SameItems
  <2> QED  BY <2>2, <2>3
<1>8. /\ h2 \in [Items -> Item] /\ SameItems(h2, h)
      /\ \A j \in Items : /\ h2[j].next = IF j = r THEN n ELSE h[j].next
                          /\ h2[j].prev = IF j = n THEN r ELSE IF j = r THEN q ELSE h[j].prev
                          /\ h2[j].child = h[j].child
  BY <1>5, <1>6, <1>7 DEF SameItems
<1> DEFINE Want(h3) ==
             /\ h3 \in [Items -> Item] /\ SameItems(h3, h2)
             /\ \A j \in Items :
                  /\ h3[j].next = IF c # i /\ j = q THEN r ELSE h2[j].next
                  /\ h3[j].prev = IF j = r /\ c = i /\ q = i THEN r
                                  ELSE IF c # i /\ n = NoItem /\ j = c THEN r ELSE h2[j].prev
                  /\ h3[j].child = IF c = i /\ j = p THEN r ELSE h2[j].child
<1>9. CASE c = i
  <2>1. PICK h3 : h3 = LinkFirst(h2, p, i, r)  OBVIOUS
  <2>2. h2 \in [Items -> Item] /\ h2[i].prev = q  BY <1>8
  <2>3. Want(h3)
    <3>1. CASE q = i
      <4>1. h3 = [h2 EXCEPT ![r].prev = r, ![p].child = r]  BY <2>1, <2>2, <3>1 DEF LinkFirst
      <4>2. /\ h3 \in [Items -> Item] /\ SameItems(h3, h2)
            /\ \A j \in Items : /\ h3[j].next = h2[j].next /\ h3[j].prev = IF j = r THEN r ELSE h2[j].prev
                                /\ h3[j].child = IF j = p THEN r ELSE h2[j].child
        BY <2>2, <4>1 DEF Item, SameItems
      <4> QED  BY <1>9, <3>1, <4>2
    <3>2. CASE q # i
      <4>1. h3 = [h2 EXCEPT ![p].child = r]  BY <2>1, <2>2, <3>2 DEF LinkFirst
      <4>2. /\ h3 \in [Items -> Item] /\ SameItems(h3, h2)
            /\ \A j \in Items : /\ h3[j].next = h2[j].next /\ h3[j].prev = h2[j].prev
                                /\ h3[j].child = IF j = p THEN r ELSE h2[j].child
        BY <2>2, <4>1 DEF Item, SameItems
      <4> QED  BY <1>9, <3>2, <4>2
    <3> QED  BY <3>1, <3>2
  <2>4. ReplaceItem(h, p, i, r) = Unlink(h3, i)
    <3>1. h2[p].child = i  BY <1>8, <1>9
    <3> QED  BY <1>3, <1>4, <2>1, <3>1, Zenon DEF ReplaceItem
  <2>5. PICK g : g = Unlink(h3, i)  OBVIOUS
  <2>6. /\ g \in [Items -> Item] /\ SameItems(g, h3)
        /\ \A j \in Items : /\ g[j].next = IF j = i THEN NoItem ELSE h3[j].next
                            /\ g[j].prev = IF j = i THEN NoItem ELSE h3[j].prev
                            /\ g[j].child = h3[j].child
    <3>1. h3 \in [Items -> Item]  BY <2>3
    <3> QED  BY <2>5, <3>1, Unlinking
  <2>7. SameItems(g, h)  BY <1>8, <2>3, <2>6 DEF SameItems
  <2>8. g = ReplaceItem(h, p, i, r)  BY <2>4, <2>5
  <2>9. \A j \in Items :
          /\ g[j].next = IF j = i THEN NoItem ELSE IF j = r THEN n
                         ELSE IF c # i /\ j = q THEN r ELSE h[j].next
          /\ g[j].prev = IF j = i THEN NoItem
                         ELSE IF j = r THEN (IF c = i /\ q = i THEN r ELSE q)
                         ELSE IF j = n \/ (c # i /\ n = NoItem /\ j = c) THEN r ELSE h[j].prev
          /\ g[j].child = IF c = i /\ j = p THEN r ELSE h[j].child
    BY <1>0, <1>8, <2>3, <2>6, <1>9
  <2> QED  BY <2>6, <2>7, <2>8, <2>9
<1>10. CASE c # i
  <2>1. PICK h3 : h3 = LinkBefore(h2, r)  OBVIOUS
  <2>2. PICK h4 : h4 = LinkLast(h3, p, r)  OBVIOUS
  <2>3. /\ h3 \in [Items -> Item] /\ SameItems(h3, h2)
        /\ \A j \in Items : /\ h3[j].next = IF j = q THEN r ELSE h2[j].next
                            /\ h3[j].prev = h2[j].prev /\ h3[j].child = h2[j].child
    <3>1. h2 \in [Items -> Item] /\ h2[r].prev = q /\ q # NoItem  BY <1>0, <1>8
    <3>2. h3 = [h2 EXCEPT ![q].next = r]  BY <2>1, <3>1 DEF LinkBefore
    <3> QED  BY <3>1, <3>2 DEF Item, SameItems
  <2>4. /\ h4 \in [Items -> Item] /\ SameItems(h4, h3)
        /\ \A j \in Items : /\ h4[j].prev = IF n = NoItem /\ j = c THEN r ELSE h3[j].prev
                            /\ h4[j].next = h3[j].next /\ h4[j].child = h3[j].child
    <3>1. h3 \in [Items -> Item] /\ h3[r].next = n /\ h3[p].child = c  BY <1>8, <2>3
    <3>2. CASE n = NoItem
      <4>1. h4 = [h3 EXCEPT ![c].prev = r]  BY <2>2, <3>1, <3>2 DEF LinkLast
      <4> QED  BY <3>1, <3>2, <4>1 DEF Item, SameItems
    <3>3. CASE n # NoItem  BY <2>2, <3>1, <3>3 DEF LinkLast, SameItems
    <3> QED  BY <3>2, <3>3
  <2>5. ReplaceItem(h, p, i, r) = Unlink(h4, i)
    <3>1. h2[p].child # i  BY <1>8, <1>10
    <3> QED  BY <1>3, <1>4, <2>1, <2>2, <3>1, Zenon DEF ReplaceItem
  <2>6. PICK g : g = Unlink(h4, i)  OBVIOUS
  <2>7. /\ g \in [Items -> Item] /\ SameItems(g, h4)
        /\ \A j \in Items : /\ g[j].next = IF j = i THEN NoItem ELSE h4[j].next
                            /\ g[j].prev = IF j = i THEN NoItem ELSE h4[j].prev
                            /\ g[j].child = h4[j].child
    <3>1. h4 \in [Items -> Item]  BY <2>4
    <3> QED  BY <2>6, <3>1, Unlinking
  <2>8. SameItems(g, h)  BY <1>8, <2>3, <2>4, <2>7 DEF SameItems
  <2>9. \A j \in Items :
          /\ g[j].next = IF j = i THEN NoItem ELSE IF j = r THEN n
                         ELSE IF c # i /\ j = q THEN r ELSE h[j].next
          /\ g[j].prev = IF j = i THEN NoItem
                         ELSE IF j = r THEN (IF c = i /\ q = i THEN r ELSE q)
                         ELSE IF j = n \/ (c # i /\ n = NoItem /\ j = c) THEN r ELSE h[j].prev
          /\ g[j].child = IF c = i /\ j = p THEN r ELSE h[j].child
    BY <1>0, <1>8, <2>3, <2>4, <2>7, <1>10
  <2>10. g = ReplaceItem(h, p, i, r)  BY <2>5, <2>6
  <2> QED  BY <2>7, <2>8, <2>9, <2>10
<1> QED  BY <1>9, <1>10

\* The root i comes before the item n of a.
LEMMA Inserted ==
  ASSUME NEW h, NEW R, NEW par, Linked(h, R, par), NEW i \in R,
         NEW a \in Live(h), a \notin Owned(h, i), NEW n \in Live(h), par[n] = a
  PROVE  LET g == InsertBefore(h, a, n, i)
         IN  /\ Linked(g, R \ {i}, [par EXCEPT ![i] = a])
             /\ Live(g) = Live(h) /\ SameItems(g, h)
<1> DEFINE g == InsertBefore(h, a, n, i)  own == [par EXCEPT ![i] = a]
           c == h[a].child  m == h[c].prev  q == h[n].prev
           l == IF n = c THEN a ELSE q
<1>0. /\ h \in [Items -> Item] /\ par \in [Items -> Items \cup {NoItem}] /\ NoItem \notin Items
      /\ R \subseteq Live(h) /\ Live(h) \subseteq Items /\ i \in Live(h) /\ i \in Items
      /\ a \in Items /\ a # NoItem /\ n \in Items /\ n # NoItem
  BY CJsonTreeAssumption, LiveIs DEF Linked
<1>1. /\ "ref" \notin h[a].flags /\ n \notin R
      /\ c \in Live(h) /\ c # NoItem /\ par[c] = a
      /\ m \in Live(h) /\ m # NoItem /\ par[m] = a /\ h[m].next = NoItem
      /\ q \in Live(h) /\ q # NoItem /\ par[q] = a
      /\ n # c => h[q].next = n /\ q # n
  BY <1>0, InList
<1>2. h[i].next = NoItem /\ h[i].prev = NoItem /\ par[i] = NoItem  BY DEF Linked, Apart
<1>3. a # i /\ c # i /\ m # i /\ q # i /\ n # i
  BY <1>0, <1>1, <1>2, OwnedIs
<1>4. own \in [Items -> Items \cup {NoItem}] /\ own[i] = a /\ \A j \in Items \ {i} : own[j] = par[j]
  BY <1>0
<1>5. c \in Items /\ q \in Items /\ m \in Items  BY <1>0, <1>1
<1>6. /\ g \in [Items -> Item] /\ SameItems(g, h)
      /\ \A j \in Items : /\ g[j].next = IF j = i THEN n ELSE IF n # c /\ j = q THEN i ELSE h[j].next
                          /\ g[j].prev = IF j = i THEN q ELSE IF j = n THEN i ELSE h[j].prev
                          /\ g[j].child = IF n = c /\ j = a THEN i ELSE h[j].child
  BY <1>0, <1>3, <1>5, Inserting
<1> HIDE DEF g, own, c, m, q
<1>7. Live(g) = Live(h)  BY <1>0, <1>6, SameLive
<1>8. \A j \in Live(h) : \A k : Edge(h, j, k) => k \in Live(h) /\ k \notin R  BY OneEdge
<1>9. l \in Live(h) /\ Edge(h, l, n) /\ Edge(h, a, c)
  BY <1>0, <1>1 DEF Edge, c
<1>10. (\A j \in Live(h) : Edge(h, j, n) => j = l) /\ (\A j \in Live(h) : Edge(h, j, c) => j = a)
  <2>1. \A j \in Live(h) : Edge(h, j, n) => j = l  BY <1>9, OneEdge
  <2>2. \A j \in Live(h) : Edge(h, j, c) => j = a  BY <1>0, <1>9, OneEdge
  <2> QED  BY <2>1, <2>2
<1>11. l \notin Owned(h, i) /\ n \notin Owned(h, i)  BY <1>1, NotBelow
<1>12. \A j \in Live(h) : \A k : Edge(g, j, k) => (Edge(h, j, k) /\ k # n) \/ (j = l /\ k = i) \/ (j = i /\ k = n)
  <2> SUFFICES ASSUME NEW j \in Live(h), NEW k, Edge(g, j, k)
               PROVE  (Edge(h, j, k) /\ k # n) \/ (j = l /\ k = i) \/ (j = i /\ k = n)
    OBVIOUS
  <2>1. j \in Items /\ k # NoItem /\ g[j].flags = h[j].flags  BY <1>0, <1>6 DEF Edge, SameItems
  <2>2. g[j].next = k \/ ("ref" \notin h[j].flags /\ g[j].child = k)  BY <2>1 DEF Edge
  <2>3. CASE g[j].next = k
    <3>1. (h[j].next = k /\ j # i /\ ~(n # c /\ j = q)) \/ (n # c /\ j = q /\ k = i) \/ (j = i /\ k = n)
      BY <1>6, <2>1, <2>3
    <3>2. ASSUME h[j].next = k, k = n  PROVE n # c /\ j = q
      <4>1. Edge(h, j, n)  BY <2>1, <3>2 DEF Edge
      <4>2. ~(n = c)
        <5> SUFFICES ASSUME n = c PROVE FALSE  OBVIOUS
        <5>1. \A x \in Live(h) : ~("ref" \notin h[x].flags /\ h[x].child = n)
          BY <1>0, <3>2, <4>1, OneEdge
        <5> QED  BY <1>0, <1>1, <5>1 DEF c
      <4> QED  BY <1>10, <4>1, <4>2
    <3> QED  BY <2>1, <3>1, <3>2 DEF Edge
  <2>4. CASE "ref" \notin h[j].flags /\ g[j].child = k
    <3>1. (h[j].child = k /\ ~(n = c /\ j = a)) \/ (n = c /\ j = a /\ k = i)  BY <1>6, <2>1, <2>4
    <3>2. ASSUME h[j].child = k, k = n  PROVE n = c /\ j = a
      <4>1. par[n] = j  BY <1>0, <2>1, <2>4, <3>2 DEF Linked, ListEnds
      <4> QED  BY <2>1, <3>2, <4>1 DEF c
    <3> QED  BY <2>1, <2>4, <3>1, <3>2 DEF Edge
  <2> QED  BY <2>2, <2>3, <2>4
<1>13. \A j \in Live(h) : \A k : Edge(h, j, k) /\ k # n => Edge(g, j, k)
  <2> SUFFICES ASSUME NEW j \in Live(h), NEW k, Edge(h, j, k), k # n
               PROVE  Edge(g, j, k)
    OBVIOUS
  <2>1. j \in Items /\ k # NoItem /\ g[j].flags = h[j].flags
    BY <1>0, <1>6 DEF Edge, SameItems
  <2>2. CASE h[j].next = k
    <3>1. j # i /\ ~(n # c /\ j = q)  BY <1>1, <1>2, <2>1, <2>2
    <3> QED  BY <1>6, <2>1, <2>2, <3>1 DEF Edge
  <2>3. CASE "ref" \notin h[j].flags /\ h[j].child = k
    <3>1. ~(n = c /\ j = a)  BY <2>3 DEF c
    <3> QED  BY <1>6, <2>1, <2>3, <3>1 DEF Edge
  <2> QED  BY <2>2, <2>3 DEF Edge
<1>14. Edge(g, l, i) /\ Edge(g, i, n)
  BY <1>0, <1>1, <1>3, <1>5, <1>6 DEF Edge, SameItems
<1>15. Solid(g)
  <2>1. ASSUME NEW j \in Items, g[j].type = "free"  PROVE g[j] = New
    <3>1. j \notin Live(h) /\ h[j] = New
      BY <1>0, <1>6, <1>7, <2>1, LiveIs DEF Linked, Solid
    <3>2. g[j].next = NoItem /\ g[j].prev = NoItem /\ g[j].child = NoItem /\ g[j].type = "free"
          /\ g[j].flags = {} /\ g[j].string = NoName /\ g[j] \in Item
      BY <1>0, <1>1, <1>5, <1>6, <3>1 DEF New, SameItems
    <3> QED  BY <3>2 DEF New, Item
  <2>2. \A j \in Live(g) : {g[j].next, g[j].prev, g[j].child} \subseteq Live(g) \cup {NoItem}
    BY <1>0, <1>1, <1>6, <1>7 DEF Linked, Solid
  <2> QED  BY <2>1, <2>2 DEF Solid
<1>16. ListEnds(g, own)
  <2> SUFFICES ASSUME NEW j \in Live(g), "ref" \notin g[j].flags, g[j].child # NoItem
               PROVE  /\ own[g[j].child] = j /\ g[g[j].child].prev \in Live(g)
                      /\ own[g[g[j].child].prev] = j /\ g[g[g[j].child].prev].next = NoItem
    BY DEF ListEnds
  <2>1. j \in Live(h) /\ j \in Items /\ "ref" \notin h[j].flags  BY <1>0, <1>6, <1>7 DEF SameItems
  <2>2. CASE j = a /\ n = c
    <3>1. g[j].child = i /\ q = m  BY <1>6, <2>1, <2>2 DEF q, m
    <3>2. g[i].prev = m /\ g[m].next = NoItem  BY <1>0, <1>1, <1>3, <1>5, <1>6, <2>2, <3>1
    <3> QED  BY <1>0, <1>1, <1>3, <1>4, <1>5, <1>7, <2>2, <3>1, <3>2
  <2>3. CASE j = a /\ n # c
    <3>1. m # q  BY <1>0, <1>1, <2>3
    <3>2. g[j].child = c /\ g[c].prev = m /\ g[m].next = NoItem  BY <1>1, <1>3, <1>5, <1>6, <2>1, <2>3, <3>1 DEF c, m
    <3> QED  BY <1>1, <1>3, <1>4, <1>5, <1>7, <2>3, <3>2
  <2>4. CASE j # a
    <3> DEFINE d == h[j].child  e == h[d].prev
    <3>1. g[j].child = d  BY <1>6, <2>1, <2>4
    <3>2. /\ par[d] = j /\ e \in Live(h) /\ d \in Live(h) /\ par[e] = j /\ h[e].next = NoItem
      BY <2>1, <3>1 DEF Linked, ListEnds, Solid
    <3>3. d # i /\ e # i /\ d # n /\ e # q  BY <1>0, <1>1, <1>2, <2>1, <2>4, <3>2
    <3>4. g[d].prev = e /\ g[e].next = NoItem  BY <1>0, <1>6, <3>2, <3>3
    <3> QED  BY <1>0, <1>4, <1>7, <3>1, <3>2, <3>3, <3>4
  <2> QED  BY <2>2, <2>3, <2>4
<1>17. Neighbours(g, own)
  <2> SUFFICES ASSUME NEW j \in Live(g), g[j].next # NoItem
               PROVE  own[g[j].next] = own[j] /\ g[g[j].next].prev = j
    BY DEF Neighbours
  <2>1. j \in Live(h) /\ j \in Items  BY <1>0, <1>7
  <2>2. CASE j = i
    <3>1. g[j].next = n  BY <1>6, <2>1, <2>2
    <3> QED  BY <1>0, <1>3, <1>4, <1>6, <2>2, <3>1
  <2>3. CASE n # c /\ j = q
    <3>1. g[j].next = i  BY <1>3, <1>6, <2>1, <2>3
    <3> QED  BY <1>0, <1>1, <1>3, <1>4, <1>6, <2>1, <2>3, <3>1
  <2>4. CASE j # i /\ ~(n # c /\ j = q)
    <3> DEFINE k == h[j].next
    <3>1. g[j].next = k  BY <1>6, <2>1, <2>4
    <3>2. k \in Live(h) /\ par[k] = par[j] /\ h[k].prev = j /\ Edge(h, j, k)
      BY <2>1, <3>1 DEF Linked, Neighbours, Solid, Edge
    <3>3. k # n
      <4> SUFFICES ASSUME k = n PROVE FALSE  OBVIOUS
      <4>1. j = l  BY <1>10, <2>1, <3>2
      <4>2. n = c /\ j = a  BY <2>4, <4>1
      <4>3. \A x \in Live(h) : ~("ref" \notin h[x].flags /\ h[x].child = n)
        BY <2>1, <3>2, OneEdge
      <4> QED  BY <1>0, <1>1, <4>2, <4>3 DEF c
    <3>4. k # i  BY <1>8, <2>1, <3>2
    <3>5. g[k].prev = j  BY <1>0, <1>6, <3>2, <3>3, <3>4
    <3> QED  BY <1>0, <1>4, <2>1, <2>4, <3>1, <3>2, <3>4, <3>5
  <2> QED  BY <2>2, <2>3, <2>4
<1>18. Apart(g, R \ {i}, own)
  <2> SUFFICES ASSUME NEW k \in R \ {i} PROVE own[k] = NoItem /\ g[k].next = NoItem /\ g[k].prev = NoItem
    BY DEF Apart
  <2>1. k \in Items /\ par[k] = NoItem /\ h[k].next = NoItem /\ h[k].prev = NoItem  BY <1>0 DEF Linked, Apart
  <2>2. k # q /\ k # n  BY <1>0, <1>1, <2>1
  <2> QED  BY <1>4, <1>6, <2>1, <2>2
<1>19. LedTo(g, R \ {i})
  <2> SUFFICES ASSUME NEW k \in Live(h), k \notin R \/ k = i PROVE \E j \in Live(h) : Edge(g, j, k)
    BY <1>7 DEF LedTo
  <2>1. CASE k = i  BY <1>9, <1>14, <2>1
  <2>2. CASE k = n  BY <1>0, <1>14, <2>2
  <2>3. CASE k # i /\ k # n
    <3>1. PICK j \in Live(h) : Edge(h, j, k)  BY <2>3 DEF Linked, LedTo
    <3> QED  BY <1>13, <2>3, <3>1
  <2> QED  BY <2>1, <2>2, <2>3
<1>20. Grounded(g)
  <2> SUFFICES ASSUME NEW S \in SUBSET Live(g), S # {}, \A k \in S : \E j \in S : Edge(g, j, k) PROVE FALSE
    BY DEF Grounded
  <2> DEFINE T == S \ Owned(h, i)
  <2>1. i \in S => l \in T
    <3> SUFFICES ASSUME i \in S PROVE l \in T  OBVIOUS
    <3>1. PICK j \in S : Edge(g, j, i)  OBVIOUS
    <3>2. ~Edge(h, j, i)  BY <1>7, <1>8, <3>1
    <3>3. j = l  BY <1>3, <1>7, <1>12, <3>1, <3>2
    <3> QED  BY <1>11, <3>1, <3>3
  <2>2. ASSUME NEW k \in T  PROVE \E j \in T : Edge(h, j, k)
    <3>1. PICK j \in S : Edge(g, j, k)  BY <2>2
    <3>2. k # i  BY <1>0, <2>2, OwnedIs
    <3>3. CASE k = n
      <4>1. j = i  BY <1>3, <1>7, <1>12, <3>1, <3>3
      <4> QED  BY <1>9, <2>1, <3>1, <3>3, <4>1
    <3>4. CASE k # n
      <4>1. Edge(h, j, k)  BY <1>7, <1>12, <3>1, <3>2, <3>4
      <4>2. j \notin Owned(h, i)  BY <1>0, <1>7, <2>2, <4>1, OwnedIs
      <4> QED  BY <3>1, <4>1, <4>2
    <3> QED  BY <3>3, <3>4
  <2>3. T = {}
    <3>1. T \in SUBSET Live(h)  BY <1>7
    <3> HIDE DEF T
    <3> QED  BY <2>2, <3>1 DEF Linked, Grounded
  <2>4. i \notin S /\ n \notin S  BY <1>11, <2>1, <2>3
  <2>5. \A k \in S : \E j \in S : Edge(h, j, k)  BY <1>7, <1>12, <2>4
  <2> QED  BY <1>7, <2>5 DEF Linked, Grounded
<1> QED
  <2>1. R \ {i} \subseteq Live(g)  BY <1>0, <1>7
  <2>2. Linked(g, R \ {i}, own)
    BY <1>4, <1>6, <2>1, <1>15, <1>16, <1>17, <1>18, <1>19, <1>20 DEF Linked
  <2> QED  BY <1>6, <1>7, <2>2 DEF g, own

\* The root r takes the place of the item i of p: as if i were detached and r added there.
LEMMA Replaced ==
  ASSUME NEW h, NEW R, NEW par, Linked(h, R, par), NEW i \in Live(h), NEW p \in Live(h), par[i] = p,
         NEW r \in R, p \notin Owned(h, r)
  PROVE  LET g == ReplaceItem(h, p, i, r)
         IN  /\ \E own : Linked(g, (R \ {r}) \cup {i}, own)
             /\ Live(g) = Live(h) /\ SameItems(g, h) /\ i \notin R
<1> DEFINE g == ReplaceItem(h, p, i, r)  g1 == DetachItem(h, p, i)  own == [par EXCEPT ![i] = NoItem]
           c == h[p].child  m == h[c].prev  q == h[i].prev  n == h[i].next
<1>0. /\ h \in [Items -> Item] /\ par \in [Items -> Items \cup {NoItem}] /\ NoItem \notin Items
      /\ R \subseteq Live(h) /\ Live(h) \subseteq Items /\ i \in Items /\ p \in Items /\ p # NoItem
      /\ r \in Live(h) /\ r \in Items
  BY CJsonTreeAssumption, LiveIs DEF Linked
<1>1. /\ "ref" \notin h[p].flags /\ i \notin R
      /\ c \in Live(h) /\ c # NoItem /\ par[c] = p
      /\ m \in Live(h) /\ m # NoItem /\ par[m] = p /\ h[m].next = NoItem
      /\ q \in Live(h) /\ q # NoItem /\ par[q] = p
      /\ i # c => h[q].next = i /\ q # i
      /\ n # i
      /\ n # NoItem => n \in Live(h) /\ par[n] = p /\ h[n].prev = i /\ n # c
  BY <1>0, InList
<1>2. h[r].next = NoItem /\ h[r].prev = NoItem /\ par[r] = NoItem  BY DEF Linked, Apart
<1>3. p # r /\ c # r /\ m # r /\ q # r /\ n # r /\ i # r
  BY <1>0, <1>1, <1>2, OwnedIs
<1>4. c \in Items /\ q \in Items /\ m \in Items /\ n \in Items \cup {NoItem}  BY <1>0, <1>1
<1>5. /\ Linked(g1, R \cup {i}, own) /\ Live(g1) = Live(h) /\ SameItems(g1, h) /\ p \notin Owned(g1, r)
  BY Detached
<1>6. /\ g1 \in [Items -> Item]
      /\ \A j \in Items :
           /\ g1[j].next = IF j = i THEN NoItem ELSE IF c # i /\ j = q THEN n ELSE h[j].next
           /\ g1[j].prev = IF j = i THEN NoItem
                           ELSE IF j = n \/ (c # i /\ n = NoItem /\ j = c) THEN q ELSE h[j].prev
           /\ g1[j].child = IF c = i /\ j = p THEN n ELSE h[j].child
  BY <1>0, <1>1, <1>4, Detaching
<1>7. /\ g \in [Items -> Item] /\ SameItems(g, h)
      /\ \A j \in Items :
           /\ g[j].next = IF j = i THEN NoItem ELSE IF j = r THEN n
                          ELSE IF c # i /\ j = q THEN r ELSE h[j].next
           /\ g[j].prev = IF j = i THEN NoItem
                          ELSE IF j = r THEN (IF c = i /\ q = i THEN r ELSE q)
                          ELSE IF j = n \/ (c # i /\ n = NoItem /\ j = c) THEN r ELSE h[j].prev
           /\ g[j].child = IF c = i /\ j = p THEN r ELSE h[j].child
  BY <1>0, <1>1, <1>3, <1>4, Replacing
<1>8. q = i <=> c = i /\ n = NoItem
  <2>1. ASSUME c = i, n = NoItem  PROVE q = i
    \* the last item m has no next one, as i
    <3>1. m = q  BY <2>1
    <3> SUFFICES ASSUME q # i PROVE FALSE  OBVIOUS
    <3> DEFINE Q == {j \in Live(h) : par[j] = p} \ {i}
    <3>2. ASSUME NEW k \in Q  PROVE \E j \in Q : Edge(h, j, k)
      <4>1. k # c /\ k # NoItem /\ h[k].prev \in Live(h) /\ par[h[k].prev] = p /\ h[h[k].prev].next = k
        BY <1>0, <2>1, <3>2, InList
      <4>2. h[k].prev # i  BY <2>1, <4>1
      <4> QED  BY <4>1, <4>2 DEF Edge
    <3>3. q \in Q  BY <1>1
    <3>4. Q \in SUBSET Live(h)  OBVIOUS
    <3> HIDE DEF Q
    <3> QED  BY <3>2, <3>3, <3>4 DEF Linked, Grounded
  <2>2. ASSUME q = i  PROVE c = i /\ n = NoItem
    <3>1. c = i  BY <1>1, <2>2
    <3> QED  BY <1>1, <2>2, <3>1
  <2> QED  BY <2>1, <2>2
<1> HIDE DEF g, g1, own, c, m, q, n
<1> DEFINE Links(g2) == \A j \in Items : /\ g[j].next = g2[j].next /\ g[j].prev = g2[j].prev
                                         /\ g[j].child = g2[j].child
<1>9. \E g2, two : Linked(g2, (R \cup {i}) \ {r}, two) /\ SameItems(g2, h) /\ Links(g2)
  <2>0. /\ r \in R \cup {i} /\ p \in Live(g1) /\ "ref" \notin g1[p].flags /\ r \in Items
    BY <1>0, <1>1, <1>5 DEF SameItems
  <2>1. CASE n # NoItem
    <3> DEFINE g2 == InsertBefore(g1, p, n, r)  two == [own EXCEPT ![r] = p]
    <3>1. n \in Live(g1) /\ own[n] = p  BY <1>0, <1>1, <1>4, <1>5, <2>1 DEF own
    <3>2. Linked(g2, (R \cup {i}) \ {r}, two) /\ SameItems(g2, g1)  BY <1>5, <2>0, <3>1, Inserted
    <3> DEFINE d == g1[p].child  e == g1[n].prev
    <3>3. n \in Items /\ d = (IF c = i THEN n ELSE c) /\ e = q /\ d \in Items /\ q # i
      BY <1>0, <1>1, <1>4, <1>6, <1>8, <2>1 DEF c
    <3>4. \A j \in Items : /\ g2[j].next = IF j = r THEN n ELSE IF n # d /\ j = e THEN r ELSE g1[j].next
                           /\ g2[j].prev = IF j = r THEN e ELSE IF j = n THEN r ELSE g1[j].prev
                           /\ g2[j].child = IF n = d /\ j = p THEN r ELSE g1[j].child
      BY <1>0, <1>3, <1>4, <1>6, <3>3, Inserting
    <3> HIDE DEF g2, two, d, e
    <3>5. (n = d <=> c = i) /\ n # i  BY <1>1, <2>1, <3>3
    <3>6. Links(g2)
      <4> SUFFICES ASSUME NEW j \in Items PROVE g[j].next = g2[j].next /\ g[j].prev = g2[j].prev /\ g[j].child = g2[j].child
        OBVIOUS
      <4>1. g[j].next = g2[j].next  BY <1>3, <1>6, <1>7, <3>3, <3>4, <3>5
      <4>2. g[j].prev = g2[j].prev  BY <1>3, <1>6, <1>7, <2>1, <3>3, <3>4, <3>5
      <4>3. g[j].child = g2[j].child  BY <1>6, <1>7, <3>4, <3>5
      <4> QED  BY <4>1, <4>2, <4>3
    <3>7. SameItems(g2, h)  BY <1>5, <3>2 DEF SameItems
    <3> QED  BY <3>2, <3>6, <3>7
  <2>2. CASE n = NoItem
    <3> DEFINE g2 == add_item_to_array(g1, p, r)  two == [own EXCEPT ![r] = p]
    <3>1. Linked(g2, (R \cup {i}) \ {r}, two) /\ SameItems(g2, g1)  BY <1>5, <2>0, Appended
    <3>2. SameItems(g2, h)  BY <1>5, <3>1 DEF SameItems
    <3>3. CASE c = i
      <4>1. g1[p].child = NoItem /\ q = i  BY <1>0, <1>6, <1>8, <2>2, <3>3
      <4>2. \A j \in Items : /\ g2[j].next = IF j = r THEN NoItem ELSE g1[j].next
                             /\ g2[j].prev = IF j = r THEN r ELSE g1[j].prev
                             /\ g2[j].child = IF j = p THEN r ELSE g1[j].child
        BY <1>0, <1>3, <1>6, <4>1, AppendFirst
      <4> HIDE DEF g2, two
      <4>3. Links(g2)  BY <1>0, <1>3, <1>6, <1>7, <2>2, <3>3, <4>1, <4>2
      <4> QED  BY <3>1, <3>2, <4>3
    <3>4. CASE c # i
      <4>1. g1[p].child = c /\ g1[c].prev = q  BY <1>0, <1>4, <1>6, <2>2, <3>4 DEF c
      <4>2. \A j \in Items : /\ g2[j].next = IF j = q THEN r ELSE g1[j].next
                             /\ g2[j].prev = IF j = c THEN r ELSE IF j = r THEN q ELSE g1[j].prev
                             /\ g2[j].child = g1[j].child
        BY <1>0, <1>1, <1>3, <1>4, <1>6, <4>1, AppendAfter
      <4> HIDE DEF g2, two
      <4>3. g1[r].next = NoItem  BY <1>0, <1>2, <1>3, <1>6
      <4>4. Links(g2)
        <5> SUFFICES ASSUME NEW j \in Items PROVE g[j].next = g2[j].next /\ g[j].prev = g2[j].prev /\ g[j].child = g2[j].child
          OBVIOUS
        <5>1. g[j].next = g2[j].next  BY <1>1, <1>3, <1>6, <1>7, <2>2, <3>4, <4>2, <4>3
        <5>2. g[j].prev = g2[j].prev  BY <1>0, <1>3, <1>6, <1>7, <2>2, <3>4, <4>2
        <5>3. g[j].child = g2[j].child  BY <1>6, <1>7, <3>4, <4>2
        <5> QED  BY <5>1, <5>2, <5>3
      <4> QED  BY <3>1, <3>2, <4>4
    <3> QED  BY <3>3, <3>4
  <2> QED  BY <2>1, <2>2
<1>10. PICK g2, two : Linked(g2, (R \cup {i}) \ {r}, two) /\ SameItems(g2, h) /\ Links(g2)  BY <1>9
<1>11. Live(g) = Live(h)  BY <1>0, <1>7, SameLive
<1>12. ASSUME NEW j \in Items, g[j].type = "free"  PROVE g[j] = New
  <2>1. j \notin Live(h) /\ h[j] = New
    BY <1>0, <1>7, <1>11, <1>12, LiveIs DEF Linked, Solid
  <2>2. j # i /\ j # r /\ j # q /\ j # n /\ j # c /\ j # p  BY <1>0, <1>1, <2>1
  <2>3. g[j].next = NoItem /\ g[j].prev = NoItem /\ g[j].child = NoItem /\ g[j].type = "free"
        /\ g[j].flags = {} /\ g[j].string = NoName /\ g[j] \in Item
    BY <1>7, <1>12, <2>1, <2>2 DEF New, SameItems
  <2> QED  BY <2>3 DEF New, Item
<1>13. \A j \in Items : /\ g[j].next = g2[j].next /\ g[j].prev = g2[j].prev /\ g[j].child = g2[j].child
                        /\ "ref" \in g[j].flags <=> "ref" \in g2[j].flags
                        /\ g[j].type = "free" <=> g2[j].type = "free"
                        /\ g[j].type = "free" => g[j] = New
  BY <1>7, <1>10, <1>12 DEF SameItems
<1>14. Linked(g, (R \cup {i}) \ {r}, two)  BY <1>7, <1>10, <1>13, SameLinks DEF SameShape
<1>15. (R \cup {i}) \ {r} = (R \ {r}) \cup {i}  BY <1>3
<1> QED  BY <1>1, <1>7, <1>11, <1>14, <1>15 DEF g

\* A root is freed with what it owns, when no reference that stays points into that.
LEMMA Freed ==
  ASSUME NEW h, NEW R, NEW par, Linked(h, R, par), NEW i \in R, Unreferenced(h, Owned(h, i))
  PROVE  LET g == Free(h, Owned(h, i))
         IN  /\ Linked(g, R \ {i}, par)
             /\ Live(g) = Live(h) \ Owned(h, i)
             /\ \A j \in Live(g) : g[j] = h[j]
<1> DEFINE D == Owned(h, i)  g == Free(h, D)
<1>0. /\ h \in [Items -> Item] /\ par \in [Items -> Items \cup {NoItem}] /\ NoItem \notin Items
      /\ R \subseteq Live(h) /\ Live(h) \subseteq Items /\ i \in Items /\ i \in Live(h)
  BY CJsonTreeAssumption, LiveIs DEF Linked
<1>1. D \subseteq Live(h) /\ i \in D  BY <1>0, OwnedIs, OwnedAreLive
<1>2. \A j \in Live(h), k \in Items : Edge(h, j, k) => k \in Live(h) /\ (j \in D <=> k \in D)
  <2> SUFFICES ASSUME NEW j \in Live(h), NEW k \in Items, Edge(h, j, k)
               PROVE  k \in Live(h) /\ (j \in D <=> k \in D)
    OBVIOUS
  <2>1. k \in Live(h)  BY OneEdge
  <2>2. j \in D => k \in D  BY <1>0, OwnedIs
  <2>3. k \in D => j \in D  BY OnlyFromBelow
  <2> QED  BY <2>1, <2>2, <2>3
<1>3. \A j \in Live(h) : ~Edge(h, j, i)  BY OneEdge
<1>4. \A a \in Live(h) \ D, k \in Live(h) : par[k] = a => k \notin D  BY NotBelow
<1>5. New \in Item /\ New.type = "free" /\ New.next = NoItem /\ New.prev = NoItem /\ New.child = NoItem
  BY DEF New, Item
<1>6. g \in [Items -> Item] /\ \A j \in Items : g[j] = IF j \in D THEN New ELSE h[j]
  BY <1>0, <1>5 DEF Free
<1>7. \A r \in Live(h) \ D : "ref" \in h[r].flags => h[r].child \notin D  BY DEF Unreferenced
<1> HIDE DEF D, g
<1>8. Live(g) = Live(h) \ D /\ \A j \in Live(g) : g[j] = h[j]  BY <1>0, <1>1, <1>5, <1>6, LiveIs
<1>9. \A j \in Live(g) : \A k : Edge(g, j, k) <=> Edge(h, j, k)  BY <1>8 DEF Edge
<1>10. \A j \in Live(g) : h[j].next \notin D /\ h[j].child \notin D
  <2> SUFFICES ASSUME NEW j \in Live(g) PROVE h[j].next \notin D /\ h[j].child \notin D  OBVIOUS
  <2>1. j \in Live(h) /\ j \notin D  BY <1>8
  <2>2. h[j].next \notin D
    <3> SUFFICES ASSUME h[j].next \in D PROVE FALSE  OBVIOUS
    <3>1. Edge(h, j, h[j].next) /\ h[j].next \in Items  BY <1>0, <1>1 DEF Edge
    <3> QED  BY <1>2, <1>3, <2>1, <3>1
  <2>3. h[j].child \notin D
    <3> SUFFICES ASSUME h[j].child \in D PROVE FALSE  OBVIOUS
    <3>1. "ref" \notin h[j].flags  BY <1>7, <2>1
    <3>2. Edge(h, j, h[j].child) /\ h[j].child \in Items  BY <1>0, <1>1, <3>1 DEF Edge
    <3> QED  BY <1>2, <1>3, <2>1, <3>2
  <2> QED  BY <2>2, <2>3
<1>11. \A j \in Live(g) : h[j].prev \notin D
  <2> SUFFICES ASSUME NEW j \in Live(g) PROVE h[j].prev \notin D  OBVIOUS
  <2> DEFINE p == par[j]  q == h[j].prev
  <2>1. j \in Live(h) /\ j \notin D /\ j \in Items  BY <1>0, <1>8
  <2>2. CASE j \in R
    <3>1. q = NoItem  BY <2>2 DEF Linked, Apart
    <3> QED  BY <1>0, <1>1, <3>1
  <2>3. CASE j \notin R
    <3>1. PICK l \in Live(h) : Edge(h, l, j)  BY <2>1, <2>3 DEF Linked, LedTo
    <3>2. l \notin D  BY <1>2, <1>3, <2>1, <3>1
    <3>3. CASE h[l].next = j
      <4>1. q = l  BY <1>0, <2>1, <3>1, <3>3 DEF Linked, Neighbours
      <4> QED  BY <3>2, <4>1
    <3>4. CASE "ref" \notin h[l].flags /\ h[l].child = j
      <4>1. q \in Live(h) /\ par[q] = l  BY <1>0, <2>1, <3>1, <3>4 DEF Linked, ListEnds
      <4> QED  BY <1>4, <3>2, <4>1
    <3> QED  BY <3>1, <3>3, <3>4 DEF Edge
  <2> QED  BY <2>2, <2>3
<1>12. Solid(g)
  <2>1. \A j \in Items : g[j].type = "free" => g[j] = New  BY <1>6 DEF Linked, Solid
  <2>2. \A j \in Live(g) : {g[j].next, g[j].prev, g[j].child} \subseteq Live(g) \cup {NoItem}
    <3> SUFFICES ASSUME NEW j \in Live(g)
                 PROVE  {g[j].next, g[j].prev, g[j].child} \subseteq Live(g) \cup {NoItem}
      OBVIOUS
    <3>1. {h[j].next, h[j].prev, h[j].child} \subseteq Live(h) \cup {NoItem}
      BY <1>8 DEF Linked, Solid
    <3> QED  BY <1>8, <1>10, <1>11, <3>1
  <2> QED  BY <2>1, <2>2 DEF Solid
<1>13. ListEnds(g, par)
  <2> SUFFICES ASSUME NEW j \in Live(g), "ref" \notin g[j].flags, g[j].child # NoItem
               PROVE  /\ par[g[j].child] = j /\ g[g[j].child].prev \in Live(g)
                      /\ par[g[g[j].child].prev] = j /\ g[g[g[j].child].prev].next = NoItem
    BY DEF ListEnds
  <2> DEFINE c == h[j].child  m == h[c].prev
  <2>1. j \in Live(h) /\ g[j] = h[j]  BY <1>8
  <2>2. c \in Live(h) /\ c \notin D /\ par[c] = j /\ m \in Live(h) /\ par[m] = j /\ h[m].next = NoItem
    BY <1>10, <2>1 DEF Linked, ListEnds, Solid
  <2>3. c \in Live(g)  BY <1>8, <2>2
  <2>4. m \notin D  BY <1>11, <2>3
  <2> QED  BY <1>8, <2>1, <2>2, <2>3, <2>4
<1>14. Neighbours(g, par)
  <2> SUFFICES ASSUME NEW j \in Live(g), g[j].next # NoItem
               PROVE  par[g[j].next] = par[j] /\ g[g[j].next].prev = j
    BY DEF Neighbours
  <2>1. j \in Live(h) /\ g[j] = h[j]  BY <1>8
  <2>2. h[j].next \in Live(h) /\ h[j].next \notin D  BY <1>10, <2>1 DEF Linked, Solid
  <2>3. g[h[j].next] = h[h[j].next]  BY <1>8, <2>2
  <2> QED  BY <2>1, <2>3 DEF Linked, Neighbours
<1>15. \A k \in R \ {i} : k \in Live(g)
  <2> SUFFICES ASSUME NEW k \in R, k # i, k \in D PROVE FALSE  BY <1>0, <1>8
  <2>1. PICK l \in D : Edge(h, l, k)  BY <1>0, LastStep DEF D
  <2> QED  BY <1>1, <2>1, OneEdge
<1>16. Apart(g, R \ {i}, par)  BY <1>8, <1>15 DEF Linked, Apart
<1>17. LedTo(g, R \ {i})
  <2> SUFFICES ASSUME NEW k \in Live(g), k \notin R \ {i} PROVE \E j \in Live(g) : Edge(g, j, k)
    BY DEF LedTo
  <2>1. k \in Live(h) /\ k \notin D /\ k \notin R /\ k \in Items  BY <1>0, <1>1, <1>8
  <2>2. PICK j \in Live(h) : Edge(h, j, k)  BY <2>1 DEF Linked, LedTo
  <2>3. j \in Live(g)  BY <1>2, <1>3, <1>8, <2>1, <2>2
  <2> QED  BY <1>9, <2>2, <2>3
<1>18. Grounded(g)
  <2> SUFFICES ASSUME NEW S \in SUBSET Live(g), S # {} PROVE \E k \in S : \A j \in S : ~Edge(g, j, k)
    BY DEF Grounded
  <2>1. S \in SUBSET Live(h)  BY <1>8
  <2>2. PICK k \in S : \A j \in S : ~Edge(h, j, k)  BY <2>1 DEF Linked, Grounded
  <2> QED  BY <1>9, <2>2
<1> QED
  <2>1. Linked(g, R \ {i}, par)
    BY <1>0, <1>6, <1>12, <1>13, <1>14, <1>15, <1>16, <1>17, <1>18 DEF Linked
  <2> QED  BY <1>8, <2>1 DEF g, D

\* Every item is under a root.
LEMMA AllOwned ==
  ASSUME NEW h, NEW R, NEW par, Linked(h, R, par)
  PROVE  Live(h) = UNION {Owned(h, i) : i \in R}
<1> DEFINE U == UNION {Owned(h, i) : i \in R}  S == Live(h) \ U
<1>0. h \in [Items -> Item] /\ R \subseteq Live(h) /\ Live(h) \subseteq Items  BY LiveIs DEF Linked
<1>1. U \subseteq Live(h)  BY <1>0, OwnedAreLive
<1>2. ASSUME NEW k \in S  PROVE \E j \in S : Edge(h, j, k)
  <2>1. k \notin R  BY <1>0, OwnedIs
  <2>2. PICK j \in Live(h) : Edge(h, j, k)  BY <2>1 DEF Linked, LedTo
  <2>3. j \notin U
    <3> SUFFICES ASSUME NEW i \in R, j \in Owned(h, i) PROVE FALSE  OBVIOUS
    <3>1. k \in Owned(h, i)  BY <1>0, <2>2, OwnedIs
    <3> QED  BY <3>1
  <2> QED  BY <2>2, <2>3
<1>3. S = {}
  <2>1. S \in SUBSET Live(h)  OBVIOUS
  <2> HIDE DEF S
  <2> QED  BY <1>2, <2>1 DEF Linked, Grounded
<1> QED  BY <1>1, <1>3

-----------------------------------------------------------------------------
(* The walk of get_array_item *)

\* There is a least number in a set of numbers.
LEMMA LeastIsThere ==
  ASSUME NEW S \in SUBSET Nat, S # {}
  PROVE  \E p \in S : \A q \in S : p <= q
<1> DEFINE Smaller == {ss \in Nat \X Nat : ss[1] < ss[2]}
<1>1. IsWellFoundedOn(Smaller, Nat)  BY NatLessThanWellFounded DEF OpToRel
<1> HIDE DEF Smaller
<1>2. PICK p \in S : \A q \in S : ~(<<q, p>> \in Smaller)  BY <1>1, WFMin
<1>3. \A q \in S : ~(q < p)
  <2> SUFFICES ASSUME NEW q \in S, q < p  PROVE FALSE  OBVIOUS
  <2>1. <<q, p>> \in Nat \X Nat  OBVIOUS
  <2>2. <<q, p>> \in Smaller  BY <2>1 DEF Smaller
  <2> QED  BY <1>2, <2>2
<1> QED  BY <1>2, <1>3

\* Induction over the numbers up to a bound, for the set of those of which a thing is true.
LEMMA UpTo ==
  ASSUME NEW w \in Nat, NEW G, 0 \in G, \A n \in 0..w : n \in G /\ n < w => n + 1 \in G
  PROVE  \A n \in 0..w : n \in G
<1> DEFINE Bad == {n \in 0..w : n \notin G}
<1> SUFFICES ASSUME Bad # {} PROVE FALSE  OBVIOUS
<1>1. PICK m \in Bad : \A q \in Bad : m <= q
  <2>1. Bad \in SUBSET Nat  OBVIOUS
  <2> HIDE DEF Bad
  <2> QED  BY <2>1, LeastIsThere
<1>2. m - 1 \in 0..w /\ m - 1 < w /\ (m - 1) + 1 = m /\ ~(m <= m - 1)  OBVIOUS
<1>3. m - 1 \in G  BY <1>1, <1>2
<1> QED  BY <1>2, <1>3

Step(h, i) == IF i = NoItem THEN NoItem ELSE h[i].next

WalkTo(h, a, w, f) ==
  f = [n \in 0..w |-> IF n = 0 THEN h[a].child ELSE Step(h, f[n - 1])]

LEMMA WalkAt ==
  ASSUME NEW h, NEW a, NEW w \in Nat, NEW f, WalkTo(h, a, w, f)
  PROVE  /\ f[0] = h[a].child
         /\ \A n \in 0..w : n # 0 => f[n] = Step(h, f[n - 1])
<1> DEFINE B(n) == IF n = 0 THEN h[a].child ELSE Step(h, f[n - 1])
<1>1. f = [n \in 0..w |-> B(n)]  BY Zenon DEF WalkTo
<1>2. \A i \in 0..w : f[i] = B(i)
  <2> TAKE i \in 0..w
  <2>1. [n \in 0..w |-> B(n)][i] = B(i)  OBVIOUS
  <2> QED  BY <1>1, <2>1
<1>3. 0 \in 0..w  OBVIOUS
<1> QED  BY <1>2, <1>3

\* The walk along next, as a function of how far it has gone.
LEMMA WalkThere ==
  ASSUME NEW h, NEW a, NEW w \in Nat
  PROVE  \E f : WalkTo(h, a, w, f)
<1> DEFINE G == {n \in Nat : \E f : WalkTo(h, a, n, f)}
<1>1. 0 \in G
  <2> DEFINE f == [n \in 0..0 |-> h[a].child]
  <2>1. WalkTo(h, a, 0, f)  BY DEF WalkTo
  <2> QED  BY <2>1
<1>2. ASSUME NEW n \in Nat, n \in G  PROVE n + 1 \in G
  <2>1. PICK f : WalkTo(h, a, n, f)  BY <1>2
  <2>2. f[0] = h[a].child /\ \A k \in 0..n : k # 0 => f[k] = Step(h, f[k - 1])
    BY <2>1, WalkAt
  <2> DEFINE g == [m \in 0..(n + 1) |-> IF m = 0 THEN h[a].child ELSE Step(h, f[m - 1])]
  <2>3. \A m \in 0..(n + 1) : m # 0 => g[m - 1] = f[m - 1]
    <3> SUFFICES ASSUME NEW m \in 0..(n + 1), m # 0 PROVE g[m - 1] = f[m - 1]  OBVIOUS
    <3>1. m - 1 \in 0..n /\ m - 1 \in 0..(n + 1)  OBVIOUS
    <3>2. g[m - 1] = IF m - 1 = 0 THEN h[a].child ELSE Step(h, f[m - 1 - 1])  BY <3>1
    <3> QED  BY <2>2, <3>1, <3>2
  <2> HIDE DEF g
  <2>4. g = [m \in 0..(n + 1) |-> IF m = 0 THEN h[a].child ELSE Step(h, f[m - 1])]  BY DEF g
  <2>5. WalkTo(h, a, n + 1, g)  BY <2>3, <2>4 DEF WalkTo
  <2> QED  BY <2>5
<1> HIDE DEF G
<1>3. w \in G  BY <1>1, <1>2, UpTo
<1> QED  BY <1>3 DEF G

\* The item that get_array_item is at after n steps.
LEMMA WalkIs ==
  ASSUME NEW h, NEW a
  PROVE  /\ GetArrayItem(h, a, 0) = h[a].child
         /\ \A n \in Nat : GetArrayItem(h, a, n + 1) =
              Step(h, GetArrayItem(h, a, n))
<1> DEFINE At(w) == CHOOSE f : WalkTo(h, a, w, f)
<1>1. \A w \in Nat : WalkTo(h, a, w, At(w))  BY WalkThere
<1>2. \A w \in Nat : GetArrayItem(h, a, w) = At(w)[w]
  <2> TAKE w \in Nat
  <2>1. ~(w < 0)  OBVIOUS
  <2>2. GetArrayItem(h, a, w) = IF w < 0 THEN NoItem ELSE At(w)[w]  BY Zenon DEF GetArrayItem, WalkTo, Step
  <2> QED  BY <2>1, <2>2
<1> HIDE DEF At
<1>3. ASSUME NEW w \in Nat
      PROVE  /\ At(w)[0] = h[a].child
             /\ \A n \in 0..w : n # 0 => At(w)[n] = Step(h, At(w)[n - 1])
  BY <1>1, WalkAt
<1>4. ASSUME NEW w \in Nat  PROVE \A n \in 0..w : At(w)[n] = At(w + 1)[n]
  <2> DEFINE G == {n \in 0..w : At(w)[n] = At(w + 1)[n]}
  <2>1. 0 \in G  BY <1>3
  <2>2. ASSUME NEW n \in 0..w, n \in G, n < w  PROVE n + 1 \in G
    <3>1. n + 1 \in 0..w /\ n + 1 # 0 /\ (n + 1) - 1 = n /\ n + 1 \in 0..(w + 1)  BY <2>2
    <3>2. w + 1 \in Nat  OBVIOUS
    <3>3. At(w)[n + 1] = Step(h, At(w)[(n + 1) - 1])  BY <1>3, <3>1
    <3>4. At(w + 1)[n + 1] = Step(h, At(w + 1)[(n + 1) - 1])
      BY <1>3, <3>1, <3>2
    <3>5. At(w)[n] = At(w + 1)[n]  BY <2>2
    <3>6. At(w)[n + 1] = At(w + 1)[n + 1]  BY <3>1, <3>3, <3>4, <3>5
    <3> QED  BY <3>1, <3>6
  <2> HIDE DEF G
  <2>3. \A n \in 0..w : n \in G  BY <2>1, <2>2, UpTo
  <2> QED  BY <2>3 DEF G
<1>5. GetArrayItem(h, a, 0) = h[a].child  BY <1>2, <1>3
<1>6. ASSUME NEW n \in Nat
      PROVE  GetArrayItem(h, a, n + 1) = Step(h, GetArrayItem(h, a, n))
  <2>1. n + 1 \in Nat /\ n + 1 \in 0..(n + 1) /\ n + 1 # 0 /\ (n + 1) - 1 = n /\ n \in 0..n  OBVIOUS
  <2>2. At(n + 1)[n + 1] = Step(h, At(n + 1)[(n + 1) - 1])
    BY <1>3, <2>1
  <2>3. At(n)[n] = At(n + 1)[n]  BY <1>4, <2>1
  <2>4. GetArrayItem(h, a, n + 1) = At(n + 1)[n + 1] /\ GetArrayItem(h, a, n) = At(n)[n]  BY <1>2, <2>1
  <2> QED  BY <2>1, <2>2, <2>3, <2>4
<1> QED  BY <1>5, <1>6

LEMMA MinIs ==
  ASSUME NEW S \in SUBSET Nat, S # {}
  PROVE  Min(S) \in S /\ \A q \in S : Min(S) <= q
BY LeastIsThere DEF Min

\* The items that get_array_item comes to are those of the list.
LEMMA WalkLive ==
  ASSUME NEW h, NEW R, NEW par, Linked(h, R, par), NEW a \in Live(h), "ref" \notin h[a].flags, NEW n \in Nat,
         GetArrayItem(h, a, n) # NoItem
  PROVE  GetArrayItem(h, a, n) \in Live(h) /\ par[GetArrayItem(h, a, n)] = a
<1> DEFINE w(m) == GetArrayItem(h, a, m)
           G == {m \in Nat : w(m) # NoItem => w(m) \in Live(h) /\ par[w(m)] = a}
<1>1. w(0) = h[a].child /\ \A m \in Nat : w(m + 1) = Step(h, w(m))  BY WalkIs
<1> HIDE DEF w
<1>2. 0 \in G  BY <1>1 DEF Linked, Solid, ListEnds
<1>3. ASSUME NEW m \in 0..n, m \in G, m < n  PROVE m + 1 \in G
  <2>1. m + 1 \in Nat /\ m \in Nat  OBVIOUS
  <2>2. w(m + 1) = Step(h, w(m))  BY <1>1, <2>1
  <2>3. ASSUME w(m + 1) # NoItem  PROVE w(m + 1) \in Live(h) /\ par[w(m + 1)] = a
    <3>1. w(m) # NoItem /\ w(m + 1) = h[w(m)].next  BY <2>2, <2>3 DEF Step
    <3>2. w(m) \in Live(h) /\ par[w(m)] = a  BY <1>3, <3>1
    <3> QED  BY <2>3, <3>1, <3>2 DEF Linked, Solid, Neighbours
  <2> QED  BY <2>1, <2>3
<1> HIDE DEF G
<1>4. n \in G
  <2>1. \A m \in 0..n : m \in G  BY <1>2, <1>3, UpTo
  <2> QED  BY <2>1
<1> QED  BY <1>4 DEF G, w

\* No item before the last is come to twice.
LEMMA WalkOnce ==
  ASSUME NEW h, NEW R, NEW par, Linked(h, R, par), NEW a \in Live(h), "ref" \notin h[a].flags,
         NEW m \in Nat, NEW n \in Nat, m < n, GetArrayItem(h, a, n) # NoItem
  PROVE  GetArrayItem(h, a, m) # GetArrayItem(h, a, n)
<1> DEFINE w(k) == GetArrayItem(h, a, k)
           Bad == {k \in Nat : \E l \in Nat : k < l /\ w(l) # NoItem /\ w(k) = w(l)}
<1>1. w(0) = h[a].child /\ \A k \in Nat : w(k + 1) = Step(h, w(k))  BY WalkIs
<1>2. \A k \in Nat : w(k) # NoItem => w(k) \in Live(h)  BY WalkLive
<1> HIDE DEF w
<1>3. \A k \in Nat : w(k + 1) # NoItem => w(k) # NoItem /\ w(k) \in Live(h) /\ h[w(k)].next = w(k + 1)
  BY <1>1, <1>2 DEF Step
<1>4. \A k \in Nat : w(k + 1) # NoItem => h[w(k + 1)].prev = w(k) /\ Edge(h, w(k), w(k + 1))
  BY <1>3 DEF Linked, Neighbours, Edge
<1>5. Bad = {}
  <2> SUFFICES ASSUME Bad # {}  PROVE FALSE  OBVIOUS
  <2>1. PICK k \in Bad : \A q \in Bad : k <= q
    <3>1. Bad \in SUBSET Nat  OBVIOUS
    <3> HIDE DEF Bad
    <3> QED  BY <3>1, LeastIsThere
  <2>2. PICK l \in Nat : k < l /\ w(l) # NoItem /\ w(k) = w(l)  OBVIOUS
  <2>3. PICK j \in Nat : j + 1 = l
    <3>1. k \in Nat  OBVIOUS
    <3>2. l - 1 \in Nat /\ (l - 1) + 1 = l  BY <2>2, <3>1
    <3> QED  BY <3>2
  <2>4. w(j) \in Live(h) /\ Edge(h, w(j), w(l)) /\ h[w(j)].next = w(l) /\ h[w(l)].prev = w(j) /\ w(j) # NoItem
    BY <1>3, <1>4, <2>2, <2>3
  <2>5. CASE k = 0
    <3>1. Edge(h, a, w(l)) /\ h[a].child = w(l)  BY <1>1, <2>2, <2>5 DEF Edge
    <3> QED  BY <2>4, <3>1, OneEdge
  <2>6. CASE k # 0
    <3>1. PICK i \in Nat : i + 1 = k
      <4>1. k \in Nat  OBVIOUS
      <4>2. k - 1 \in Nat /\ (k - 1) + 1 = k  BY <2>6, <4>1
      <4> QED  BY <4>2
    <3>2. w(i) = w(j)  BY <1>4, <2>2, <2>4, <3>1
    <3>3. i < j /\ ~(k <= i)  BY <2>2, <2>3, <3>1
    <3>4. i \in Bad  BY <2>4, <3>2, <3>3
    <3> QED  BY <2>1, <3>3, <3>4
  <2> QED  BY <2>5, <2>6
<1>6. w(m) # w(n)
  <2> SUFFICES ASSUME w(m) = w(n) PROVE FALSE  OBVIOUS
  <2>1. w(n) # NoItem  BY DEF w
  <2>2. m \in Bad  BY <2>1
  <2> QED  BY <1>5, <2>2
<1> QED  BY <1>6 DEF w

\* cJSON_GetArraySize counts up to the first place where cJSON_GetArrayItem finds nothing.
LEMMA SizeIs ==
  ASSUME NEW h \in [Items -> Item], NEW a
  PROVE  LET k == GetArraySize(h, a)
         IN  /\ k \in Nat
             /\ k <= Cardinality(Items) =>
                  GetArrayItem(h, a, k) = NoItem /\ \A n \in 0..k - 1 : GetArrayItem(h, a, n) # NoItem
             /\ (\E n \in 0..Cardinality(Items) : GetArrayItem(h, a, n) = NoItem) => k <= Cardinality(Items)
<1> DEFINE w(n) == GetArrayItem(h, a, n)  N == Cardinality(Items)
           Ends == {n \in 0..N : w(n) = NoItem}
<1>1. N \in Nat  BY CJsonTreeAssumption, FS_CardinalityType
<1>2. DOMAIN h = Items  OBVIOUS
<1>3. GetArraySize(h, a) = IF Ends = {} THEN N + 1 ELSE Min(Ends)
  <2>1. GetArraySize(h, a) =
          IF {n \in 0..Cardinality(DOMAIN h) : GetArrayItem(h, a, n) = NoItem} = {} THEN Cardinality(DOMAIN h) + 1
          ELSE Min({n \in 0..Cardinality(DOMAIN h) : GetArrayItem(h, a, n) = NoItem})
    BY Zenon DEF GetArraySize
  <2> QED  BY <1>2, <2>1, Zenon
<1> HIDE DEF N, w
<1>4. CASE Ends = {}
  <2>1. GetArraySize(h, a) = N + 1  BY <1>3, <1>4
  <2>2. ~(N + 1 <= N) /\ N + 1 \in Nat  BY <1>1
  <2> QED  BY <1>4, <2>1, <2>2 DEF w, N
<1>5. CASE Ends # {}
  <2>1. Ends \in SUBSET Nat  BY <1>1
  <2> DEFINE k == Min(Ends)
  <2>2. k \in Ends /\ \A q \in Ends : k <= q  BY <1>5, <2>1, MinIs
  <2>3. GetArraySize(h, a) = k  BY <1>3, <1>5
  <2> HIDE DEF k
  <2>4. k \in Nat /\ k <= N /\ w(k) = NoItem  BY <1>1, <2>2
  <2>5. \A n \in 0..k - 1 : w(n) # NoItem
    <3> SUFFICES ASSUME NEW n \in 0..k - 1, w(n) = NoItem PROVE FALSE  OBVIOUS
    <3>1. n \in 0..N /\ ~(k <= n)  BY <1>1, <2>4
    <3> QED  BY <2>2, <3>1
  <2> QED  BY <2>3, <2>4, <2>5 DEF w, N
<1> QED  BY <1>4, <1>5

\* get_object_item finds an item of the list, if any.
LEMMA ObjectItemIs ==
  ASSUME NEW h \in [Items -> Item], NEW o, NEW name, NEW sensitive, GetObjectItem(h, o, name, sensitive) # NoItem
  PROVE  \E n \in Nat : GetObjectItem(h, o, name, sensitive) = GetArrayItem(h, o, n)
<1> DEFINE Kid(n) == GetArrayItem(h, o, n)
           Stops == {n \in 0..GetArraySize(h, o) - 1 :
                  \/ Matches(name, h[Kid(n)].string, sensitive)
                  \/ sensitive /\ h[Kid(n)].string = NoName}
<1>1. GetObjectItem(h, o, name, sensitive) =
        IF Stops = {} \/ h[Kid(Min(Stops))].string = NoName THEN NoItem ELSE Kid(Min(Stops))
  BY Zenon DEF GetObjectItem
<1>2. Stops # {} /\ GetObjectItem(h, o, name, sensitive) = Kid(Min(Stops))  BY <1>1, Zenon
<1>3. GetArraySize(h, o) \in Nat  BY SizeIs
<1>4. Stops \in SUBSET Nat
  <2>1. \A n \in 0..GetArraySize(h, o) - 1 : n \in Nat  BY <1>3
  <2> QED  BY <2>1, Zenon
<1> HIDE DEF Stops
<1>5. Min(Stops) \in Nat  BY <1>2, <1>4, MinIs
<1> QED  BY <1>2, <1>5

\* The list of a ends, and its first prev is where.
LEMMA ListIs ==
  ASSUME NEW h, NEW R, NEW par, Linked(h, R, par), NEW a \in Live(h), "ref" \notin h[a].flags
  PROVE  LET k == GetArraySize(h, a)
         IN  /\ k \in Nat /\ k <= Cardinality(Items)
             /\ \A n \in 0..k - 1 : n # 0 => h[GetArrayItem(h, a, n)].prev = GetArrayItem(h, a, n - 1)
             /\ k # 0 => h[GetArrayItem(h, a, 0)].prev = GetArrayItem(h, a, k - 1)
<1> DEFINE w(n) == GetArrayItem(h, a, n)  N == Cardinality(Items)  k == GetArraySize(h, a)
<1>0. h \in [Items -> Item] /\ NoItem \notin Items /\ R \subseteq Live(h) /\ Live(h) \subseteq Items
  BY CJsonTreeAssumption, LiveIs DEF Linked
<1>1. N \in Nat /\ IsFiniteSet(Items)  BY CJsonTreeAssumption, FS_CardinalityType
<1>2. w(0) = h[a].child /\ \A n \in Nat : w(n + 1) = Step(h, w(n))  BY WalkIs
<1>3. \A n \in Nat : w(n) # NoItem => w(n) \in Live(h) /\ par[w(n)] = a  BY WalkLive
<1>4. \A m, n \in Nat : m < n /\ w(n) # NoItem => w(m) # w(n)  BY WalkOnce
<1>5. k \in Nat /\ k <= N /\ w(k) = NoItem /\ \A n \in 0..k - 1 : w(n) # NoItem
  <2>1. \E n \in 0..N : w(n) = NoItem
    <3> SUFFICES ASSUME \A n \in 0..N : w(n) # NoItem  PROVE FALSE  OBVIOUS
    <3> DEFINE f == [n \in 0..N |-> w(n)]
    <3>1. f \in [0..N -> Items]  BY <1>0, <1>1, <1>3
    <3>2. \A m, n \in 0..N : m # n => f[m] # f[n]
      <4> SUFFICES ASSUME NEW m \in 0..N, NEW n \in 0..N, m # n  PROVE f[m] # f[n]  OBVIOUS
      <4>1. m \in Nat /\ n \in Nat /\ (m < n \/ n < m)  BY <1>1
      <4>2. w(m) # w(n)  BY <1>4, <4>1
      <4> QED  BY <4>2
    <3>3. 0 \in Int /\ N \in Int /\ IsFiniteSet(0..N) /\ Cardinality(0..N) = N + 1
      BY <1>1, FS_Interval
    <3> HIDE DEF f
    <3>4. N < Cardinality(0..N)  BY <1>1, <3>3
    <3>5. \E x, y \in 0..N : x # y /\ f[x] = f[y]  BY <1>1, <3>1, <3>3, <3>4, FS_PigeonHole
    <3> QED  BY <3>2, <3>5
  <2> QED  BY <1>0, <2>1, SizeIs
<1> HIDE DEF w, k, N
<1>6. \A n \in Nat : w(n + 1) # NoItem => w(n) # NoItem /\ w(n) \in Live(h) /\ h[w(n)].next = w(n + 1)
  BY <1>2, <1>3 DEF Step
<1>7. \A n \in Nat : w(n + 1) # NoItem => h[w(n + 1)].prev = w(n)
  BY <1>6 DEF Linked, Neighbours
<1>8. \A n \in 0..k - 1 : n # 0 => h[w(n)].prev = w(n - 1)
  <2> SUFFICES ASSUME NEW n \in 0..k - 1, n # 0  PROVE h[w(n)].prev = w(n - 1)  OBVIOUS
  <2>1. n - 1 \in Nat /\ (n - 1) + 1 = n  BY <1>5
  <2> QED  BY <1>5, <1>7, <2>1
<1>9. ASSUME k # 0  PROVE h[w(0)].prev = w(k - 1)
  <2> DEFINE c == w(0)  m == h[c].prev  W == {w(n) : n \in 0..k - 1}
             Q == {x \in Live(h) : par[x] = a /\ x \notin W}
  <2>1. 0 \in 0..k - 1  BY <1>5, <1>9
  <2>2. c # NoItem /\ c \in W /\ c = h[a].child  BY <1>2, <1>5, <2>1
  <2>3. m \in Live(h) /\ par[m] = a /\ h[m].next = NoItem  BY <2>2 DEF Linked, ListEnds
  <2>4. Q = {}
    <3> SUFFICES ASSUME Q # {}  PROVE FALSE  OBVIOUS
    <3>1. PICK x \in Q : \A j \in Q : ~Edge(h, j, x)
      <4>1. Q \in SUBSET Live(h)  OBVIOUS
      <4> HIDE DEF Q
      <4> QED  BY <4>1 DEF Linked, Grounded
    <3>2. x \in Live(h) /\ par[x] = a /\ a # NoItem /\ x \in Items  BY <1>0
    <3>3. LET q == h[x].prev IN q \in Live(h) /\ par[q] = a /\ (x # h[a].child => h[q].next = x)
      BY <3>2, InList
    <3> DEFINE q == h[x].prev
    <3>4. x # h[a].child  BY <2>2
    <3>5. h[q].next = x /\ Edge(h, q, x) /\ x # NoItem  BY <1>0, <3>2, <3>3, <3>4 DEF Edge
    <3>6. q \in W  BY <3>1, <3>3, <3>5
    <3>7. PICK n \in 0..k - 1 : q = w(n)  BY <3>6
    <3>8. n \in Nat /\ n + 1 \in Nat  BY <1>5
    <3>9. w(n) # NoItem  BY <1>5
    <3>10. w(n + 1) = x  BY <1>2, <3>5, <3>7, <3>8, <3>9 DEF Step
    <3>11. n + 1 # k  BY <1>5, <3>5, <3>10
    <3>12. n + 1 \in 0..k - 1  BY <1>5, <3>11
    <3> QED  BY <3>10, <3>12
  <2>5. m \in W  BY <2>3, <2>4
  <2>6. PICK n \in 0..k - 1 : m = w(n)  BY <2>5
  <2>7. n \in Nat /\ n + 1 \in Nat /\ w(n) # NoItem  BY <1>5
  <2>8. w(n + 1) = NoItem  BY <1>2, <2>3, <2>6, <2>7 DEF Step
  <2>9. ~(n + 1 \in 0..k - 1)  BY <1>5, <2>8
  <2>10. n = k - 1  BY <1>5, <2>9
  <2> QED  BY <2>6, <2>10
<1> QED  BY <1>5, <1>8, <1>9 DEF w, k, N

\* Lists that are linked are whole: the walks along next end, each at the last item.
LEMMA LinkedIsWell ==
  ASSUME NEW R, NEW par, Linked(heap, R, par), held \subseteq R
  PROVE  WellLinked
<1>1. ASSUME NEW a \in Lists
      PROVE  LET s == Kids(heap, a) IN
               /\ Len(s) <= Cardinality(Items)
               /\ \A n \in DOMAIN s : heap[s[n]].prev = s[IF n = 1 THEN Len(s) ELSE n - 1]
  <2> DEFINE k == GetArraySize(heap, a)  w(n) == GetArrayItem(heap, a, n)  s == Kids(heap, a)
  <2>1. a \in Live(heap) /\ "ref" \notin heap[a].flags  BY DEF Lists
  <2>2. /\ k \in Nat /\ k <= Cardinality(Items)
        /\ \A n \in 0..k - 1 : n # 0 => heap[w(n)].prev = w(n - 1)
        /\ k # 0 => heap[w(0)].prev = w(k - 1)
    BY <2>1, ListIs
  <2> HIDE DEF w, k
  <2>3. s = [n \in 1..k |-> w(n - 1)]  BY DEF Kids, w, k
  <2> HIDE DEF s
  <2>4. Len(s) = k /\ DOMAIN s = 1..k  BY <2>2, <2>3
  <2>5. ASSUME NEW n \in 1..k  PROVE heap[s[n]].prev = s[IF n = 1 THEN k ELSE n - 1]
    <3>1. s[n] = w(n - 1)  BY <2>3
    <3>2. CASE n = 1
      <4>1. k # 0 /\ k \in 1..k /\ n - 1 = 0  BY <2>2, <3>2
      <4>2. s[k] = w(k - 1)  BY <2>3, <4>1
      <4> QED  BY <2>2, <3>1, <3>2, <4>1, <4>2
    <3>3. CASE n # 1
      <4>1. n - 1 \in 1..k /\ n - 1 \in 0..k - 1 /\ n - 1 # 0  BY <2>2, <3>3
      <4>2. s[n - 1] = w(n - 1 - 1)  BY <2>3, <4>1
      <4> QED  BY <2>2, <3>1, <3>3, <4>1, <4>2
    <3> QED  BY <3>2, <3>3
  <2> QED  BY <2>2, <2>4, <2>5 DEF s
<1>2. \A i \in held : heap[i].next = NoItem /\ heap[i].prev = NoItem  BY DEF Linked, Apart
<1> QED  BY <1>1, <1>2 DEF WellLinked

\* What is looked up in an item is in its list.
LEMMA Found ==
  ASSUME NEW h, NEW R, NEW par, Linked(h, R, par), NEW a \in Live(h), "ref" \notin h[a].flags
  PROVE  /\ \A which \in Int : GetArrayItem(h, a, which) # NoItem =>
              GetArrayItem(h, a, which) \in Live(h) /\ par[GetArrayItem(h, a, which)] = a
         /\ \A name, sensitive : GetObjectItem(h, a, name, sensitive) # NoItem =>
              GetObjectItem(h, a, name, sensitive) \in Live(h) /\ par[GetObjectItem(h, a, name, sensitive)] = a
<1>1. \A n \in Nat : GetArrayItem(h, a, n) # NoItem =>
        GetArrayItem(h, a, n) \in Live(h) /\ par[GetArrayItem(h, a, n)] = a
  BY WalkLive
<1>2. \A which \in Int : GetArrayItem(h, a, which) # NoItem => which \in Nat
  <2> SUFFICES ASSUME NEW which \in Int, which < 0  PROVE GetArrayItem(h, a, which) = NoItem  OBVIOUS
  <2> DEFINE At == CHOOSE f : WalkTo(h, a, which, f)
  <2>1. GetArrayItem(h, a, which) = IF which < 0 THEN NoItem ELSE At[which]  BY Zenon DEF GetArrayItem, WalkTo, Step
  <2> QED  BY <2>1
<1>3. ASSUME NEW name, NEW sensitive, GetObjectItem(h, a, name, sensitive) # NoItem
      PROVE  GetObjectItem(h, a, name, sensitive) \in Live(h) /\ par[GetObjectItem(h, a, name, sensitive)] = a
  <2>1. h \in [Items -> Item]  BY DEF Linked
  <2>2. PICK n \in Nat : GetObjectItem(h, a, name, sensitive) = GetArrayItem(h, a, n)  BY <1>3, <2>1, ObjectItemIs
  <2> QED  BY <1>1, <1>3, <2>2
<1> QED  BY <1>1, <1>2, <1>3
-----------------------------------------------------------------------------
(* The strings that items own *)

LEMMA StringsFinite ==
  ASSUME NEW h \in [Items -> Item], NEW S \in SUBSET Items
  PROVE  IsFiniteSet(OwnedStrings(h, S)) /\ Cardinality(OwnedStrings(h, S)) \in Nat
<1> DEFINE T == {"string", "valuestring"}
<1>1. IsFiniteSet(Items)  BY CJsonTreeAssumption
<1>2. IsFiniteSet(T)
  <2>1. IsFiniteSet({})  BY FS_EmptySet
  <2>2. IsFiniteSet({"string"})  BY FS_Singleton
  <2>3. T = {"string"} \cup {"valuestring"}  OBVIOUS
  <2> QED  BY <2>2, <2>3, FS_AddElement
<1>3. IsFiniteSet(Items \X T)  BY <1>1, <1>2, FS_Product
<1>4. OwnedStrings(h, S) \subseteq Items \X T  BY DEF OwnedStrings
<1>5. IsFiniteSet(OwnedStrings(h, S))  BY <1>3, <1>4, FS_Subset
<1> QED  BY <1>5, FS_CardinalityType

\* Strings have one owner each, so that those of two sets that are apart add up.
LEMMA StringsSum ==
  ASSUME NEW e \in [Items -> Item], NEW D \in SUBSET Items, NEW C \in SUBSET Items, D \cap C = {}
  PROVE  Cardinality(OwnedStrings(e, D \cup C)) = Cardinality(OwnedStrings(e, D)) + Cardinality(OwnedStrings(e, C))
<1>1. IsFiniteSet(OwnedStrings(e, D)) /\ IsFiniteSet(OwnedStrings(e, C))  BY StringsFinite
<1>2. OwnedStrings(e, D) \cap OwnedStrings(e, C) = {}
  <2> SUFFICES ASSUME NEW x \in OwnedStrings(e, D), x \in OwnedStrings(e, C)  PROVE FALSE  OBVIOUS
  <2>1. x[1] \in D /\ x[1] \in C  BY DEF OwnedStrings
  <2> QED  BY <2>1
<1>3. OwnedStrings(e, D \cup C) = OwnedStrings(e, D) \cup OwnedStrings(e, C)
  <2> SUFFICES ASSUME NEW x
               PROVE  x \in OwnedStrings(e, D \cup C) <=> x \in OwnedStrings(e, D) \/ x \in OwnedStrings(e, C)
    OBVIOUS
  <2> QED  BY DEF OwnedStrings
<1>4. Cardinality(OwnedStrings(e, D) \cup OwnedStrings(e, C)) =
        Cardinality(OwnedStrings(e, D)) + Cardinality(OwnedStrings(e, C))
        - Cardinality(OwnedStrings(e, D) \cap OwnedStrings(e, C))
  BY <1>1, FS_Union
<1>5. Cardinality(OwnedStrings(e, D) \cap OwnedStrings(e, C)) = 0  BY <1>2, FS_EmptySet, Zenon
<1>6. Cardinality(OwnedStrings(e, D)) \in Nat /\ Cardinality(OwnedStrings(e, C)) \in Nat  BY StringsFinite
<1>7. Cardinality(OwnedStrings(e, D \cup C)) =
        Cardinality(OwnedStrings(e, D)) + Cardinality(OwnedStrings(e, C))
        - Cardinality(OwnedStrings(e, D) \cap OwnedStrings(e, C))
  BY <1>3, <1>4, Zenon
<1> QED  BY <1>5, <1>6, <1>7

LEMMA StringsKept ==
  ASSUME NEW g, NEW h, NEW C,
         \A j \in C : g[j].type = h[j].type /\ g[j].flags = h[j].flags /\ g[j].string = h[j].string
  PROVE  OwnedStrings(g, C) = OwnedStrings(h, C)
BY DEF OwnedStrings

LEMMA NoStrings ==
  ASSUME NEW h \in [Items -> Item]
  PROVE  Cardinality(OwnedStrings(h, {})) = 0
<1>1. OwnedStrings(h, {}) = {}  BY DEF OwnedStrings
<1> QED  BY <1>1, FS_EmptySet

\* The strings of one item.
LEMMA ItsStrings ==
  ASSUME NEW h \in [Items -> Item], NEW i \in Items
  PROVE  /\ (h[i].string = NoName \/ "const" \in h[i].flags) /\ (h[i].type \notin Texts \/ "ref" \in h[i].flags) =>
              Cardinality(OwnedStrings(h, {i})) = 0
         /\ h[i].string = NoName /\ h[i].type \in Texts /\ "ref" \notin h[i].flags =>
              Cardinality(OwnedStrings(h, {i})) = 1
         /\ h[i].string # NoName /\ "const" \notin h[i].flags /\ "ref" \in h[i].flags =>
              Cardinality(OwnedStrings(h, {i})) = 1
<1>1. ASSUME h[i].string = NoName \/ "const" \in h[i].flags, h[i].type \notin Texts \/ "ref" \in h[i].flags
      PROVE  Cardinality(OwnedStrings(h, {i})) = 0
  <2>1. OwnedStrings(h, {i}) = {}  BY <1>1 DEF OwnedStrings
  <2> QED  BY <2>1, FS_EmptySet
<1>2. ASSUME h[i].string = NoName, h[i].type \in Texts, "ref" \notin h[i].flags
      PROVE  Cardinality(OwnedStrings(h, {i})) = 1
  <2>1. OwnedStrings(h, {i}) = {<<i, "valuestring">>}  BY <1>2 DEF OwnedStrings
  <2> QED  BY <2>1, FS_Singleton
<1>3. ASSUME h[i].string # NoName, "const" \notin h[i].flags, "ref" \in h[i].flags
      PROVE  Cardinality(OwnedStrings(h, {i})) = 1
  <2>1. OwnedStrings(h, {i}) = {<<i, "string">>}  BY <1>3 DEF OwnedStrings
  <2> QED  BY <2>1, FS_Singleton
<1> QED  BY <1>1, <1>2, <1>3

LEMMA SameStrings ==
  ASSUME NEW g, NEW h, NEW S \in SUBSET Items, SameItems(g, h)
  PROVE  OwnedStrings(g, S) = OwnedStrings(h, S)
BY DEF OwnedStrings, SameItems

\* Some items more, one item changed, some items less.
LEMMA StringsMore ==
  ASSUME NEW g \in [Items -> Item], NEW h \in [Items -> Item], NEW A \in SUBSET Items,
         A \cap Live(h) = {}, Live(g) = Live(h) \cup A, \A j \in Live(h) : g[j] = h[j]
  PROVE  Cardinality(OwnedStrings(g, Live(g))) =
           Cardinality(OwnedStrings(h, Live(h))) + Cardinality(OwnedStrings(g, A))
<1>1. Live(h) \in SUBSET Items  BY LiveIs
<1>2. OwnedStrings(g, Live(h)) = OwnedStrings(h, Live(h))  BY StringsKept
<1>3. Cardinality(OwnedStrings(g, A \cup Live(h))) =
        Cardinality(OwnedStrings(g, A)) + Cardinality(OwnedStrings(g, Live(h)))
  BY <1>1, StringsSum
<1>4. A \cup Live(h) = Live(g)  OBVIOUS
<1>5. Cardinality(OwnedStrings(g, Live(g))) =
        Cardinality(OwnedStrings(g, A)) + Cardinality(OwnedStrings(h, Live(h)))
  BY <1>2, <1>3, <1>4, Zenon
<1>6. Cardinality(OwnedStrings(h, Live(h))) \in Nat /\ Cardinality(OwnedStrings(g, A)) \in Nat
  BY <1>1, StringsFinite
<1> QED  BY <1>5, <1>6

LEMMA StringsChanged ==
  ASSUME NEW g \in [Items -> Item], NEW h \in [Items -> Item], NEW i \in Live(h),
         Live(g) = Live(h),
         \A j \in Items : j # i => g[j].type = h[j].type /\ g[j].flags = h[j].flags /\ g[j].string = h[j].string
  PROVE  Cardinality(OwnedStrings(g, Live(g))) =
           Cardinality(OwnedStrings(h, Live(h))) - Cardinality(OwnedStrings(h, {i})) + Cardinality(OwnedStrings(g, {i}))
<1> DEFINE C == Live(h) \ {i}
<1>1. C \in SUBSET Items /\ {i} \in SUBSET Items /\ {i} \cap C = {}  BY LiveIs
<1>2. \A j \in C : g[j].type = h[j].type /\ g[j].flags = h[j].flags /\ g[j].string = h[j].string  BY <1>1
<1>3. {i} \cup C = Live(g) /\ {i} \cup C = Live(h)  OBVIOUS
<1> HIDE DEF C
<1>4. OwnedStrings(g, C) = OwnedStrings(h, C)  BY <1>2, StringsKept
<1>5. Cardinality(OwnedStrings(g, {i} \cup C)) = Cardinality(OwnedStrings(g, {i})) + Cardinality(OwnedStrings(g, C))
  BY <1>1, StringsSum
<1>6. Cardinality(OwnedStrings(h, {i} \cup C)) = Cardinality(OwnedStrings(h, {i})) + Cardinality(OwnedStrings(h, C))
  BY <1>1, StringsSum
<1>7. /\ Cardinality(OwnedStrings(g, Live(g))) = Cardinality(OwnedStrings(g, {i})) + Cardinality(OwnedStrings(h, C))
      /\ Cardinality(OwnedStrings(h, Live(h))) = Cardinality(OwnedStrings(h, {i})) + Cardinality(OwnedStrings(h, C))
  BY <1>3, <1>4, <1>5, <1>6, Zenon
<1>8. /\ Cardinality(OwnedStrings(g, {i})) \in Nat /\ Cardinality(OwnedStrings(h, {i})) \in Nat
      /\ Cardinality(OwnedStrings(h, C)) \in Nat
  BY <1>1, StringsFinite
<1> QED  BY <1>7, <1>8

LEMMA StringsLess ==
  ASSUME NEW g \in [Items -> Item], NEW h \in [Items -> Item], NEW B \in SUBSET Live(h),
         Live(g) = Live(h) \ B, \A j \in Live(g) : g[j] = h[j]
  PROVE  Cardinality(OwnedStrings(g, Live(g))) =
           Cardinality(OwnedStrings(h, Live(h))) - Cardinality(OwnedStrings(h, B))
<1>1. Live(g) \in SUBSET Items /\ B \in SUBSET Items /\ B \cap Live(g) = {}  BY LiveIs
<1>2. OwnedStrings(g, Live(g)) = OwnedStrings(h, Live(g))  BY StringsKept
<1>3. Cardinality(OwnedStrings(h, B \cup Live(g))) = Cardinality(OwnedStrings(h, B)) + Cardinality(OwnedStrings(h, Live(g)))
  BY <1>1, StringsSum
<1>4. B \cup Live(g) = Live(h)  OBVIOUS
<1>5. Cardinality(OwnedStrings(h, Live(h))) = Cardinality(OwnedStrings(h, B)) + Cardinality(OwnedStrings(g, Live(g)))
  BY <1>2, <1>3, <1>4, Zenon
<1>6. Cardinality(OwnedStrings(g, Live(g))) \in Nat /\ Cardinality(OwnedStrings(h, B)) \in Nat
  BY <1>1, StringsFinite
<1> QED  BY <1>5, <1>6
-----------------------------------------------------------------------------
(* The invariant *)

\* The items are linked, under those that the program holds or has lost, and their strings
\* are the ones that are allocated.
Roots == held \cup lost

TreeInv ==
  /\ held \cap lost = {}
  /\ \E par : Linked(heap, Roots, par)
  /\ strs = Cardinality(OwnedStrings(heap, Live(heap)))

\* No item that there was is touched.
Undisturbed == \A j \in Live(heap) : heap'[j] = heap[j]

LEMMA InvIs ==
  ASSUME TreeInv
  PROVE  /\ heap \in [Items -> Item] /\ NoItem \notin Items
         /\ Roots \subseteq Live(heap) /\ Live(heap) \subseteq Items
         /\ strs = Cardinality(OwnedStrings(heap, Live(heap))) /\ strs \in Nat
         /\ \A i \in Unused : i \in Items /\ heap[i].type = "free" /\ heap[i] = New /\ i \notin Live(heap)
         /\ \A i \in Live(heap) : heap[i].type # "free" /\ i \in Items
<1>1. PICK par : Linked(heap, Roots, par)  BY DEF TreeInv
<1>2. heap \in [Items -> Item] /\ NoItem \notin Items /\ Roots \subseteq Live(heap) /\ Solid(heap)
  BY <1>1, CJsonTreeAssumption DEF Linked
<1>3. Live(heap) \subseteq Items /\ \A i \in Items : i \in Live(heap) <=> heap[i].type # "free"  BY <1>2, LiveIs
<1>4. strs = Cardinality(OwnedStrings(heap, Live(heap)))  BY DEF TreeInv
<1>5. strs \in Nat  BY <1>2, <1>3, <1>4, StringsFinite
<1>6. \A i \in Unused : i \in Items /\ i \notin Live(heap)  BY <1>2 DEF Unused
<1> QED  BY <1>2, <1>3, <1>4, <1>5, <1>6 DEF Solid

\* No item is used at first.
LEMMA InitTree == Init => TreeInv
<1> SUFFICES ASSUME Init PROVE TreeInv  OBVIOUS
<1>1. heap \in [Items -> Item]  BY CJsonTreeAssumption DEF Init, New, Item
<1>2. Live(heap) = {}  BY DEF Init, Live, New
<1> DEFINE par == [i \in Items |-> NoItem]
<1>3. Linked(heap, Roots, par)
  <2>1. Roots = {} /\ \A i \in Items : heap[i] = New  BY DEF Init, Roots
  <2> QED  BY <1>1, <1>2, <2>1 DEF Linked, Solid, ListEnds, Neighbours, Apart, LedTo, Grounded
<1>4. strs = Cardinality(OwnedStrings(heap, Live(heap)))  BY <1>1, <1>2, NoStrings DEF Init
<1> QED  BY <1>3, <1>4 DEF TreeInv, Init

\* A new item in no list.
LEMMA GrownTo ==
  ASSUME TreeInv, NEW i, NEW g, IsFresh(g, heap, i)
  PROVE  /\ \E own : Linked(g, With(Roots, i), own)
         /\ Live(g) = Live(heap) \cup {i} /\ Owned(g, i) = {i} /\ i \notin Live(heap)
         /\ Cardinality(OwnedStrings(g, Live(g))) = strs + Cardinality(OwnedStrings(g, {i}))
<1>0. heap \in [Items -> Item] /\ strs = Cardinality(OwnedStrings(heap, Live(heap)))
      /\ Live(heap) \subseteq Items /\ i \in Items /\ g \in [Items -> Item]
  BY InvIs DEF IsFresh
<1>1. PICK par : Linked(heap, Roots, par)  BY DEF TreeInv
<1>2. /\ \E own : Linked(g, With(Roots, i), own)
      /\ Live(g) = Live(heap) \cup {i} /\ Owned(g, i) = {i} /\ i \notin Live(heap)
  BY <1>1, FreshRoot
<1>3. \A j \in Live(heap) : g[j] = heap[j]  BY <1>0, <1>2 DEF IsFresh
<1>4. Cardinality(OwnedStrings(g, Live(g))) =
        Cardinality(OwnedStrings(heap, Live(heap))) + Cardinality(OwnedStrings(g, {i}))
  <2>1. {i} \in SUBSET Items /\ {i} \cap Live(heap) = {}  BY <1>0, <1>2
  <2> QED  BY <1>0, <1>2, <1>3, <2>1, StringsMore
<1> QED  BY <1>0, <1>2, <1>4

LEMMA NewIs ==
  ASSUME NEW kind \in Kinds
  PROVE  LET x == [New EXCEPT !.type = kind]
         IN  /\ x \in Item /\ x.type = kind /\ kind # "free" /\ x.next = NoItem /\ x.prev = NoItem
             /\ x.child = NoItem /\ x.flags = {} /\ x.string = NoName
             /\ kind \in Texts => kind \in Leaves
BY CJsonTreeAssumption DEF Kinds, New, Item

\* A call that makes an item of an unused block makes a fresh one.
LEMMA NewFresh ==
  ASSUME TreeInv, NEW i \in Unused, NEW x \in Item, x.type # "free", x.next = NoItem, x.prev = NoItem,
         x.child = NoItem \/ ("ref" \in x.flags /\ x.child \in Live(heap))
  PROVE  LET g == [heap EXCEPT ![i] = x]
         IN  IsFresh(g, heap, i) /\ g \in [Items -> Item] /\ g[i] = x /\ i \in Items
<1>1. heap \in [Items -> Item] /\ i \in Items /\ heap[i].type = "free"  BY InvIs
<1> DEFINE g == [heap EXCEPT ![i] = x]
<1>2. g \in [Items -> Item] /\ g[i] = x /\ \A j \in Items \ {i} : g[j] = heap[j]  BY <1>1
<1> HIDE DEF g
<1>3. IsFresh(g, heap, i)  BY <1>1, <1>2 DEF IsFresh
<1> QED  BY <1>1, <1>2, <1>3 DEF g

LEMMA CreateKeeps ==
  ASSUME TreeInv, NEW i \in Unused, NEW kind \in Kinds, Create(i, kind)
  PROVE  TreeInv'
<1> DEFINE x == [New EXCEPT !.type = kind]  g == [heap EXCEPT ![i] = x]
<1>1. heap' = g  BY DEF Create
<1>2. x \in Item /\ x.type = kind /\ kind # "free" /\ x.next = NoItem /\ x.prev = NoItem /\ x.child = NoItem
      /\ x.flags = {} /\ x.string = NoName
  BY NewIs
<1> HIDE DEF x
<1>3. IsFresh(g, heap, i) /\ g \in [Items -> Item] /\ g[i] = x /\ i \in Items  BY <1>2, NewFresh
<1> HIDE DEF g
<1>4. /\ \E own : Linked(g, With(Roots, i), own)
      /\ Live(g) = Live(heap) \cup {i} /\ i \notin Live(heap)
      /\ Cardinality(OwnedStrings(g, Live(g))) = strs + Cardinality(OwnedStrings(g, {i}))
  BY <1>3, GrownTo
<1>5. Cardinality(OwnedStrings(g, {i})) = IF kind \in Texts THEN 1 ELSE 0
  BY <1>2, <1>3, ItsStrings
<1>6. strs \in Nat /\ Roots \subseteq Live(heap) /\ held \cap lost = {}  BY InvIs DEF TreeInv
<1>7. strs' = Cardinality(OwnedStrings(g, Live(g)))  BY <1>4, <1>5, <1>6 DEF Create
<1>8. Roots' = With(Roots, i) /\ held' \cap lost' = {}  BY <1>4, <1>6 DEF Create, Roots, With
<1> QED  BY <1>1, <1>4, <1>7, <1>8 DEF TreeInv

-----------------------------------------------------------------------------
(* The steps that change one list *)

Counted(h) == Cardinality(OwnedStrings(h, Live(h)))

LEMMA CountedIs ==
  ASSUME NEW h \in [Items -> Item]
  PROVE  Counted(h) \in Nat
BY LiveIs, StringsFinite DEF Counted

LEMMA SameCounted ==
  ASSUME NEW h \in [Items -> Item], NEW g, Live(g) = Live(h), SameItems(g, h)
  PROVE  Counted(g) = Counted(h)
<1>1. Live(h) \in SUBSET Items  BY LiveIs
<1>2. OwnedStrings(g, Live(h)) = OwnedStrings(h, Live(h))  BY <1>1, SameStrings
<1> QED  BY <1>2, Zenon DEF Counted

\* A root goes to the end of the list of an item that is not under it.
LEMMA AppendKeeps ==
  ASSUME NEW h, NEW R, NEW par, Linked(h, R, par), NEW i \in R,
         NEW a \in Live(h), "ref" \notin h[a].flags, a \notin Owned(h, i)
  PROVE  LET g == add_item_to_array(h, a, i)
         IN  (\E own : Linked(g, Without(R, i), own)) /\ Counted(g) = Counted(h)
<1> DEFINE g == add_item_to_array(h, a, i)
<1>1. /\ Linked(g, R \ {i}, [par EXCEPT ![i] = a])
      /\ Live(g) = Live(h) /\ SameItems(g, h)
  BY Appended
<1>2. h \in [Items -> Item]  BY DEF Linked
<1> HIDE DEF g
<1>3. Counted(g) = Counted(h)  BY <1>1, <1>2, SameCounted
<1> QED  BY <1>1, <1>3 DEF g, With, Without

IsItemOf(n, a, h, par) == a \in Live(h) /\ n \in Live(h) /\ par[n] = a

\* A root goes before an item of a list.
LEMMA InsertKeeps ==
  ASSUME NEW h, NEW R, NEW par, Linked(h, R, par), NEW i \in R,
         NEW a, a \notin Owned(h, i), NEW n, IsItemOf(n, a, h, par)
  PROVE  LET g == InsertBefore(h, a, n, i)
         IN  (\E own : Linked(g, Without(R, i), own)) /\ Counted(g) = Counted(h)
<1> DEFINE g == InsertBefore(h, a, n, i)
<1>1. /\ Linked(g, R \ {i}, [par EXCEPT ![i] = a])
      /\ Live(g) = Live(h) /\ SameItems(g, h)
  BY Inserted DEF IsItemOf
<1>2. h \in [Items -> Item]  BY DEF Linked
<1> HIDE DEF g
<1>3. Counted(g) = Counted(h)  BY <1>1, <1>2, SameCounted
<1> QED  BY <1>1, <1>3 DEF g, With, Without

\* An item of a list becomes a root.
LEMMA DetachKeeps ==
  ASSUME NEW h, NEW R, NEW par, Linked(h, R, par), NEW i \in Live(h), NEW p \in Live(h), par[i] = p
  PROVE  LET g == DetachItem(h, p, i)
         IN  (\E own : Linked(g, With(R, i), own)) /\ Counted(g) = Counted(h) /\ i \notin R
<1> DEFINE g == DetachItem(h, p, i)
<1>1. /\ Linked(g, R \cup {i}, [par EXCEPT ![i] = NoItem])
      /\ Live(g) = Live(h) /\ SameItems(g, h) /\ i \notin R
      /\ \A r \in R : p \notin Owned(h, r) => p \notin Owned(g, r)
  BY Detached
<1>2. h \in [Items -> Item]  BY DEF Linked
<1> HIDE DEF g
<1>3. Counted(g) = Counted(h)  BY <1>1, <1>2, SameCounted
<1> QED  BY <1>1, <1>3 DEF g, With, Without

\* A root takes the place of an item of a list, which becomes a root.
LEMMA ReplaceKeeps ==
  ASSUME NEW h, NEW R, NEW par, Linked(h, R, par), NEW i \in Live(h), NEW p \in Live(h), par[i] = p,
         NEW r \in R, p \notin Owned(h, r)
  PROVE  LET g == ReplaceItem(h, p, i, r)
         IN  (\E own : Linked(g, With(Without(R, r), i), own)) /\ Counted(g) = Counted(h) /\ i \notin R
<1> DEFINE g == ReplaceItem(h, p, i, r)
<1>1. /\ \E own : Linked(g, (R \ {r}) \cup {i}, own)
      /\ Live(g) = Live(h) /\ SameItems(g, h) /\ i \notin R
  BY Replaced
<1>2. h \in [Items -> Item]  BY DEF Linked
<1> HIDE DEF g
<1>3. Counted(g) = Counted(h)  BY <1>1, <1>2, SameCounted
<1> QED  BY <1>1, <1>3 DEF g, With, Without

\* A root is freed with all that it owns.
LEMMA FreeKeeps ==
  ASSUME NEW h, NEW R, NEW par, Linked(h, R, par), NEW i \in R, Unreferenced(h, Owned(h, i))
  PROVE  LET g == Free(h, Owned(h, i))
         IN  /\ \E own : Linked(g, Without(R, i), own)
             /\ Counted(g) = Counted(h) - Cardinality(OwnedStrings(h, Owned(h, i)))
<1> DEFINE g == Free(h, Owned(h, i))
<1>1. /\ Linked(g, R \ {i}, par) /\ Live(g) = Live(h) \ Owned(h, i)
      /\ \A j \in Live(g) : g[j] = h[j]
  BY Freed
<1>2. h \in [Items -> Item] /\ i \in Live(h)  BY DEF Linked
<1>3. Owned(h, i) \in SUBSET Live(h)  BY <1>2, OwnedAreLive
<1> HIDE DEF g
<1>4. g \in [Items -> Item]  BY <1>1 DEF Linked
<1>5. Counted(g) = Counted(h) - Cardinality(OwnedStrings(h, Owned(h, i)))
  BY <1>1, <1>2, <1>3, <1>4, StringsLess DEF Counted
<1> QED  BY <1>1, <1>5 DEF g, With, Without

LEMMA Retyping ==
  ASSUME NEW h \in [Items -> Item], NEW i \in Items, NEW leaf \in Leaves
  PROVE  LET g == [h EXCEPT ![i].type = leaf]
         IN  /\ g \in [Items -> Item]
             /\ \A j \in Items : /\ g[j].next = h[j].next /\ g[j].prev = h[j].prev /\ g[j].child = h[j].child
                                 /\ g[j].flags = h[j].flags /\ g[j].string = h[j].string
                                 /\ g[j].type = IF j = i THEN leaf ELSE h[j].type
BY DEF Item

LEMMA Naming ==
  ASSUME NEW h \in [Items -> Item], NEW i \in Items, NEW name \in Names \cup {NoName}, NEW constant \in BOOLEAN
  PROVE  LET g == Named(h, i, name, constant)
         IN  /\ g \in [Items -> Item]
             /\ \A j \in Items : /\ g[j].next = h[j].next /\ g[j].prev = h[j].prev /\ g[j].child = h[j].child
                                 /\ g[j].type = h[j].type /\ ("ref" \in g[j].flags <=> "ref" \in h[j].flags)
                                 /\ j # i => g[j] = h[j]
             /\ g[i].string = name /\ ("const" \in g[i].flags <=> constant)
<1>1. PICK h1 : h1 = [h EXCEPT ![i].string = name]  OBVIOUS
<1>2. /\ h1 \in [Items -> Item]
      /\ \A j \in Items : /\ h1[j].next = h[j].next /\ h1[j].prev = h[j].prev /\ h1[j].child = h[j].child
                          /\ h1[j].type = h[j].type /\ h1[j].flags = h[j].flags /\ (j # i => h1[j] = h[j])
      /\ h1[i].string = name
  BY <1>1 DEF Item
<1>3. PICK fl : fl = IF constant THEN h[i].flags \cup {"const"} ELSE h[i].flags \ {"const"}  OBVIOUS
<1>4. fl \in SUBSET {"ref", "const"}  BY <1>3 DEF Item
<1>5. PICK g : g = [h1 EXCEPT ![i].flags = fl]  OBVIOUS
<1>6. /\ g \in [Items -> Item]
      /\ \A j \in Items : /\ g[j].next = h1[j].next /\ g[j].prev = h1[j].prev /\ g[j].child = h1[j].child
                          /\ g[j].type = h1[j].type /\ g[j].string = h1[j].string /\ (j # i => g[j] = h1[j])
      /\ g[i].flags = fl
  BY <1>2, <1>4, <1>5 DEF Item
<1>7. Named(h, i, name, constant) = g  BY <1>1, <1>3, <1>5 DEF Named
<1> HIDE DEF Named
<1>8. "ref" \in fl <=> "ref" \in h[i].flags  BY <1>3
<1>9. "const" \in fl <=> constant  BY <1>3
<1>10. ASSUME NEW j \in Items
       PROVE  /\ g[j].next = h[j].next /\ g[j].prev = h[j].prev /\ g[j].child = h[j].child
              /\ g[j].type = h[j].type /\ ("ref" \in g[j].flags <=> "ref" \in h[j].flags)
              /\ j # i => g[j] = h[j]
  <2>1. g[j].next = h[j].next /\ g[j].prev = h[j].prev /\ g[j].child = h[j].child /\ g[j].type = h[j].type
        /\ (j # i => g[j] = h[j])
    BY <1>2, <1>6
  <2>2. CASE j = i  BY <1>6, <1>8, <2>1, <2>2
  <2>3. CASE j # i  BY <2>1, <2>3
  <2> QED  BY <2>1, <2>2, <2>3
<1>11. g \in [Items -> Item] /\ g[i].string = name /\ ("const" \in g[i].flags <=> constant)  BY <1>2, <1>6, <1>9
<1> QED  BY <1>7, <1>10, <1>11, Zenon

-----------------------------------------------------------------------------
(* One lemma for each action *)

LEMMA InvLinked ==
  ASSUME TreeInv
  PROVE  /\ \E par : Linked(heap, Roots, par)
         /\ strs = Counted(heap) /\ strs \in Nat /\ Counted(heap) \in Nat
         /\ held \cap lost = {} /\ Roots \subseteq Live(heap)
         /\ heap \in [Items -> Item] /\ NoItem \notin Items /\ Live(heap) \subseteq Items
BY InvIs DEF TreeInv, Counted

\* The invariant after a step, from what the step makes of the heap, the roots and the count.
LEMMA InvAgain ==
  ASSUME NEW g, NEW H, NEW L, NEW n, NEW R, H \cap L = {}, R = H \cup L, \E own : Linked(g, R, own), n = Counted(g),
         heap' = g, held' = H, lost' = L, strs' = n
  PROVE  TreeInv'
BY DEF TreeInv, Counted, Roots

\* The roots when the program is given an item, gives one away, and gives one for one.
LEMMA RootsAre ==
  ASSUME TreeInv
  PROVE  /\ \A i : i \notin Roots => With(Roots, i) = (held \cup {i}) \cup lost /\ (held \cup {i}) \cap lost = {}
         /\ \A i : i \notin Roots => With(Roots, i) = held \cup (lost \cup {i}) /\ held \cap (lost \cup {i}) = {}
         /\ \A i \in held : i \in Roots /\ Without(Roots, i) = (held \ {i}) \cup lost /\ (held \ {i}) \cap lost = {}
         /\ Roots = held \cup lost /\ held \cap lost = {}
BY DEF TreeInv, Roots, With, Without

LEMMA AddItemToArrayKeeps ==
  ASSUME TreeInv, NEW a \in Live(heap), NEW i \in held, AddItemToArray(a, i)
  PROVE  TreeInv'
<1>1. PICK par : Linked(heap, Roots, par)  BY InvLinked
<1>2. strs = Counted(heap)  BY InvLinked
<1>3. CASE a = i
  <2>1. heap' = heap /\ held' = held /\ lost' = lost /\ strs' = strs
    BY <1>3 DEF AddItemToArray, add_item_to_array
  <2> QED  BY <1>1, <1>2, <2>1, RootsAre, InvAgain
<1>4. CASE a # i
  <2> DEFINE g == add_item_to_array(heap, a, i)
  <2>1. "ref" \notin heap[a].flags /\ a \notin Owned(heap, i)
    BY <1>4 DEF AddItemToArray, CanChange, CanGive
  <2>2. i \in Roots /\ Without(Roots, i) = (held \ {i}) \cup lost /\ (held \ {i}) \cap lost = {}  BY RootsAre
  <2>3. (\E own : Linked(g, Without(Roots, i), own)) /\ Counted(g) = Counted(heap)
    BY <1>1, <2>1, <2>2, AppendKeeps
  <2>4. heap' = g /\ held' = held \ {i} /\ lost' = lost /\ strs' = strs
    BY <1>4 DEF AddItemToArray
  <2> HIDE DEF g
  <2> QED  BY <1>2, <2>2, <2>3, <2>4, InvAgain
<1> QED  BY <1>3, <1>4

LEMMA InsertItemInArrayKeeps ==
  ASSUME TreeInv, NEW a \in Live(heap), NEW i \in held, NEW which \in Indices, InsertItemInArray(a, which, i)
  PROVE  TreeInv'
<1>1. PICK par : Linked(heap, Roots, par)  BY InvLinked
<1>2. strs = Counted(heap)  BY InvLinked
<1> DEFINE after == GetArrayItem(heap, a, which)
<1>3. "ref" \notin heap[a].flags /\ a \notin Owned(heap, i)  BY DEF InsertItemInArray, CanChange, CanGive
<1>4. i \in Roots /\ Without(Roots, i) = (held \ {i}) \cup lost /\ (held \ {i}) \cap lost = {}  BY RootsAre
<1>5. which \in Int  BY CJsonTreeAssumption
<1>6. held' = held \ {i} /\ lost' = lost /\ strs' = strs  BY DEF InsertItemInArray
<1>7. CASE after = NoItem
  <2> DEFINE g == add_item_to_array(heap, a, i)
  <2>1. (\E own : Linked(g, Without(Roots, i), own)) /\ Counted(g) = Counted(heap)
    BY <1>1, <1>3, <1>4, AppendKeeps
  <2>2. heap' = g  BY <1>7 DEF InsertItemInArray
  <2> HIDE DEF g
  <2> QED  BY <1>2, <1>4, <1>6, <2>1, <2>2, InvAgain
<1>8. CASE after # NoItem
  <2> DEFINE g == InsertBefore(heap, a, after, i)
  <2>1. after \in Live(heap) /\ par[after] = a  BY <1>1, <1>3, <1>5, <1>8, Found
  <2>2. heap' = g  BY <1>8 DEF InsertItemInArray
  <2> HIDE DEF after
  <2>3. IsItemOf(after, a, heap, par)  BY <2>1 DEF IsItemOf
  <2>4. (\E own : Linked(g, Without(Roots, i), own)) /\ Counted(g) = Counted(heap)
    BY <1>1, <1>3, <1>4, <2>3, InsertKeeps
  <2> HIDE DEF g
  <2> QED  BY <1>2, <1>4, <1>6, <2>2, <2>4, InvAgain
<1> QED  BY <1>7, <1>8

\* Taking an item out of a list, however it was found.
LEMMA DetachAnyKeeps ==
  ASSUME TreeInv, NEW p \in Live(heap), NEW i, DetachAny(p, i),
         \A par : Linked(heap, Roots, par) => i \in Live(heap) /\ par[i] = p
  PROVE  TreeInv'
<1>1. PICK par : Linked(heap, Roots, par)  BY InvLinked
<1>2. strs = Counted(heap)  BY InvLinked
<1>3. i \in Live(heap) /\ par[i] = p  BY <1>1
<1> DEFINE g == DetachItem(heap, p, i)
<1>4. (\E own : Linked(g, With(Roots, i), own)) /\ Counted(g) = Counted(heap) /\ i \notin Roots
  BY <1>1, <1>3, DetachKeeps
<1>5. heap' = g /\ held' = held \cup {i} /\ lost' = lost /\ strs' = strs  BY DEF DetachAny
<1> HIDE DEF g
<1>6. With(Roots, i) = (held \cup {i}) \cup lost /\ (held \cup {i}) \cap lost = {}  BY <1>4, RootsAre
<1> QED  BY <1>2, <1>4, <1>5, <1>6, InvAgain

LEMMA DeleteItemKeeps ==
  ASSUME TreeInv, NEW p \in Live(heap), NEW i, DeleteItem(p, i),
         \A par : Linked(heap, Roots, par) => i \in Live(heap) /\ par[i] = p
  PROVE  TreeInv'
<1>1. PICK par : Linked(heap, Roots, par)  BY InvLinked
<1>2. strs = Counted(heap)  BY InvLinked
<1>3. i \in Live(heap) /\ par[i] = p  BY <1>1
<1> DEFINE h == DetachItem(heap, p, i)  g == Free(h, Owned(h, i))
<1>4. (\E own : Linked(h, With(Roots, i), own)) /\ Counted(h) = Counted(heap) /\ i \notin Roots
  BY <1>1, <1>3, DetachKeeps
<1>5. /\ Unreferenced(h, Owned(h, i)) /\ heap' = g
      /\ strs' = strs - Cardinality(OwnedStrings(h, Owned(h, i)))
      /\ held' = held /\ lost' = lost
  BY DEF DeleteItem, DeleteFrom
<1> HIDE DEF h
<1>6. PICK own : Linked(h, With(Roots, i), own)  BY <1>4
<1>7. i \in With(Roots, i) /\ Without(With(Roots, i), i) = Roots  BY <1>4 DEF With, Without
<1>8. /\ \E new : Linked(g, Without(With(Roots, i), i), new)
      /\ Counted(g) = Counted(h) - Cardinality(OwnedStrings(h, Owned(h, i)))
  BY <1>5, <1>6, <1>7, FreeKeeps
<1> HIDE DEF g
<1>9. \E new : Linked(g, Roots, new)  BY <1>7, <1>8
<1>10. strs' = Counted(g)  BY <1>2, <1>4, <1>5, <1>8
<1> QED  BY <1>5, <1>9, <1>10, RootsAre, InvAgain

LEMMA DeleteKeeps ==
  ASSUME TreeInv, NEW i \in held, Delete(i)
  PROVE  TreeInv'
<1>1. PICK par : Linked(heap, Roots, par)  BY InvLinked
<1>2. strs = Counted(heap)  BY InvLinked
<1> DEFINE g == Free(heap, Owned(heap, i))
<1>3. /\ Unreferenced(heap, Owned(heap, i)) /\ heap' = g
      /\ strs' = strs - Cardinality(OwnedStrings(heap, Owned(heap, i)))
      /\ held' = held \ {i} /\ lost' = lost
  BY DEF Delete, DeleteFrom
<1>4. i \in Roots /\ Without(Roots, i) = (held \ {i}) \cup lost /\ (held \ {i}) \cap lost = {}  BY RootsAre
<1>5. /\ \E new : Linked(g, Without(Roots, i), new)
      /\ Counted(g) = Counted(heap) - Cardinality(OwnedStrings(heap, Owned(heap, i)))
  BY <1>1, <1>3, <1>4, FreeKeeps
<1> HIDE DEF g
<1>6. strs' = Counted(g)  BY <1>2, <1>3, <1>5
<1> QED  BY <1>3, <1>4, <1>5, <1>6, InvAgain

LEMMA SetValueKeeps ==
  ASSUME TreeInv, NEW i \in Live(heap), NEW leaf \in Leaves, SetValue(i, leaf)
  PROVE  TreeInv' /\ SameShape(heap', heap)
<1>1. PICK par : Linked(heap, Roots, par)  BY InvLinked
<1>2. strs = Counted(heap) /\ heap \in [Items -> Item] /\ i \in Items /\ Live(heap) \subseteq Items  BY InvLinked
<1> DEFINE g == [heap EXCEPT ![i].type = leaf]
<1>3. /\ g \in [Items -> Item]
      /\ \A j \in Items : /\ g[j].next = heap[j].next /\ g[j].prev = heap[j].prev /\ g[j].child = heap[j].child
                          /\ g[j].flags = heap[j].flags /\ g[j].string = heap[j].string
                          /\ g[j].type = IF j = i THEN leaf ELSE heap[j].type
  BY <1>2, Retyping
<1>4. heap' = g /\ strs' = strs /\ held' = held /\ lost' = lost  BY DEF SetValue
<1>5. heap[i].type \in Leaves /\ (heap[i].type \in Texts <=> leaf \in Texts) /\ "free" \notin Leaves
  BY CJsonTreeAssumption DEF SetValue
<1> HIDE DEF g
<1>6. SameShape(g, heap)
  <2> SUFFICES ASSUME NEW j \in Items
               PROVE  /\ g[j].next = heap[j].next /\ g[j].prev = heap[j].prev /\ g[j].child = heap[j].child
                      /\ "ref" \in g[j].flags <=> "ref" \in heap[j].flags
                      /\ g[j].type = "free" <=> heap[j].type = "free"
                      /\ g[j].type = "free" => g[j] = New
    BY DEF SameShape
  <2>1. CASE j = i  BY <1>3, <1>5, <2>1
  <2>2. CASE j # i
    <3>1. g[j].type = heap[j].type  BY <1>3, <2>2
    <3>2. g[j] = heap[j]  BY <1>2, <1>3, <3>1 DEF Item
    <3> QED  BY <1>1, <3>2 DEF Linked, Solid
  <2> QED  BY <2>1, <2>2
<1>7. Linked(g, Roots, par) /\ Live(g) = Live(heap)  BY <1>1, <1>3, <1>6, SameLinks
<1>8. OwnedStrings(g, Live(heap)) = OwnedStrings(heap, Live(heap))
  <2>1. \A j \in Live(heap) : /\ g[j].flags = heap[j].flags /\ g[j].string = heap[j].string
                              /\ g[j].type \in Texts <=> heap[j].type \in Texts
    BY <1>2, <1>3, <1>5
  <2> QED  BY <2>1 DEF OwnedStrings
<1>9. Counted(g) = Counted(heap)  BY <1>7, <1>8, Zenon DEF Counted
<1> QED  BY <1>2, <1>4, <1>6, <1>7, <1>9, RootsAre, InvAgain

LEMMA CreateStringReferenceKeeps ==
  ASSUME TreeInv, NEW i \in Unused, NEW text \in Kinds, CreateStringReference(i, text)
  PROVE  TreeInv'
<1> DEFINE x == [New EXCEPT !.type = text, !.flags = {"ref"}]  g == [heap EXCEPT ![i] = x]
<1>1. heap' = g /\ held' = held \cup {i} /\ strs' = strs /\ lost' = lost  BY DEF CreateStringReference
<1>2. x \in Item /\ x.type = text /\ text # "free" /\ x.next = NoItem /\ x.prev = NoItem
      /\ x.child = NoItem /\ x.flags = {"ref"} /\ x.string = NoName
  BY CJsonTreeAssumption DEF Kinds, New, Item
<1> HIDE DEF x
<1>3. IsFresh(g, heap, i) /\ g \in [Items -> Item] /\ g[i] = x /\ i \in Items  BY <1>2, NewFresh
<1> HIDE DEF g
<1>4. /\ \E own : Linked(g, With(Roots, i), own)
      /\ Live(g) = Live(heap) \cup {i} /\ i \notin Live(heap)
      /\ Cardinality(OwnedStrings(g, Live(g))) = strs + Cardinality(OwnedStrings(g, {i}))
  BY <1>3, GrownTo
<1>5. Cardinality(OwnedStrings(g, {i})) = 0  BY <1>2, <1>3, ItsStrings
<1>6. strs \in Nat /\ Roots \subseteq Live(heap)  BY InvLinked
<1>7. strs' = Counted(g)  BY <1>1, <1>4, <1>5, <1>6 DEF Counted
<1>8. i \notin Roots  BY <1>4, <1>6
<1>9. With(Roots, i) = (held \cup {i}) \cup lost /\ (held \cup {i}) \cap lost = {}  BY <1>8, RootsAre
<1> QED  BY <1>1, <1>4, <1>7, <1>9, InvAgain

LEMMA CreateReferenceKeeps ==
  ASSUME TreeInv, NEW i \in Unused, NEW kind \in Kinds, NEW child \in Live(heap), CreateReference(i, kind, child)
  PROVE  TreeInv'
<1> DEFINE x == [New EXCEPT !.type = kind, !.flags = {"ref"}, !.child = child]  g == [heap EXCEPT ![i] = x]
<1>1. heap' = g /\ held' = held \cup {i} /\ strs' = strs /\ lost' = lost /\ kind \in Containers
  BY DEF CreateReference
<1>2. x \in Item /\ x.type = kind /\ kind # "free" /\ x.next = NoItem /\ x.prev = NoItem
      /\ x.child = child /\ x.flags = {"ref"} /\ x.string = NoName
  <2>1. child \in Items  BY InvLinked
  <2> QED  BY <1>1, <2>1, CJsonTreeAssumption DEF New, Item
<1> HIDE DEF x
<1>3. IsFresh(g, heap, i) /\ g \in [Items -> Item] /\ g[i] = x /\ i \in Items  BY <1>2, NewFresh
<1> HIDE DEF g
<1>4. /\ \E own : Linked(g, With(Roots, i), own)
      /\ Live(g) = Live(heap) \cup {i} /\ i \notin Live(heap)
      /\ Cardinality(OwnedStrings(g, Live(g))) = strs + Cardinality(OwnedStrings(g, {i}))
  BY <1>3, GrownTo
<1>5. Cardinality(OwnedStrings(g, {i})) = 0  BY <1>2, <1>3, ItsStrings
<1>6. strs \in Nat /\ Roots \subseteq Live(heap)  BY InvLinked
<1>7. strs' = Counted(g)  BY <1>1, <1>4, <1>5, <1>6 DEF Counted
<1>8. i \notin Roots  BY <1>4, <1>6
<1>9. With(Roots, i) = (held \cup {i}) \cup lost /\ (held \cup {i}) \cap lost = {}  BY <1>8, RootsAre
<1> QED  BY <1>1, <1>4, <1>7, <1>9, InvAgain

\* An item gets another name.
LEMMA NamedKeeps ==
  ASSUME TreeInv, NEW i \in Live(heap), NEW name \in Names \cup {NoName}, NEW constant \in BOOLEAN
  PROVE  LET h == Named(heap, i, name, constant)
         IN  /\ h \in [Items -> Item] /\ Live(h) = Live(heap) /\ SameShape(h, heap)
             /\ \A par : Linked(heap, Roots, par) => Linked(h, Roots, par)
             /\ \A j \in Items : Owned(h, j) = Owned(heap, j)
             /\ \A j \in Items : "ref" \in h[j].flags <=> "ref" \in heap[j].flags
             /\ Counted(h) = strs - Cardinality(OwnedStrings(heap, {i})) + Cardinality(OwnedStrings(h, {i}))
             /\ Cardinality(OwnedStrings(heap, {i})) \in Nat /\ Cardinality(OwnedStrings(h, {i})) \in Nat
<1> DEFINE h == Named(heap, i, name, constant)
<1>1. PICK par : Linked(heap, Roots, par)  BY InvLinked
<1>2. strs = Counted(heap) /\ heap \in [Items -> Item] /\ i \in Items /\ Live(heap) \subseteq Items  BY InvLinked
<1>3. /\ h \in [Items -> Item]
      /\ \A j \in Items : /\ h[j].next = heap[j].next /\ h[j].prev = heap[j].prev /\ h[j].child = heap[j].child
                          /\ h[j].type = heap[j].type /\ ("ref" \in h[j].flags <=> "ref" \in heap[j].flags)
                          /\ j # i => h[j] = heap[j]
      /\ h[i].string = name /\ ("const" \in h[i].flags <=> constant)
  BY <1>2, Naming
<1> HIDE DEF h
<1>4. SameShape(h, heap)
  <2> SUFFICES ASSUME NEW j \in Items
               PROVE  /\ h[j].next = heap[j].next /\ h[j].prev = heap[j].prev /\ h[j].child = heap[j].child
                      /\ "ref" \in h[j].flags <=> "ref" \in heap[j].flags
                      /\ h[j].type = "free" <=> heap[j].type = "free"
                      /\ h[j].type = "free" => h[j] = New
    BY DEF SameShape
  <2>1. heap[i].type # "free"  BY <1>2, LiveIs
  <2>2. h[j].type = "free" => h[j] = heap[j] /\ heap[j] = New
    BY <1>1, <1>3, <2>1 DEF Linked, Solid
  <2> QED  BY <1>3, <2>2
<1>5. ASSUME NEW p, Linked(heap, Roots, p)
      PROVE  Linked(h, Roots, p) /\ Live(h) = Live(heap) /\ \A j \in Items : Owned(h, j) = Owned(heap, j)
  BY <1>3, <1>4, <1>5, SameLinks
<1>6. Live(h) = Live(heap) /\ \A j \in Items : Owned(h, j) = Owned(heap, j)  BY <1>1, <1>5
<1>7. Counted(h) = Counted(heap) - Cardinality(OwnedStrings(heap, {i})) + Cardinality(OwnedStrings(h, {i}))
  BY <1>2, <1>3, <1>6, StringsChanged DEF Counted
<1>8. {i} \in SUBSET Items  BY <1>2
<1>9. Cardinality(OwnedStrings(heap, {i})) \in Nat /\ Cardinality(OwnedStrings(h, {i})) \in Nat
  BY <1>2, <1>3, <1>8, StringsFinite
<1> QED  BY <1>2, <1>3, <1>4, <1>5, <1>6, <1>7, <1>9 DEF h

LEMMA AddItemToObjectKeeps ==
  ASSUME TreeInv, NEW o \in Live(heap), NEW i \in held, NEW name \in Names, NEW constant \in BOOLEAN,
         AddItemToObject(o, name, i, constant)
  PROVE  TreeInv'
<1> DEFINE h == Named(heap, i, name, constant)  g == add_item_to_array(h, o, i)
<1>1. PICK par : Linked(heap, Roots, par)  BY InvLinked
<1>2. i \in Roots /\ Without(Roots, i) = (held \ {i}) \cup lost /\ (held \ {i}) \cap lost = {}  BY RootsAre
<1>3. i \in Live(heap) /\ name \in Names \cup {NoName} /\ o \in Items /\ i \in Items  BY <1>2, InvLinked
<1>4. /\ h \in [Items -> Item] /\ Live(h) = Live(heap)
      /\ Linked(h, Roots, par)
      /\ \A j \in Items : Owned(h, j) = Owned(heap, j)
      /\ \A j \in Items : "ref" \in h[j].flags <=> "ref" \in heap[j].flags
      /\ Counted(h) = strs - Cardinality(OwnedStrings(heap, {i})) + Cardinality(OwnedStrings(h, {i}))
      /\ Cardinality(OwnedStrings(heap, {i})) \in Nat /\ Cardinality(OwnedStrings(h, {i})) \in Nat
  BY <1>1, <1>3, NamedKeeps
<1>5. /\ heap' = g /\ held' = held \ {i} /\ lost' = lost
      /\ strs' = strs + Cardinality(OwnedStrings(h, {i})) - Cardinality(OwnedStrings(heap, {i}))
      /\ "ref" \notin heap[o].flags /\ o \notin Owned(heap, i)
  BY DEF AddItemToObject, CanChange, CanGive
<1> HIDE DEF h
<1>6. o \in Live(h) /\ "ref" \notin h[o].flags /\ o \notin Owned(h, i)  BY <1>3, <1>4, <1>5
<1>7. (\E own : Linked(g, Without(Roots, i), own)) /\ Counted(g) = Counted(h)
  BY <1>2, <1>4, <1>6, AppendKeeps
<1> HIDE DEF g
<1>8. strs' = Counted(g)
  <2>1. strs \in Nat  BY InvLinked
  <2> QED  BY <1>4, <1>5, <1>7, <2>1
<1> QED  BY <1>2, <1>5, <1>7, <1>8, InvAgain

\* A new item is given to a list, with a name or without.
LEMMA FreshGiven ==
  ASSUME TreeInv, NEW i, NEW e, IsFresh(e, heap, i), NEW a \in Live(heap), "ref" \notin heap[a].flags
  PROVE  LET g == add_item_to_array(e, a, i)
         IN  (\E own : Linked(g, Roots, own)) /\ Counted(g) = strs + Cardinality(OwnedStrings(e, {i}))
<1> DEFINE g == add_item_to_array(e, a, i)
<1>1. /\ \E own : Linked(e, With(Roots, i), own)
      /\ Live(e) = Live(heap) \cup {i} /\ Owned(e, i) = {i} /\ i \notin Live(heap)
      /\ Cardinality(OwnedStrings(e, Live(e))) = strs + Cardinality(OwnedStrings(e, {i}))
  BY GrownTo
<1>2. PICK par : Linked(e, With(Roots, i), par)  BY <1>1
<1>3. Roots \subseteq Live(heap) /\ Live(heap) \subseteq Items  BY InvLinked
<1>4. i \in With(Roots, i) /\ Without(With(Roots, i), i) = Roots  BY <1>1, <1>3 DEF With, Without
<1>5. a # i /\ a \in Live(e) /\ a \notin Owned(e, i)  BY <1>1
<1>6. "ref" \notin e[a].flags  BY <1>3, <1>5 DEF IsFresh
<1>7. (\E own : Linked(g, Without(With(Roots, i), i), own)) /\ Counted(g) = Counted(e)
  BY <1>2, <1>4, <1>5, <1>6, AppendKeeps
<1> HIDE DEF g
<1>8. \E own : Linked(g, Roots, own)  BY <1>4, <1>7
<1>9. Counted(g) = strs + Cardinality(OwnedStrings(e, {i}))  BY <1>1, <1>7 DEF Counted
<1> QED  BY <1>8, <1>9 DEF g

\* A fresh item that is named is fresh.
LEMMA FreshNamed ==
  ASSUME TreeInv, NEW i, NEW e, IsFresh(e, heap, i), NEW name \in Names \cup {NoName}, NEW constant \in BOOLEAN
  PROVE  LET h == Named(e, i, name, constant)
         IN  /\ IsFresh(h, heap, i) /\ h \in [Items -> Item]
             /\ h[i].type = e[i].type /\ h[i].string = name
             /\ "ref" \in h[i].flags <=> "ref" \in e[i].flags
             /\ "const" \in h[i].flags <=> constant
<1> DEFINE h == Named(e, i, name, constant)
<1>1. e \in [Items -> Item] /\ i \in Items  BY DEF IsFresh
<1>2. /\ h \in [Items -> Item]
      /\ \A j \in Items : /\ h[j].next = e[j].next /\ h[j].prev = e[j].prev /\ h[j].child = e[j].child
                          /\ h[j].type = e[j].type /\ ("ref" \in h[j].flags <=> "ref" \in e[j].flags)
                          /\ j # i => h[j] = e[j]
      /\ h[i].string = name /\ ("const" \in h[i].flags <=> constant)
  BY <1>1, Naming
<1> HIDE DEF h
<1>3. IsFresh(h, heap, i)  BY <1>1, <1>2 DEF IsFresh
<1> QED  BY <1>1, <1>2, <1>3 DEF h

\* A new item gets a name of its own.
LEMMA FreshOwnName ==
  ASSUME TreeInv, NEW i, NEW e, IsFresh(e, heap, i), NEW name \in Names
  PROVE  LET h == Named(e, i, name, FALSE)
         IN  /\ IsFresh(h, heap, i) /\ h \in [Items -> Item]
             /\ h[i].type = e[i].type /\ h[i].string = name
             /\ ("ref" \in h[i].flags <=> "ref" \in e[i].flags)
             /\ "const" \notin h[i].flags
<1>1. PICK constant \in BOOLEAN : constant = FALSE  OBVIOUS
<1>2. name \in Names \cup {NoName}  OBVIOUS
<1> DEFINE h == Named(e, i, name, constant)
<1>3. /\ IsFresh(h, heap, i) /\ h \in [Items -> Item]
      /\ h[i].type = e[i].type /\ h[i].string = name
      /\ "ref" \in h[i].flags <=> "ref" \in e[i].flags
      /\ "const" \in h[i].flags <=> constant
  BY <1>2, FreshNamed
<1>4. h = Named(e, i, name, FALSE)  BY <1>1, Zenon
<1> HIDE DEF h
<1>5. "const" \notin h[i].flags  BY <1>1, <1>3, Zenon
<1> QED  BY <1>3, <1>4, <1>5, Zenon

\* A reference to an item is fresh: it owns no child.
LEMMA CopyFresh ==
  ASSUME TreeInv, NEW i \in Live(heap), NEW r \in Unused
  PROVE  LET e == [heap EXCEPT ![r] = create_reference(i)]
         IN  /\ IsFresh(e, heap, r) /\ e \in [Items -> Item] /\ r \in Items
             /\ e[r].string = NoName /\ "ref" \in e[r].flags
<1> DEFINE x == create_reference(i)  e == [heap EXCEPT ![r] = x]
<1>1. heap \in [Items -> Item] /\ i \in Items  BY InvLinked
<1>2. PICK par : Linked(heap, Roots, par)  BY InvLinked
<1>3. heap[i] \in Item /\ heap[i].type # "free"  BY <1>1, LiveIs
<1>4. /\ x \in Item /\ x.type = heap[i].type /\ x.next = NoItem /\ x.prev = NoItem
      /\ x.child = heap[i].child /\ x.flags = heap[i].flags \cup {"ref"} /\ x.string = NoName
  BY <1>3 DEF create_reference, Item
<1> HIDE DEF x
<1>5. heap[i].child \in Live(heap) \cup {NoItem}  BY <1>2 DEF Linked, Solid
<1>6. "ref" \in x.flags /\ (x.child = NoItem \/ x.child \in Live(heap))  BY <1>4, <1>5
<1>7. IsFresh(e, heap, r) /\ e \in [Items -> Item] /\ e[r] = x /\ r \in Items
  BY <1>3, <1>4, <1>6, NewFresh
<1> HIDE DEF e
<1> QED  BY <1>4, <1>6, <1>7 DEF e, x

LEMMA AddItemReferenceToArrayKeeps ==
  ASSUME TreeInv, NEW a \in Live(heap), NEW i \in Live(heap), NEW r \in Unused, AddItemReferenceToArray(a, i, r)
  PROVE  TreeInv'
<1> DEFINE e == [heap EXCEPT ![r] = create_reference(i)]  g == add_item_to_array(e, a, r)
<1>1. heap' = g /\ held' = held /\ lost' = lost /\ strs' = strs /\ "ref" \notin heap[a].flags
  BY DEF AddItemReferenceToArray, CanChange
<1>2. /\ IsFresh(e, heap, r) /\ e \in [Items -> Item] /\ r \in Items
      /\ e[r].string = NoName /\ "ref" \in e[r].flags
  BY CopyFresh
<1> HIDE DEF e
<1>3. (\E own : Linked(g, Roots, own)) /\ Counted(g) = strs + Cardinality(OwnedStrings(e, {r}))
  BY <1>1, <1>2, FreshGiven
<1>4. Cardinality(OwnedStrings(e, {r})) = 0  BY <1>2, ItsStrings
<1>5. strs \in Nat  BY InvLinked
<1> HIDE DEF g
<1>6. strs' = Counted(g)  BY <1>1, <1>3, <1>4, <1>5
<1> QED  BY <1>1, <1>3, <1>6, RootsAre, InvAgain

LEMMA AddItemReferenceToObjectKeeps ==
  ASSUME TreeInv, NEW o \in Live(heap), NEW i \in Live(heap), NEW r \in Unused, NEW name \in Names,
         AddItemReferenceToObject(o, name, i, r)
  PROVE  TreeInv'
<1> DEFINE e == [heap EXCEPT ![r] = create_reference(i)]  h == Named(e, r, name, FALSE)
           g == add_item_to_array(h, o, r)
<1>1. /\ held' = held /\ "ref" \notin heap[o].flags
      /\ \/ heap' = g /\ strs' = strs + 1 /\ lost' = lost
         \/ heap' = e /\ lost' = lost \cup {r} /\ strs' = strs
  BY DEF AddItemReferenceToObject, CanChange
<1>2. /\ IsFresh(e, heap, r) /\ e \in [Items -> Item] /\ r \in Items
      /\ e[r].string = NoName /\ "ref" \in e[r].flags
  BY CopyFresh
<1> HIDE DEF e
<1>3. strs \in Nat /\ Roots \subseteq Live(heap)  BY InvLinked
<1>4. CASE heap' = g /\ strs' = strs + 1 /\ lost' = lost
  <2>1. name \in Names \cup {NoName} /\ FALSE \in BOOLEAN /\ name # NoName  BY CJsonTreeAssumption
  <2>6. /\ IsFresh(h, heap, r) /\ h \in [Items -> Item]
        /\ h[r].type = e[r].type /\ h[r].string = name
        /\ ("ref" \in h[r].flags <=> "ref" \in e[r].flags)
        /\ "const" \notin h[r].flags
    BY <1>2, FreshOwnName, Zenon
  <2>2. /\ IsFresh(h, heap, r) /\ h \in [Items -> Item] /\ h[r].string = name
        /\ "ref" \in h[r].flags /\ "const" \notin h[r].flags
    BY <1>2, <2>6, Zenon
  <2> HIDE DEF h
  <2>3. (\E own : Linked(g, Roots, own)) /\ Counted(g) = strs + Cardinality(OwnedStrings(h, {r}))
    BY <1>1, <2>2, FreshGiven
  <2>4. Cardinality(OwnedStrings(h, {r})) = 1  BY <1>2, <2>1, <2>2, ItsStrings
  <2> HIDE DEF g
  <2>5. strs' = Counted(g)  BY <1>4, <2>3, <2>4
  <2> QED  BY <1>1, <1>4, <2>3, <2>5, RootsAre, InvAgain
<1>5. CASE heap' = e /\ lost' = lost \cup {r} /\ strs' = strs
  <2>1. /\ \E own : Linked(e, With(Roots, r), own)
        /\ Live(e) = Live(heap) \cup {r} /\ Owned(e, r) = {r} /\ r \notin Live(heap)
        /\ Cardinality(OwnedStrings(e, Live(e))) = strs + Cardinality(OwnedStrings(e, {r}))
    BY <1>2, GrownTo
  <2>2. Cardinality(OwnedStrings(e, {r})) = 0  BY <1>2, ItsStrings
  <2>3. strs' = Counted(e)  BY <1>3, <1>5, <2>1, <2>2 DEF Counted
  <2>4. r \notin Roots  BY <1>3, <2>1
  <2>5. With(Roots, r) = held \cup (lost \cup {r}) /\ held \cap (lost \cup {r}) = {}  BY <2>4, RootsAre
  <2> QED  BY <1>1, <1>5, <2>1, <2>3, <2>5, InvAgain
<1> QED  BY <1>1, <1>4, <1>5

LEMMA AddNewToObjectKeeps ==
  ASSUME TreeInv, NEW o \in Live(heap), NEW i \in Unused, NEW name \in Names, NEW kind \in Kinds,
         AddNewToObject(o, name, i, kind)
  PROVE  TreeInv'
<1> DEFINE x == [New EXCEPT !.type = kind]  e == [heap EXCEPT ![i] = x]
           h == Named(e, i, name, FALSE)  g == add_item_to_array(h, o, i)
<1>1. /\ held' = held /\ lost' = lost /\ "ref" \notin heap[o].flags
      /\ heap' = g /\ strs' = strs + Cardinality(OwnedStrings(h, {i}))
  BY DEF AddNewToObject, CanChange
<1>2. x \in Item /\ x.type = kind /\ kind # "free" /\ x.next = NoItem /\ x.prev = NoItem /\ x.child = NoItem
      /\ x.flags = {} /\ x.string = NoName
  BY NewIs
<1> HIDE DEF x
<1>3. IsFresh(e, heap, i) /\ e \in [Items -> Item] /\ e[i] = x /\ i \in Items  BY <1>2, NewFresh
<1> HIDE DEF e
<1>4. name \in Names \cup {NoName} /\ FALSE \in BOOLEAN  OBVIOUS
<1>5. IsFresh(h, heap, i)  BY <1>3, <1>4, FreshNamed
<1> HIDE DEF h
<1>6. (\E own : Linked(g, Roots, own)) /\ Counted(g) = strs + Cardinality(OwnedStrings(h, {i}))
  BY <1>1, <1>5, FreshGiven
<1> HIDE DEF g
<1> QED  BY <1>1, <1>6, RootsAre, InvAgain

-----------------------------------------------------------------------------
(* Replacing items, and finding the one that a call is about *)

\* The item i of the list of p is replaced by r, which h has named.
LEMMA ReplaceAnyKeeps ==
  ASSUME TreeInv, NEW p, NEW r \in held, NEW h, NEW i, ReplaceAny(h, p, i, r), lost' = lost,
         NEW par, Linked(h, Roots, par), p \notin Owned(h, r), i # NoItem => IsItemOf(i, p, h, par),
         Counted(h) = strs - Cardinality(OwnedStrings(heap, {r})) + Cardinality(OwnedStrings(h, {r})),
         Cardinality(OwnedStrings(heap, {r})) \in Nat, Cardinality(OwnedStrings(h, {r})) \in Nat
  PROVE  TreeInv'
<1>1. r \in Roots /\ Without(Roots, r) = (held \ {r}) \cup lost /\ (held \ {r}) \cap lost = {}  BY RootsAre
<1>2. strs \in Nat /\ Counted(h) \in Nat
  <2>1. h \in [Items -> Item]  BY DEF Linked
  <2> QED  BY <2>1, CountedIs, InvLinked
<1>3. CASE i # NoItem
  <2> DEFINE g == ReplaceItem(h, p, i, r)  f == Free(g, Owned(g, i))
  <2>1. i \in Live(h) /\ p \in Live(h) /\ par[i] = p  BY <1>3 DEF IsItemOf
  <2>2. (\E own : Linked(g, With(Without(Roots, r), i), own)) /\ Counted(g) = Counted(h) /\ i \notin Roots
    <3>1. r \in Roots  BY <1>1
    <3> QED  BY <2>1, <3>1, ReplaceKeeps
  <2>3. /\ Unreferenced(g, Owned(g, i)) /\ heap' = f /\ held' = held \ {r}
        /\ strs' = strs + Cardinality(OwnedStrings(h, {r})) - Cardinality(OwnedStrings(heap, {r}))
                        - Cardinality(OwnedStrings(g, Owned(g, i)))
    BY <1>3 DEF ReplaceAny
  <2> HIDE DEF g
  <2>4. PICK own : Linked(g, With(Without(Roots, r), i), own)  BY <2>2
  <2>5. i \in With(Without(Roots, r), i) /\ Without(With(Without(Roots, r), i), i) = Without(Roots, r)
    BY <2>2 DEF With, Without
  <2>6. /\ \E new : Linked(f, Without(With(Without(Roots, r), i), i), new)
        /\ Counted(f) = Counted(g) - Cardinality(OwnedStrings(g, Owned(g, i)))
    BY <2>3, <2>4, <2>5, FreeKeeps
  <2>7. Cardinality(OwnedStrings(g, Owned(g, i))) \in Nat
    <3>1. g \in [Items -> Item] /\ i \in Items /\ Live(g) \subseteq Items  BY <2>4, <2>5, LiveIs DEF Linked
    <3>2. Owned(g, i) \in SUBSET Items  BY <3>1, OwnedIs
    <3> QED  BY <3>1, <3>2, StringsFinite
  <2> HIDE DEF f
  <2>8. \E new : Linked(f, Without(Roots, r), new)  BY <2>5, <2>6
  <2>9. strs' = Counted(f)  BY <1>2, <2>2, <2>3, <2>6, <2>7
  <2> QED  BY <1>1, <2>3, <2>8, <2>9, InvAgain
<1>4. CASE i = NoItem
  <2>1. /\ heap' = h /\ held' = held
        /\ strs' = strs + Cardinality(OwnedStrings(h, {r})) - Cardinality(OwnedStrings(heap, {r}))
    BY <1>4 DEF ReplaceAny
  <2>2. strs' = Counted(h)  BY <1>2, <2>1
  <2> QED  BY <2>1, <2>2, RootsAre, InvAgain
<1> QED  BY <1>3, <1>4

LEMMA ReplaceItemInArrayKeeps ==
  ASSUME TreeInv, NEW a \in Live(heap), NEW r \in held, NEW which \in Indices, ReplaceItemInArray(a, which, r)
  PROVE  TreeInv'
<1>1. PICK par : Linked(heap, Roots, par)  BY InvLinked
<1> DEFINE i == GetArrayItem(heap, a, which)
<1>2. "ref" \notin heap[a].flags /\ a \notin Owned(heap, r) /\ ReplaceAny(heap, a, i, r) /\ lost' = lost
  BY DEF ReplaceItemInArray, CanChange, CanGive
<1>3. which \in Int  BY CJsonTreeAssumption
<1>4. i # NoItem => i \in Live(heap) /\ par[i] = a  BY <1>1, <1>2, <1>3, Found
<1> HIDE DEF i
<1>5. i # NoItem => IsItemOf(i, a, heap, par)  BY <1>4 DEF IsItemOf
<1>6. {r} \in SUBSET Items /\ heap \in [Items -> Item] /\ strs = Counted(heap) /\ strs \in Nat
  <2>1. r \in Items  BY InvLinked, RootsAre
  <2> QED  BY <2>1, InvLinked
<1>7. Cardinality(OwnedStrings(heap, {r})) \in Nat  BY <1>6, StringsFinite
<1>8. Counted(heap) = strs - Cardinality(OwnedStrings(heap, {r})) + Cardinality(OwnedStrings(heap, {r}))
  BY <1>6, <1>7
<1> QED  BY <1>1, <1>2, <1>5, <1>7, <1>8, ReplaceAnyKeeps

LEMMA ReplaceItemInObjectKeeps ==
  ASSUME TreeInv, NEW o \in Live(heap), NEW r \in held, NEW name \in Names, NEW sensitive \in BOOLEAN,
         ReplaceItemInObject(o, name, r, sensitive)
  PROVE  TreeInv'
<1>1. PICK par : Linked(heap, Roots, par)  BY InvLinked
<1>2. PICK constant \in BOOLEAN : constant = FALSE  OBVIOUS
<1>3. PICK new \in {name, NoName} :
        ReplaceAny(Named(heap, r, new, FALSE), o, GetObjectItem(Named(heap, r, new, FALSE), o, name, sensitive), r)
  BY DEF ReplaceItemInObject
<1> DEFINE h == Named(heap, r, new, constant)  i == GetObjectItem(h, o, name, sensitive)
<1>4. ReplaceAny(h, o, i, r)  BY <1>2, <1>3, Zenon
<1>5. "ref" \notin heap[o].flags /\ o \notin Owned(heap, r) /\ lost' = lost
  BY DEF ReplaceItemInObject, CanChange, CanGive
<1>6. r \in Live(heap) /\ r \in Items /\ o \in Items /\ new \in Names \cup {NoName}  BY InvLinked, RootsAre
<1>7. /\ h \in [Items -> Item] /\ Live(h) = Live(heap)
      /\ Linked(h, Roots, par)
      /\ \A j \in Items : Owned(h, j) = Owned(heap, j)
      /\ \A j \in Items : "ref" \in h[j].flags <=> "ref" \in heap[j].flags
      /\ Counted(h) = strs - Cardinality(OwnedStrings(heap, {r})) + Cardinality(OwnedStrings(h, {r}))
      /\ Cardinality(OwnedStrings(heap, {r})) \in Nat /\ Cardinality(OwnedStrings(h, {r})) \in Nat
  BY <1>1, <1>6, NamedKeeps
<1> HIDE DEF h
<1>8. o \in Live(h) /\ "ref" \notin h[o].flags /\ o \notin Owned(h, r)  BY <1>5, <1>6, <1>7
<1>9. i # NoItem => i \in Live(h) /\ par[i] = o  BY <1>7, <1>8, Found
<1> HIDE DEF i
<1>10. i # NoItem => IsItemOf(i, o, h, par)  BY <1>8, <1>9 DEF IsItemOf
<1> QED  BY <1>4, <1>5, <1>7, <1>8, <1>10, ReplaceAnyKeeps

LEMMA ByIndexKeeps ==
  ASSUME TreeInv, NEW a \in Live(heap), NEW which \in Indices,
         DetachItemFromArray(a, which) \/ DeleteItemFromArray(a, which)
  PROVE  TreeInv'
<1> DEFINE i == GetArrayItem(heap, a, which)
<1>1. which \in Int  BY CJsonTreeAssumption
<1>2. "ref" \notin heap[a].flags /\ i # NoItem
  BY DEF DetachItemFromArray, DeleteItemFromArray, DetachAny, DeleteItem, CanChange
<1>3. \A par : Linked(heap, Roots, par) => i \in Live(heap) /\ par[i] = a  BY <1>1, <1>2, Found
<1>4. DetachAny(a, i) \/ DeleteItem(a, i)  BY DEF DetachItemFromArray, DeleteItemFromArray
<1> HIDE DEF i
<1> QED  BY <1>3, <1>4, DetachAnyKeeps, DeleteItemKeeps

LEMMA ByNameKeeps ==
  ASSUME TreeInv, NEW o \in Live(heap), NEW name, NEW sensitive,
         DetachItemFromObject(o, name, sensitive) \/ DeleteItemFromObject(o, name, sensitive)
  PROVE  TreeInv'
<1> DEFINE i == GetObjectItem(heap, o, name, sensitive)
<1>1. "ref" \notin heap[o].flags /\ i # NoItem
  BY DEF DetachItemFromObject, DeleteItemFromObject, DetachAny, DeleteItem, CanChange
<1>2. \A par : Linked(heap, Roots, par) => i \in Live(heap) /\ par[i] = o  BY <1>1, Found
<1>3. DetachAny(o, i) \/ DeleteItem(o, i)  BY DEF DetachItemFromObject, DeleteItemFromObject
<1> HIDE DEF i
<1> QED  BY <1>2, <1>3, DetachAnyKeeps, DeleteItemKeeps

-----------------------------------------------------------------------------
(* Arrays that are made in one call *)

LEMMA SameHeap ==
  ASSUME NEW g \in [Items -> Item], NEW h \in [Items -> Item], SameItems(g, h),
         \A j \in Items : g[j].next = h[j].next /\ g[j].prev = h[j].prev /\ g[j].child = h[j].child
  PROVE  g = h
<1> SUFFICES ASSUME NEW j \in Items PROVE g[j] = h[j]  OBVIOUS
<1>1. g[j] \in Item /\ h[j] \in Item  OBVIOUS
<1>2. g[j].type = h[j].type /\ g[j].flags = h[j].flags /\ g[j].string = h[j].string  BY DEF SameItems
<1> QED  BY <1>1, <1>2 DEF Item

WithChild(h, a, i) == [h EXCEPT ![a].child = i]
WithPrev(h, a, i) == [h EXCEPT ![a].prev = i]

LEMMA GiveChild ==
  ASSUME NEW h \in [Items -> Item], NEW a \in Items, NEW i \in Items
  PROVE  LET g == WithChild(h, a, i)
         IN  /\ g \in [Items -> Item] /\ SameItems(g, h)
             /\ \A j \in Items : /\ g[j].next = h[j].next /\ g[j].prev = h[j].prev
                                 /\ g[j].child = IF j = a THEN i ELSE h[j].child
BY DEF Item, SameItems, WithChild

LEMMA GivePrev ==
  ASSUME NEW h \in [Items -> Item], NEW a \in Items, NEW i \in Items
  PROVE  LET g == WithPrev(h, a, i)
         IN  /\ g \in [Items -> Item] /\ SameItems(g, h)
             /\ \A j \in Items : /\ g[j].next = h[j].next /\ g[j].child = h[j].child
                                 /\ g[j].prev = IF j = a THEN i ELSE h[j].prev
BY DEF Item, SameItems, WithPrev

LEMMA Suffixing ==
  ASSUME NEW h \in [Items -> Item], NEW m \in Items, NEW i \in Items
  PROVE  LET g == suffix_object(h, m, i)
         IN  /\ g \in [Items -> Item] /\ SameItems(g, h)
             /\ \A j \in Items : /\ g[j].next = IF j = m THEN i ELSE h[j].next
                                 /\ g[j].prev = IF j = i THEN m ELSE h[j].prev
                                 /\ g[j].child = h[j].child
BY DEF Item, SameItems, suffix_object

ListFirst(h, a) == [h EXCEPT ![a] = [New EXCEPT !.type = "array"]]

ListStep(g, a, at, m, kind) ==
  LET fresh == [g EXCEPT ![at[m]] = [New EXCEPT !.type = kind]]
  IN  IF m = 1 THEN [fresh EXCEPT ![a].child = at[1]]
      ELSE suffix_object(fresh, at[m - 1], at[m])

ListTo(h, a, at, n, kind, f) ==
  f = [m \in 0..n |-> IF m = 0 THEN ListFirst(h, a)
                      ELSE ListStep(f[m - 1], a, at, m, kind)]

\* The array of numbers, as a function of how many of them it has.
LEMMA ListAt ==
  ASSUME NEW h, NEW a, NEW at, NEW kind, NEW w \in Nat, NEW f, ListTo(h, a, at, w, kind, f)
  PROVE  /\ f[0] = ListFirst(h, a)
         /\ \A n \in 0..w : n # 0 => f[n] = ListStep(f[n - 1], a, at, n, kind)
<1> DEFINE B(n) == IF n = 0 THEN ListFirst(h, a)
                   ELSE ListStep(f[n - 1], a, at, n, kind)
<1>1. f = [n \in 0..w |-> B(n)]  BY Zenon DEF ListTo
<1>2. \A i \in 0..w : f[i] = B(i)
  <2> TAKE i \in 0..w
  <2>1. [n \in 0..w |-> B(n)][i] = B(i)  OBVIOUS
  <2> QED  BY <1>1, <2>1
<1>3. 0 \in 0..w  OBVIOUS
<1> QED  BY <1>2, <1>3

LEMMA ListThere ==
  ASSUME NEW h, NEW a, NEW at, NEW kind, NEW w \in Nat
  PROVE  \E f : ListTo(h, a, at, w, kind, f)
<1> DEFINE G == {n \in Nat : \E f : ListTo(h, a, at, n, kind, f)}
<1>1. 0 \in G
  <2> DEFINE f == [n \in 0..0 |-> ListFirst(h, a)]
  <2>1. ListTo(h, a, at, 0, kind, f)  BY DEF ListTo
  <2> QED  BY <2>1
<1>2. ASSUME NEW n \in Nat, n \in G  PROVE n + 1 \in G
  <2>1. PICK f : ListTo(h, a, at, n, kind, f)  BY <1>2
  <2>2. f[0] = ListFirst(h, a) /\ \A k \in 0..n : k # 0 => f[k] = ListStep(f[k - 1], a, at, k, kind)
    BY <2>1, ListAt
  <2> DEFINE g == [m \in 0..(n + 1) |-> IF m = 0 THEN ListFirst(h, a) ELSE ListStep(f[m - 1], a, at, m, kind)]
  <2>3. \A m \in 0..(n + 1) : m # 0 => g[m - 1] = f[m - 1]
    <3> SUFFICES ASSUME NEW m \in 0..(n + 1), m # 0 PROVE g[m - 1] = f[m - 1]  OBVIOUS
    <3>1. m - 1 \in 0..n /\ m - 1 \in 0..(n + 1)  OBVIOUS
    <3>2. g[m - 1] = IF m - 1 = 0 THEN ListFirst(h, a) ELSE ListStep(f[m - 1 - 1], a, at, m - 1, kind)  BY <3>1
    <3> QED  BY <2>2, <3>1, <3>2
  <2> HIDE DEF g
  <2>4. g = [m \in 0..(n + 1) |-> IF m = 0 THEN ListFirst(h, a) ELSE ListStep(f[m - 1], a, at, m, kind)]  BY DEF g
  <2>5. g = [m \in 0..(n + 1) |-> IF m = 0 THEN ListFirst(h, a) ELSE ListStep(g[m - 1], a, at, m, kind)]  BY <2>3, <2>4
  <2>6. ListTo(h, a, at, n + 1, kind, g)  BY <2>5, Zenon DEF ListTo
  <2> QED  BY <2>6
<1> HIDE DEF G
<1>3. w \in G  BY <1>1, <1>2, UpTo
<1> QED  BY <1>3 DEF G

\* With n items made, what is in the heap, L but for the first prev.
IsListed(L, G, a, at, m) ==
  /\ \E own : Linked(G, With(Roots, a), own)
  /\ \A j : j \in Live(G) <=> j \in Live(heap) \/ j = a \/ \E k \in 1..m : j = at[k]
  /\ \A j \in Live(heap) : G[j] = heap[j]
  /\ G[a].type = "array" /\ G[a].flags = {} /\ G[a].string = NoName
  /\ \A k \in 1..m : G[at[k]].child = NoItem
  /\ m = 0 => G[a].child = NoItem
  /\ m # 0 => G[a].child = at[1] /\ G[at[1]].prev = at[m]
  /\ L \in [Items -> Item] /\ SameItems(L, G)
  /\ \A j \in Items : /\ L[j].next = G[j].next /\ L[j].child = G[j].child
                      /\ j # G[a].child => L[j].prev = G[j].prev

LEMMA ListStarts ==
  ASSUME TreeInv, NEW a \in Unused, NEW at
  PROVE  LET L == ListFirst(heap, a)
         IN  IsListed(L, L, a, at, 0)
<1> DEFINE x == [New EXCEPT !.type = "array"]  L == [heap EXCEPT ![a] = x]
<1>1. x \in Item /\ x.type = "array" /\ x.next = NoItem /\ x.prev = NoItem /\ x.child = NoItem
      /\ x.flags = {} /\ x.string = NoName
  BY CJsonTreeAssumption DEF New, Item
<1> HIDE DEF x
<1>2. IsFresh(L, heap, a) /\ L \in [Items -> Item] /\ L[a] = x /\ a \in Items  BY <1>1, NewFresh
<1> HIDE DEF L
<1>3. /\ \E own : Linked(L, With(Roots, a), own)
      /\ Live(L) = Live(heap) \cup {a} /\ a \notin Live(heap)
  BY <1>2, GrownTo
<1>4. Live(heap) \subseteq Items  BY InvLinked
<1>5. \A j \in Live(heap) : L[j] = heap[j]  BY <1>2, <1>3, <1>4 DEF IsFresh
<1>6. \A j : j \in Live(L) <=> j \in Live(heap) \/ j = a \/ \E k \in 1..0 : j = at[k]  BY <1>3
<1>7. \A k \in 1..0 : L[at[k]].child = NoItem  OBVIOUS
<1>8. SameItems(L, L)  BY DEF SameItems
<1>9. IsListed(L, L, a, at, 0)  BY <1>1, <1>2, <1>3, <1>5, <1>6, <1>7, <1>8 DEF IsListed
<1> QED  BY <1>9 DEF L, x, ListFirst

\* Another block is taken for an item.
LEMMA ListGrows ==
  ASSUME TreeInv, NEW a \in Unused, NEW n \in Nat, NEW at \in [1..n -> Unused \ {a}], IsInjective(at),
         NEW kind \in Leaves, NEW m \in 1..n, NEW L, NEW G, IsListed(L, G, a, at, m - 1)
  PROVE  \E H : IsListed(ListStep(L, a, at, m, kind), H, a, at, m)
<1>1. PICK x : x = [New EXCEPT !.type = kind]  OBVIOUS
<1>2. x \in Item /\ x.type = kind /\ kind # "free" /\ x.next = NoItem /\ x.prev = NoItem /\ x.child = NoItem
      /\ x.flags = {} /\ x.string = NoName
  BY <1>1, CJsonTreeAssumption DEF New, Item
<1>3. PICK i : i = at[m]  OBVIOUS
<1>4. i \in Items /\ a \in Items /\ i # a /\ i \notin Live(heap) /\ a \notin Live(heap) /\ m \in Nat /\ m - 1 \in Nat
  BY <1>3, InvIs
<1>5. \A k \in 1..(m - 1) : at[k] # i /\ at[k] \in Items /\ at[k] # a /\ at[k] \notin Live(heap)
  <2> TAKE k \in 1..(m - 1)
  <2>1. k \in 1..n /\ k # m  OBVIOUS
  <2>2. at[k] # at[m]  BY <2>1 DEF IsInjective
  <2> QED  BY <1>3, <2>1, <2>2, InvIs
<1>6. PICK own : Linked(G, With(Roots, a), own)  BY DEF IsListed
<1>7. G \in [Items -> Item] /\ Live(G) \subseteq Items /\ NoItem \notin Items /\ a \in With(Roots, a)
      /\ Roots \subseteq Live(heap) /\ Live(heap) \subseteq Items
  BY <1>6, LiveIs, InvLinked DEF Linked, With
<1>8. i \notin Live(G) /\ a \in Live(G) /\ G[i].type = "free"
  <2>1. i \notin Live(G) /\ a \in Live(G)  BY <1>4, <1>5 DEF IsListed
  <2> QED  BY <1>4, <1>7, <2>1, LiveIs
<1>9. PICK G1 : G1 = [G EXCEPT ![i] = x]  OBVIOUS
<1>10. G1 \in [Items -> Item] /\ G1[i] = x /\ \A j \in Items \ {i} : G1[j] = G[j]  BY <1>2, <1>4, <1>7, <1>9
<1>11. IsFresh(G1, G, i)  BY <1>2, <1>4, <1>8, <1>10 DEF IsFresh
<1>12. PICK R : R = With(Roots, a)  OBVIOUS
<1>13. Linked(G, R, own) /\ a \in R /\ i \notin R  BY <1>4, <1>6, <1>7, <1>12 DEF With
<1>14. /\ \E new : Linked(G1, With(R, i), new)
       /\ Live(G1) = Live(G) \cup {i} /\ Owned(G1, i) = {i}
  BY <1>11, <1>13, FreshRoot
<1>15. PICK new : Linked(G1, With(R, i), new)  BY <1>14
<1>16. i \in With(R, i) /\ Without(With(R, i), i) = R  BY <1>13 DEF With, Without
<1>17. a \in Live(G1) /\ "ref" \notin G1[a].flags /\ a \notin Owned(G1, i) /\ G1[a] = G[a]
  <2>1. G1[a] = G[a] /\ G[a].flags = {}  BY <1>4, <1>10 DEF IsListed
  <2> QED  BY <1>4, <1>8, <1>14, <2>1
<1> DEFINE H == add_item_to_array(G1, a, i)
<1>18. \E o : Linked(H, R, o)
  <2>1. \E o : Linked(H, Without(With(R, i), i), o)  BY <1>15, <1>16, <1>17, AppendKeeps
  <2> HIDE DEF H
  <2> QED  BY <1>16, <2>1
<1>19. PICK L1 : L1 = [L EXCEPT ![i] = x]  OBVIOUS
<1>20. L1 \in [Items -> Item] /\ SameItems(L1, G1)
       /\ \A j \in Items : /\ L1[j].next = G1[j].next /\ L1[j].child = G1[j].child
                           /\ j # G[a].child => L1[j].prev = G1[j].prev
  <2>1. L \in [Items -> Item] /\ SameItems(L, G)
        /\ \A j \in Items : /\ L[j].next = G[j].next /\ L[j].child = G[j].child
                            /\ j # G[a].child => L[j].prev = G[j].prev
    BY DEF IsListed
  <2>2. L1 \in [Items -> Item] /\ L1[i] = x /\ \A j \in Items \ {i} : L1[j] = L[j]  BY <1>2, <1>4, <1>19, <2>1
  <2> QED  BY <1>10, <2>1, <2>2 DEF SameItems
<1>21. ListStep(L, a, at, m, kind) = IF m = 1 THEN [L1 EXCEPT ![a].child = at[1]]
                                     ELSE suffix_object(L1, at[m - 1], at[m])
  BY <1>1, <1>3, <1>19, Zenon DEF ListStep
<1>22. \A j : j \in Live(G1) <=> j \in Live(heap) \/ j = a \/ \E k \in 1..m : j = at[k]
  <2>1. \A j : j \in Live(G) <=> j \in Live(heap) \/ j = a \/ \E k \in 1..(m - 1) : j = at[k]  BY DEF IsListed
  <2>2. \A k : k \in 1..m <=> k \in 1..(m - 1) \/ k = m  BY <1>4
  <2> QED  BY <1>3, <1>14, <2>1, <2>2
<1>23. CASE m = 1
  <2>1. G1[a].child = NoItem  BY <1>17, <1>23 DEF IsListed
  <2>2. /\ H \in [Items -> Item] /\ SameItems(H, G1)
        /\ \A j \in Items : /\ H[j].next = IF j = i THEN NoItem ELSE G1[j].next
                            /\ H[j].prev = IF j = i THEN i ELSE G1[j].prev
                            /\ H[j].child = IF j = a THEN i ELSE G1[j].child
    BY <1>4, <1>10, <2>1, AppendFirst
  <2> HIDE DEF H
  <2>3. PICK K : K = WithChild(L1, a, i)  OBVIOUS
  <2>4. /\ K \in [Items -> Item] /\ SameItems(K, L1)
        /\ \A j \in Items : /\ K[j].next = L1[j].next /\ K[j].prev = L1[j].prev
                            /\ K[j].child = IF j = a THEN i ELSE L1[j].child
    <3>1. L1 \in [Items -> Item]  BY <1>20
    <3>2. a \in Items /\ i \in Items  BY <1>4
    <3> QED  BY <2>3, <3>1, <3>2, GiveChild
  <2>5. ListStep(L, a, at, m, kind) = K  BY <1>3, <1>21, <1>23, <2>3 DEF WithChild
  <2>6. SameItems(K, H)  BY <1>20, <2>2, <2>4 DEF SameItems
  <2>7. Live(H) = Live(G1)  BY <1>10, <2>2, SameLive
  <2>8. H[a].child = i /\ H[i].prev = i /\ i = at[1] /\ H[i].child = NoItem
    BY <1>2, <1>3, <1>4, <1>10, <1>23, <2>2
  <2>9. \A j \in Items : /\ K[j].next = H[j].next /\ K[j].child = H[j].child
                         /\ j # H[a].child => K[j].prev = H[j].prev
    <3>1. G1[i].next = NoItem  BY <1>2, <1>10
    <3>2. G[a].child = NoItem  BY <1>17, <2>1
    <3> QED  BY <1>7, <1>20, <2>2, <2>4, <2>8, <3>1, <3>2
  <2>10. \A j \in Live(heap) : H[j] = heap[j]
    <3> SUFFICES ASSUME NEW j \in Live(heap) PROVE H[j] = heap[j]  OBVIOUS
    <3>1. j \in Items /\ j # i /\ j # a  BY <1>4, <1>7
    <3>2. H[j].next = G1[j].next /\ H[j].prev = G1[j].prev /\ H[j].child = G1[j].child
          /\ H[j].type = G1[j].type /\ H[j].flags = G1[j].flags /\ H[j].string = G1[j].string
      BY <2>2, <3>1 DEF SameItems
    <3>3. H[j] \in Item /\ G1[j] \in Item  BY <1>10, <2>2, <3>1
    <3>4. H[j] = G1[j]  BY <3>2, <3>3 DEF Item
    <3> QED  BY <1>10, <3>1, <3>4 DEF IsListed
  <2>11. H[a].type = "array" /\ H[a].flags = {} /\ H[a].string = NoName
    BY <1>4, <1>17, <2>2 DEF IsListed, SameItems
  <2>12. \A k \in 1..m : H[at[k]].child = NoItem  BY <1>23, <2>8
  <2>13. m # 0 /\ at[m] = i /\ at[1] = i  BY <1>3, <1>23
  <2>14. IsListed(K, H, a, at, m)
    BY <1>12, <1>18, <1>22, <2>4, <2>6, <2>7, <2>8, <2>9, <2>10, <2>11, <2>12, <2>13 DEF IsListed
  <2> QED  BY <2>5, <2>14
<1>24. CASE m # 1
  <2>1. PICK c, l : c = at[1] /\ l = at[m - 1]  OBVIOUS
  <2>2. 1 \in 1..(m - 1) /\ m - 1 \in 1..(m - 1) /\ m - 1 # 0  BY <1>4, <1>24
  <2>3. c \in Items /\ l \in Items /\ c # i /\ l # i /\ c # a /\ l # a /\ c \notin Live(heap) /\ l \notin Live(heap)
        /\ c # NoItem /\ l # NoItem
    BY <1>5, <1>7, <2>1, <2>2
  <2>4. G[a].child = c /\ G[c].prev = l  BY <2>1, <2>2 DEF IsListed
  <2>5. G1[a].child = c /\ G1[c].prev = l  BY <1>10, <1>17, <2>3, <2>4
  <2>6. /\ H \in [Items -> Item] /\ SameItems(H, G1)
        /\ \A j \in Items : /\ H[j].next = IF j = l THEN i ELSE G1[j].next
                            /\ H[j].prev = IF j = c THEN i ELSE IF j = i THEN l ELSE G1[j].prev
                            /\ H[j].child = G1[j].child
    BY <1>4, <1>10, <2>3, <2>5, AppendAfter
  <2> HIDE DEF H
  <2>7. PICK K : K = suffix_object(L1, l, i)  OBVIOUS
  <2>8. /\ K \in [Items -> Item] /\ SameItems(K, L1)
        /\ \A j \in Items : /\ K[j].next = IF j = l THEN i ELSE L1[j].next
                            /\ K[j].prev = IF j = i THEN l ELSE L1[j].prev
                            /\ K[j].child = L1[j].child
    BY <1>4, <1>20, <2>3, <2>7, Suffixing
  <2>9. ListStep(L, a, at, m, kind) = K  BY <1>3, <1>21, <1>24, <2>1, <2>7
  <2>10. SameItems(K, H)  BY <1>20, <2>6, <2>8 DEF SameItems
  <2>11. Live(H) = Live(G1)  BY <1>10, <2>6, SameLive
  <2>12. H[a].child = c /\ H[c].prev = i  BY <1>4, <2>3, <2>5, <2>6
  <2>13. \A j \in Items : /\ K[j].next = H[j].next /\ K[j].child = H[j].child
                          /\ j # H[a].child => K[j].prev = H[j].prev
    BY <1>20, <2>4, <2>6, <2>8, <2>12
  <2>14. \A j \in Live(heap) : H[j] = heap[j]
    <3> SUFFICES ASSUME NEW j \in Live(heap) PROVE H[j] = heap[j]  OBVIOUS
    <3>1. j \in Items /\ j # i /\ j # l /\ j # c  BY <1>4, <1>7, <2>3
    <3>2. H[j].next = G1[j].next /\ H[j].prev = G1[j].prev /\ H[j].child = G1[j].child
          /\ H[j].type = G1[j].type /\ H[j].flags = G1[j].flags /\ H[j].string = G1[j].string
      BY <2>6, <3>1 DEF SameItems
    <3>3. H[j] \in Item /\ G1[j] \in Item  BY <1>10, <2>6, <3>1
    <3>4. H[j] = G1[j]  BY <3>2, <3>3 DEF Item
    <3> QED  BY <1>10, <3>1, <3>4 DEF IsListed
  <2>15. H[a].type = "array" /\ H[a].flags = {} /\ H[a].string = NoName
    BY <1>4, <1>17, <2>6 DEF IsListed, SameItems
  <2>16. \A k \in 1..m : H[at[k]].child = NoItem
    <3> SUFFICES ASSUME NEW k \in 1..m PROVE H[at[k]].child = NoItem  OBVIOUS
    <3>1. CASE k = m  BY <1>2, <1>3, <1>4, <1>10, <2>6, <3>1
    <3>2. CASE k \in 1..(m - 1)
      <4>1. at[k] \in Items /\ at[k] # i  BY <1>5, <3>2
      <4>2. G[at[k]].child = NoItem  BY <3>2 DEF IsListed
      <4> QED  BY <1>10, <2>6, <4>1, <4>2
    <3> QED  BY <1>4, <3>1, <3>2
  <2>17. m # 0 /\ at[m] = i /\ at[1] = c  BY <1>3, <1>4, <2>1
  <2>18. IsListed(K, H, a, at, m)
    BY <1>12, <1>18, <1>22, <2>8, <2>10, <2>11, <2>12, <2>13, <2>14, <2>15, <2>16, <2>17 DEF IsListed
  <2> QED  BY <2>9, <2>18
<1> QED  BY <1>23, <1>24

LEMMA ListedIs ==
  ASSUME TreeInv, NEW a \in Unused, NEW n \in Nat, NEW at \in [1..n -> Unused \ {a}], IsInjective(at),
         NEW kind \in Leaves
  PROVE  \E G : IsListed(Listed(heap, a, at, n, kind), G, a, at, n)
<1> DEFINE f == CHOOSE g : ListTo(heap, a, at, n, kind, g)
<1>1. ListTo(heap, a, at, n, kind, f)  BY ListThere
<1>2. Listed(heap, a, at, n, kind) = f[n]  BY Zenon DEF Listed, ListTo, ListFirst, ListStep
<1> HIDE DEF f
<1>3. /\ f[0] = ListFirst(heap, a)
      /\ \A m \in 0..n : m # 0 => f[m] = ListStep(f[m - 1], a, at, m, kind)
  BY <1>1, ListAt
<1> DEFINE S == {m \in 0..n : \E G : IsListed(f[m], G, a, at, m)}
<1>4. 0 \in S
  <2>1. IsListed(f[0], f[0], a, at, 0)  BY <1>3, ListStarts
  <2> QED  BY <2>1
<1>5. ASSUME NEW m \in 0..n, m \in S, m < n  PROVE m + 1 \in S
  <2>1. PICK k : k = m + 1  OBVIOUS
  <2>2. k \in 1..n /\ k \in 0..n /\ k # 0 /\ k - 1 = m  BY <1>5, <2>1
  <2>3. PICK G : IsListed(f[m], G, a, at, m)  BY <1>5
  <2>4. PICK L : L = f[m]  OBVIOUS
  <2>5. IsListed(L, G, a, at, k - 1)  BY <2>2, <2>3, <2>4
  <2>6. \E H : IsListed(ListStep(L, a, at, k, kind), H, a, at, k)  BY <2>2, <2>5, ListGrows
  <2>7. f[k] = ListStep(f[k - 1], a, at, k, kind)  BY <1>3, <2>2
  <2>8. f[k] = ListStep(L, a, at, k, kind)  BY <2>2, <2>4, <2>7
  <2>9. \E H : IsListed(f[k], H, a, at, k)  BY <2>6, <2>8, Zenon
  <2> QED  BY <2>1, <2>2, <2>9
<1> HIDE DEF S
<1>6. \A m \in 0..n : m \in S  BY <1>4, <1>5, UpTo
<1>7. n \in S  BY <1>6
<1>8. \E G : IsListed(f[n], G, a, at, n)  BY <1>7 DEF S
<1> QED  BY <1>2, <1>8, Zenon

LEMMA LenIs ==
  ASSUME NEW n \in Nat, NEW S, NEW s \in [1..n -> S]
  PROVE  Len(s) = n /\ ToSet(s) = {s[k] : k \in 1..n} /\ Last(s) = s[n]
<1>1. s \in Seq(S) /\ DOMAIN s = 1..n  OBVIOUS
<1>2. Len(s) = n  BY <1>1
<1> QED  BY <1>1, <1>2 DEF ToSet, Last

\* The array and its items are what is new.
LEMMA ListedCounts ==
  ASSUME TreeInv, NEW a \in Unused, NEW n \in Nat, NEW at \in [1..n -> Unused \ {a}], NEW L, NEW G,
         IsListed(L, G, a, at, n)
  PROVE  /\ Counted(G) = strs + Cardinality(OwnedStrings(L, ToSet(at)))
         /\ Cardinality(OwnedStrings(L, ToSet(at))) \in Nat
         /\ \A S \in SUBSET Items : OwnedStrings(L, S) = OwnedStrings(G, S)
<1> DEFINE T == ToSet(at)  A == {a} \cup T
<1>1. PICK own : Linked(G, With(Roots, a), own)  BY DEF IsListed
<1>2. G \in [Items -> Item] /\ heap \in [Items -> Item] /\ L \in [Items -> Item] /\ SameItems(L, G)
      /\ strs = Counted(heap) /\ strs \in Nat
  BY <1>1, InvLinked DEF Linked, IsListed
<1>3. T = {at[k] : k \in 1..n}  BY LenIs
<1>4. a \in Items /\ a \notin Live(heap) /\ \A k \in 1..n : at[k] \in Items /\ at[k] \notin Live(heap) /\ at[k] # a
  BY InvIs
<1>5. T \in SUBSET Items /\ T \cap Live(heap) = {} /\ a \notin T  BY <1>3, <1>4
<1>6. Live(G) = Live(heap) \cup A
  <2>1. \A j : j \in T <=> \E k \in 1..n : j = at[k]  BY <1>3
  <2> HIDE DEF T
  <2> QED  BY <2>1 DEF IsListed
<1>7. A \in SUBSET Items /\ A \cap Live(heap) = {}  BY <1>4, <1>5
<1>8. \A j \in Live(heap) : G[j] = heap[j]  BY DEF IsListed
<1>9. Cardinality(OwnedStrings(G, Live(G))) =
        Cardinality(OwnedStrings(heap, Live(heap))) + Cardinality(OwnedStrings(G, A))
  <2> HIDE DEF A
  <2> QED  BY <1>2, <1>6, <1>7, <1>8, StringsMore
<1>10. {a} \in SUBSET Items /\ {a} \cap T = {}  BY <1>4, <1>5
<1>11. Cardinality(OwnedStrings(G, A)) = Cardinality(OwnedStrings(G, {a})) + Cardinality(OwnedStrings(G, T))
  <2> HIDE DEF T
  <2> QED  BY <1>2, <1>5, <1>10, StringsSum
<1>12. Cardinality(OwnedStrings(G, {a})) = 0
  <2>1. G[a].string = NoName /\ G[a].type \notin Texts  BY CJsonTreeAssumption DEF IsListed
  <2> QED  BY <1>2, <1>4, <2>1, ItsStrings
<1>13. ASSUME NEW S \in SUBSET Items  PROVE OwnedStrings(L, S) = OwnedStrings(G, S)  BY <1>2, SameStrings
<1>14. OwnedStrings(L, T) = OwnedStrings(G, T)  BY <1>5, <1>13
<1>15. Cardinality(OwnedStrings(G, T)) \in Nat  BY <1>2, <1>5, StringsFinite
<1>16. Cardinality(OwnedStrings(L, T)) = Cardinality(OwnedStrings(G, T))  BY <1>14, Zenon
<1> HIDE DEF A, T
<1>17. Counted(G) = strs + Cardinality(OwnedStrings(G, T))  BY <1>2, <1>9, <1>11, <1>12, <1>15 DEF Counted
<1> QED  BY <1>13, <1>15, <1>16, <1>17 DEF T

LEMMA CreateArrayOfKeeps ==
  ASSUME TreeInv, NEW a \in Unused, NEW n \in Counts, NEW at \in [1..n -> Unused \ {a}], IsInjective(at),
         NEW kind \in Leaves, CreateArrayOf(a, at, kind)
  PROVE  TreeInv' /\ Undisturbed
<1>1. n \in Nat  BY CJsonTreeAssumption
<1>2. Len(at) = n /\ Last(at) = at[n]  BY <1>1, LenIs
<1>3. PICK L : L = Listed(heap, a, at, n, kind)  OBVIOUS
<1>4. PICK G : IsListed(L, G, a, at, n)  BY <1>1, <1>3, ListedIs
<1>5. /\ at # <<>> /\ heap' = WithPrev(L, L[a].child, at[n])
      /\ strs' = strs + Cardinality(OwnedStrings(L, ToSet(at)))
      /\ held' = held \cup {a} /\ lost' = lost
  BY <1>2, <1>3, Zenon DEF CreateArrayOf, WithPrev
<1>6. n # 0
  <2> SUFFICES ASSUME n = 0 PROVE FALSE  OBVIOUS
  <2>1. at \in Seq(Items) /\ Len(at) = 0  BY <1>2, InvIs
  <2> QED  BY <1>5, <2>1
<1>7. a \in Items /\ a \notin Live(heap) /\ \A k \in 1..n : at[k] \in Items  BY InvIs
<1>8. 1 \in 1..n /\ n \in 1..n  BY <1>1, <1>6
<1>9. L \in [Items -> Item] /\ SameItems(L, G) /\ G[a].child = at[1] /\ G[at[1]].prev = at[n]
      /\ \A j \in Items : /\ L[j].next = G[j].next /\ L[j].child = G[j].child
                          /\ j # G[a].child => L[j].prev = G[j].prev
  BY <1>6, <1>4 DEF IsListed
<1>10. L[a].child = at[1] /\ at[1] \in Items /\ at[n] \in Items  BY <1>7, <1>8, <1>9
<1>11. PICK c : c = at[1]  OBVIOUS
<1>12. PICK l : l = at[n]  OBVIOUS
<1>13. PICK g : g = WithPrev(L, c, l)  OBVIOUS
<1>14. /\ g \in [Items -> Item] /\ SameItems(g, L)
       /\ \A j \in Items : /\ g[j].next = L[j].next /\ g[j].child = L[j].child
                           /\ g[j].prev = IF j = c THEN l ELSE L[j].prev
  <2>1. c \in Items /\ l \in Items /\ L \in [Items -> Item]  BY <1>9, <1>10, <1>11, <1>12
  <2> QED  BY <1>13, <2>1, GivePrev
<1>15. PICK R : R = With(Roots, a)  OBVIOUS
<1>16. \E own : Linked(G, R, own)  BY <1>4, <1>15 DEF IsListed
<1>17. G \in [Items -> Item]  BY <1>16 DEF Linked
<1>18. G = g
  <2>1. SameItems(g, G)  BY <1>9, <1>14 DEF SameItems
  <2>2. \A j \in Items : g[j].next = G[j].next /\ g[j].prev = G[j].prev /\ g[j].child = G[j].child
    BY <1>9, <1>11, <1>12, <1>14
  <2> QED  BY <1>14, <1>17, <2>1, <2>2, SameHeap
<1>19. heap' = G  BY <1>5, <1>10, <1>11, <1>12, <1>13, <1>18
<1>20. Counted(G) = strs + Cardinality(OwnedStrings(L, ToSet(at)))  BY <1>1, <1>4, ListedCounts
<1>21. a \notin Roots  BY <1>7, InvLinked
<1>22. R = (held \cup {a}) \cup lost /\ (held \cup {a}) \cap lost = {}  BY <1>15, <1>21, RootsAre
<1>23. Undisturbed  BY <1>4, <1>19 DEF IsListed, Undisturbed
<1> QED  BY <1>5, <1>16, <1>19, <1>20, <1>22, <1>23, InvAgain

LEMMA CreateArrayFailsKeeps ==
  ASSUME TreeInv, NEW a \in Unused, NEW n \in Counts, NEW at \in [1..n -> Unused \ {a}], IsInjective(at),
         NEW kind \in Leaves, CreateArrayFails(a, at, kind)
  PROVE  TreeInv' /\ Undisturbed
<1>1. n \in Nat  BY CJsonTreeAssumption
<1>2. Len(at) = n  BY <1>1, LenIs
<1>3. PICK L : L = Listed(heap, a, at, n, kind)  OBVIOUS
<1>4. PICK G : IsListed(L, G, a, at, n)  BY <1>1, <1>3, ListedIs
<1>5. /\ heap' = Free(L, Owned(L, a))
      /\ strs' = strs + Cardinality(OwnedStrings(L, ToSet(at))) - Cardinality(OwnedStrings(L, Owned(L, a)))
      /\ held' = held /\ lost' = lost
  BY <1>2, <1>3, Zenon DEF CreateArrayFails
<1>6. a \in Items /\ a \notin Live(heap) /\ \A k \in 1..n : at[k] \in Items /\ at[k] \notin Live(heap)  BY InvIs
<1>7. PICK R : R = With(Roots, a)  OBVIOUS
<1>8. PICK own : Linked(G, R, own)  BY <1>4, <1>7 DEF IsListed
<1>9. G \in [Items -> Item] /\ Live(G) \subseteq Items /\ NoItem \notin Items /\ Roots \subseteq Live(heap)
      /\ Live(heap) \subseteq Items /\ heap \in [Items -> Item]
  BY <1>8, LiveIs, InvLinked DEF Linked
<1>10. a \in R /\ Without(R, a) = Roots  BY <1>6, <1>7, <1>9 DEF With, Without
<1>11. L \in [Items -> Item] /\ SameItems(L, G)
       /\ \A j \in Items : /\ L[j].next = G[j].next /\ L[j].child = G[j].child
                           /\ j # G[a].child => L[j].prev = G[j].prev
  BY <1>4 DEF IsListed
<1>12. G[a].flags = {} /\ (n = 0 => G[a].child = NoItem) /\ (n # 0 => G[a].child = at[1])
       /\ \A k \in 1..n : G[at[k]].child = NoItem
  BY <1>4 DEF IsListed
<1>13. \A j : j \in Live(G) <=> j \in Live(heap) \/ j = a \/ \E k \in 1..n : j = at[k]  BY <1>4 DEF IsListed
<1>14. \A j \in Live(heap) : G[j] = heap[j]  BY <1>4 DEF IsListed
<1>15. Owned(L, a) = Owned(G, a)
  <2>1. \A j \in Items : \A k : Edge(L, j, k) <=> Edge(G, j, k)  BY <1>11 DEF Edge, SameItems
  <2>2. Owned(L, a) \subseteq Owned(G, a)  BY <1>6, <1>9, <1>11, <2>1, OwnedIs
  <2>3. Owned(G, a) \subseteq Owned(L, a)  BY <1>6, <1>9, <1>11, <2>1, OwnedIs
  <2> QED  BY <2>2, <2>3
<1>16. PICK O : O = Owned(G, a)  OBVIOUS
<1>17. O \subseteq Live(G) /\ a \in O /\ (\A k \in Items : Edge(G, a, k) => k \in O) /\ O \in SUBSET Items
  BY <1>6, <1>8, <1>9, <1>10, <1>16, OwnedIs, OwnedAreLive DEF Linked
<1>18. O \cap Live(heap) = {}
  <2> DEFINE C == Items \ Live(heap)
  <2>1. C \in SUBSET Items /\ a \in C  BY <1>6
  <2>2. \A j \in C, k \in Items : Edge(G, j, k) => k \in C
    <3> SUFFICES ASSUME NEW j \in C, NEW k \in Live(heap), Edge(G, j, k) PROVE FALSE  BY <1>9
    <3>1. k # NoItem /\ j \in Items /\ j \notin Live(heap) /\ k \in Live(G)  BY <1>9, <1>13 DEF Edge
    <3>2. j \in Live(G)
      <4> SUFFICES ASSUME j \notin Live(G) PROVE FALSE  OBVIOUS
      <4>1. G[j] = New  BY <1>8, <1>9, <3>1, LiveIs DEF Linked, Solid
      <4> QED  BY <4>1 DEF Edge, New
    <3>3. CASE G[j].next = k
      <4>1. G[k].prev = j  BY <1>8, <3>1, <3>2, <3>3 DEF Linked, Neighbours
      <4>2. heap[k].prev = j  BY <1>14, <4>1
      <4>3. \E par : Linked(heap, Roots, par)  BY InvLinked
      <4>4. heap[k].prev \in Live(heap) \cup {NoItem}  BY <4>3 DEF Linked, Solid
      <4> QED  BY <1>9, <3>1, <4>2, <4>4
    <3>4. CASE G[j].child = k
      <4>1. j = a \/ \E m \in 1..n : j = at[m]  BY <1>13, <3>1, <3>2
      <4>2. j = a  BY <1>12, <3>1, <3>4, <4>1
      <4>3. n # 0 /\ k = at[1]  BY <1>12, <3>1, <3>4, <4>2
      <4>4. 1 \in 1..n  BY <1>1, <4>3
      <4> QED  BY <1>6, <4>3, <4>4
    <3> QED  BY <3>3, <3>4 DEF Edge
  <2> HIDE DEF C
  <2>3. O \subseteq C  BY <1>6, <1>9, <1>16, <2>1, <2>2, OwnedLeast
  <2> QED  BY <2>3 DEF C
<1>19. Unreferenced(G, O)
  <2> SUFFICES ASSUME NEW r \in Live(G), r \notin O, "ref" \in G[r].flags PROVE G[r].child \notin O
    BY DEF Unreferenced
  <2>1. NoItem \notin O  BY <1>9, <1>17
  <2>2. CASE r \in Live(heap)
    <3>1. \E par : Linked(heap, Roots, par)  BY InvLinked
    <3>2. heap[r].child \in Live(heap) \cup {NoItem}  BY <2>2, <3>1 DEF Linked, Solid
    <3> QED  BY <1>14, <1>18, <2>1, <2>2, <3>2
  <2>3. CASE \E m \in 1..n : r = at[m]  BY <1>12, <2>1, <2>3
  <2> QED  BY <1>13, <1>17, <2>2, <2>3
<1>20. Free(L, O) = Free(G, O)
  <2>1. ASSUME NEW j \in Items, j \notin O  PROVE L[j] = G[j]
    <3>1. j # G[a].child
      <4> SUFFICES ASSUME j = G[a].child PROVE FALSE  OBVIOUS
      <4>1. Edge(G, a, j)  BY <1>9, <1>12 DEF Edge
      <4> QED  BY <1>17, <2>1, <4>1
    <3>2. L[j].next = G[j].next /\ L[j].prev = G[j].prev /\ L[j].child = G[j].child
          /\ L[j].type = G[j].type /\ L[j].flags = G[j].flags /\ L[j].string = G[j].string
      BY <1>11, <3>1 DEF SameItems
    <3>3. L[j] \in Item /\ G[j] \in Item  BY <1>9, <1>11
    <3> QED  BY <3>2, <3>3 DEF Item
  <2>2. DOMAIN L = Items /\ DOMAIN G = Items  BY <1>9, <1>11
  <2> QED  BY <2>1, <2>2 DEF Free
<1>21. PICK g : g = Free(G, O)  OBVIOUS
<1>22. /\ \E new : Linked(g, Without(R, a), new)
       /\ Counted(g) = Counted(G) - Cardinality(OwnedStrings(G, O))
  BY <1>8, <1>10, <1>16, <1>19, <1>21, FreeKeeps
<1>23. \E new : Linked(g, Roots, new)  BY <1>10, <1>22
<1>24. heap' = g  BY <1>5, <1>15, <1>16, <1>20, <1>21
<1>25. /\ Counted(G) = strs + Cardinality(OwnedStrings(L, ToSet(at)))
       /\ OwnedStrings(L, O) = OwnedStrings(G, O)
  BY <1>1, <1>4, <1>17, ListedCounts
<1>26. strs' = strs + Cardinality(OwnedStrings(L, ToSet(at))) - Cardinality(OwnedStrings(G, O))
  BY <1>5, <1>15, <1>16, <1>25, Zenon
<1>27. strs' = Counted(g)
  <2>1. Counted(g) = Counted(G) - Cardinality(OwnedStrings(G, O))  BY <1>22
  <2>2. Counted(G) = strs + Cardinality(OwnedStrings(L, ToSet(at)))  BY <1>25
  <2>3. Cardinality(OwnedStrings(G, O)) \in Nat  BY <1>9, <1>17, StringsFinite
  <2>4. Cardinality(OwnedStrings(L, ToSet(at))) \in Nat  BY <1>1, <1>4, ListedCounts
  <2>5. strs \in Nat  BY InvLinked
  <2> QED  BY <1>26, <2>1, <2>2, <2>3, <2>4, <2>5
<1>28. Undisturbed
  <2>1. \A j \in Live(heap) : j \in DOMAIN G /\ j \notin O  BY <1>9, <1>18
  <2>2. \A j \in Live(heap) : g[j] = G[j]  BY <1>21, <2>1 DEF Free
  <2> QED  BY <1>14, <1>24, <2>2 DEF Undisturbed
<1> QED  BY <1>5, <1>23, <1>24, <1>27, <1>28, RootsAre, InvAgain

-----------------------------------------------------------------------------
(* Copies *)

\* What a copy of i comes to is the least set with i and what is under it.
LEMMA CopiedIs ==
  ASSUME NEW h \in [Items -> Item], NEW i \in Items
  PROVE  /\ i \in Copied(h, i) /\ Copied(h, i) \subseteq Items
         /\ \A j \in Copied(h, i) : h[j].child \in Copied(h, i) \cup {NoItem}
         /\ \A j \in Copied(h, i) : j # i => h[j].next \in Copied(h, i) \cup {NoItem}
         /\ \A C \in SUBSET Items :
              i \in C /\ (\A j \in C : h[j].child \in C \cup {NoItem} /\ (j # i => h[j].next \in C \cup {NoItem}))
                => Copied(h, i) \subseteq C
<1> DEFINE to == Copies(h, i)
<1>1. DOMAIN to = Items /\ \A j \in Items : to[j] = {h[j].child, IF j = i THEN NoItem ELSE h[j].next}
  BY DEF Copies
<1>2. \A j \in Items : h[j].next \in Items \cup {NoItem} /\ h[j].child \in Items \cup {NoItem}  BY DEF Item
<1>3. \A j \in DOMAIN to : to[j] \subseteq DOMAIN to \cup {NoItem}  BY <1>1, <1>2
<1>4. Copied(h, i) = Reach(i, to)  BY DEF Copied
<1> HIDE DEF to
<1>5. /\ i \in Reach(i, to) /\ Reach(i, to) \subseteq DOMAIN to
      /\ \A j \in Reach(i, to) : to[j] \subseteq Reach(i, to) \cup {NoItem}
      /\ \A C \in SUBSET DOMAIN to :
           i \in C /\ (\A j \in C : to[j] \subseteq C \cup {NoItem}) => Reach(i, to) \subseteq C
  BY <1>1, <1>3, ReachIs
<1>6. \A j \in Items : h[j].child \in to[j] /\ (j # i => h[j].next \in to[j])  BY <1>1
<1>7. ASSUME NEW C \in SUBSET Items, i \in C,
             \A j \in C : h[j].child \in C \cup {NoItem} /\ (j # i => h[j].next \in C \cup {NoItem})
      PROVE  Reach(i, to) \subseteq C
  <2>1. \A j \in C : to[j] \subseteq C \cup {NoItem}  BY <1>1, <1>7
  <2> QED  BY <1>1, <1>5, <1>7, <2>1
<1>8. \A j \in Reach(i, to) : h[j].child \in Reach(i, to) \cup {NoItem}
                              /\ (j # i => h[j].next \in Reach(i, to) \cup {NoItem})
  BY <1>1, <1>5, <1>6
<1> QED  BY <1>1, <1>4, <1>5, <1>7, <1>8

CopyTo(i, S, f, p) == IF p \in S \ {i} THEN f[p] ELSE NoItem

LastFrom(j) == CHOOSE k \in Reach(j, Follows(heap)) : heap[k].next = NoItem

BeforeIt(i, S, j) ==
  IF \E k \in S : heap[k].child = j THEN LastFrom(j) ELSE CHOOSE k \in S : k # i /\ heap[k].next = j

\* The copies that f makes of S, in h, when nothing is linked to those of Q.
LinkedTo(Q, S, f, p) == IF p \in S \ Q THEN f[p] ELSE NoItem

AreBegun(h, i, Q, S, f) ==
  /\ h \in [Items -> Item]
  /\ \A m \in Items : (\A j \in S : m # f[j]) => h[m] = heap[m]
  /\ \A j \in S : /\ h[f[j]].type = heap[j].type /\ "ref" \notin h[f[j]].flags
                  /\ h[f[j]].child = LinkedTo(Q, S, f, heap[j].child)
                  /\ h[f[j]].next = IF j \in Q THEN NoItem ELSE LinkedTo(Q, S, f, heap[j].next)
                  /\ h[f[j]].prev = IF j \in Q THEN NoItem ELSE LinkedTo(Q, S, f, BeforeIt(i, S, j))

\* The copies that f makes of S, in h.
AreCopies(h, i, S, f) ==
  /\ h \in [Items -> Item]
  /\ \A m \in Items : (\A j \in S : m # f[j]) => h[m] = heap[m]
  /\ \A j \in S : /\ h[f[j]].type = heap[j].type /\ "ref" \notin h[f[j]].flags
                  /\ h[f[j]].child = CopyTo(i, S, f, heap[j].child)
                  /\ h[f[j]].next = IF j = i THEN NoItem ELSE CopyTo(i, S, f, heap[j].next)
                  /\ h[f[j]].prev = IF j = i THEN NoItem ELSE CopyTo(i, S, f, BeforeIt(i, S, j))

LEMMA BegunIs ==
  ASSUME TreeInv, NEW i \in Live(heap), NEW S \in SUBSET Items, NEW f \in Injection(S, Unused), NEW Q
  PROVE  AreBegun(CopyOf(i, Q, S, f), i, Q, S, f)
<1> DEFINE Copy(j) == [heap[j] EXCEPT !.flags = @ \ {"ref"}, !.child = LinkedTo(Q, S, f, @),
                         !.next = IF j \in Q THEN NoItem ELSE LinkedTo(Q, S, f, @),
                         !.prev = IF j \in Q THEN NoItem ELSE LinkedTo(Q, S, f, BeforeIt(i, S, j))]
           Of(m) == CHOOSE j \in S : f[j] = m
           h == CopyOf(i, Q, S, f)
<1>1. /\ heap \in [Items -> Item] /\ DOMAIN heap = Items /\ NoItem \notin Items
      /\ \A u \in Unused : u \in Items
  BY InvIs
<1>2. f \in [S -> Unused] /\ \A j \in S, k \in S : f[j] = f[k] => j = k  BY DEF Injection, IsInjective
<1>3. h = [m \in Items |-> IF m \in Range(f) THEN Copy(Of(m)) ELSE heap[m]]
  BY <1>1, Zenon DEF CopyOf, LinkedTo, BeforeIt, LastFrom
<1>4. \A m : m \in Range(f) <=> \E j \in S : m = f[j]  BY <1>2 DEF Range
<1>5. \A j \in S : Of(f[j]) = j
  <2> SUFFICES ASSUME NEW j \in S PROVE Of(f[j]) = j  OBVIOUS
  <2>1. Of(f[j]) \in S /\ f[Of(f[j])] = f[j]  OBVIOUS
  <2> HIDE DEF Of
  <2> QED  BY <1>2, <2>1
<1> HIDE DEF Of
<1>6. \A p : LinkedTo(Q, S, f, p) \in Items \cup {NoItem}  BY <1>1, <1>2 DEF LinkedTo
<1>7. ASSUME NEW j \in S
      PROVE  /\ Copy(j) \in Item /\ Copy(j).type = heap[j].type /\ "ref" \notin Copy(j).flags
             /\ Copy(j).child = LinkedTo(Q, S, f, heap[j].child)
             /\ Copy(j).next = IF j \in Q THEN NoItem ELSE LinkedTo(Q, S, f, heap[j].next)
             /\ Copy(j).prev = IF j \in Q THEN NoItem ELSE LinkedTo(Q, S, f, BeforeIt(i, S, j))
  <2>1. PICK c, n, p : /\ c = LinkedTo(Q, S, f, heap[j].child)
                       /\ n = IF j \in Q THEN NoItem ELSE LinkedTo(Q, S, f, heap[j].next)
                       /\ p = IF j \in Q THEN NoItem ELSE LinkedTo(Q, S, f, BeforeIt(i, S, j))
    OBVIOUS
  <2>2. c \in Items \cup {NoItem} /\ n \in Items \cup {NoItem} /\ p \in Items \cup {NoItem}  BY <1>6, <2>1
  <2>3. heap[j] \in Item  BY <1>1
  <2>4. PICK x : x = heap[j]  OBVIOUS
  <2>5. Copy(j) = [x EXCEPT !.flags = @ \ {"ref"}, !.child = c, !.next = n, !.prev = p]
    BY <2>1, <2>3, <2>4 DEF Item
  <2>6. PICK y : y = [x EXCEPT !.flags = @ \ {"ref"}, !.child = c, !.next = n, !.prev = p]  OBVIOUS
  <2>7. /\ y \in Item /\ y.type = x.type /\ "ref" \notin y.flags
        /\ y.child = c /\ y.next = n /\ y.prev = p
    BY <2>2, <2>3, <2>4, <2>6 DEF Item
  <2>8. Copy(j) = y  BY <2>5, <2>6, Zenon
  <2> HIDE DEF Copy
  <2> QED  BY <2>1, <2>4, <2>7, <2>8
<1> HIDE DEF Copy
<1>8. ASSUME NEW j \in S  PROVE f[j] \in Items /\ h[f[j]] = Copy(j)
  BY <1>1, <1>2, <1>3, <1>4, <1>5
<1>9. ASSUME NEW m \in Items, \A j \in S : m # f[j]  PROVE h[m] = heap[m]  BY <1>3, <1>4, <1>9
<1>10. h \in [Items -> Item]
  <2>1. \A m \in Items : h[m] \in Item
    <3> SUFFICES ASSUME NEW m \in Items PROVE h[m] \in Item  OBVIOUS
    <3>1. CASE \E j \in S : m = f[j]  BY <1>7, <1>8, <3>1
    <3>2. CASE \A j \in S : m # f[j]  BY <1>1, <1>9, <3>2
    <3> QED  BY <3>1, <3>2
  <2> HIDE DEF h
  <2>2. \E B : h = [m \in Items |-> B[m]]
    <3>1. h = [m \in Items |-> h[m]]  BY <1>3
    <3> QED  BY <3>1
  <2> QED  BY <2>1, <2>2
<1> HIDE DEF h
<1>11. AreBegun(h, i, Q, S, f)  BY <1>7, <1>8, <1>9, <1>10 DEF AreBegun
<1> QED  BY <1>11 DEF h

LEMMA CopyIs ==
  ASSUME TreeInv, NEW i \in Live(heap), NEW S \in SUBSET Items, NEW f \in Injection(S, Unused)
  PROVE  AreCopies(CopyOf(i, {i}, S, f), i, S, f)
<1>1. PICK Q : Q = {i}  OBVIOUS
<1>2. PICK h : h = CopyOf(i, Q, S, f)  OBVIOUS
<1>3. AreBegun(h, i, Q, S, f)  BY <1>2, BegunIs
<1>4. \A p : LinkedTo(Q, S, f, p) = CopyTo(i, S, f, p)  BY <1>1 DEF LinkedTo, CopyTo
<1>5. \A j : j \in Q <=> j = i  BY <1>1
<1>6. AreCopies(h, i, S, f)  BY <1>3, <1>4, <1>5 DEF AreBegun, AreCopies
<1> QED  BY <1>1, <1>2, <1>6

\* A copy of one item, without what is under it.
LEMMA DuplicateOneKeeps ==
  ASSUME TreeInv, NEW i \in Live(heap), NEW copy \in Unused, Duplicate(i, [j \in {i} |-> copy])
  PROVE  TreeInv' /\ Undisturbed
<1>1. PICK f : f = [j \in {i} |-> copy]  OBVIOUS
<1>2. PICK S : S = {i}  OBVIOUS
<1>3. heap \in [Items -> Item] /\ i \in Items /\ copy \in Items /\ heap[copy].type = "free" /\ heap[i].type # "free"
      /\ NoItem \notin Items
  BY InvIs
<1>4. f \in Injection(S, Unused) /\ DOMAIN f = S /\ f[i] = copy /\ Range(f) = {copy} /\ S \in SUBSET Items
  BY <1>1, <1>2, <1>3 DEF Injection, IsInjective, Range
<1>5. PICK h : h = CopyOf(i, {i}, S, f)  OBVIOUS
<1>6. AreCopies(h, i, S, f)  BY <1>4, <1>5, CopyIs
<1>7. /\ heap' = h /\ strs' = strs + Cardinality(OwnedStrings(h, {copy}))
      /\ held' = held \cup {copy} /\ lost' = lost
  BY <1>1, <1>4, <1>5, Zenon DEF Duplicate
<1>8. IsFresh(h, heap, copy)
  <2>1. \A p : CopyTo(i, S, f, p) = NoItem  BY <1>2 DEF CopyTo
  <2>2. h \in [Items -> Item] /\ \A m \in Items \ {copy} : h[m] = heap[m]  BY <1>2, <1>4, <1>6 DEF AreCopies
  <2>3. h[copy].type = heap[i].type /\ h[copy].child = NoItem /\ h[copy].next = NoItem /\ h[copy].prev = NoItem
    BY <1>2, <1>4, <1>6, <2>1 DEF AreCopies
  <2> QED  BY <1>3, <2>2, <2>3 DEF IsFresh
<1>9. /\ \E own : Linked(h, With(Roots, copy), own)
      /\ copy \notin Live(heap)
      /\ Cardinality(OwnedStrings(h, Live(h))) = strs + Cardinality(OwnedStrings(h, {copy}))
  BY <1>8, GrownTo
<1>10. copy \notin Roots  BY <1>9, InvLinked
<1>11. With(Roots, copy) = (held \cup {copy}) \cup lost /\ (held \cup {copy}) \cap lost = {}  BY <1>10, RootsAre
<1>12. strs' = Counted(h)  BY <1>7, <1>9 DEF Counted
<1>13. Undisturbed
  <2>1. \A j \in Live(heap) : j \in Items \ {copy}  BY <1>3, <1>9, InvIs
  <2> QED  BY <1>7, <1>8, <2>1 DEF IsFresh, Undisturbed
<1> QED  BY <1>7, <1>9, <1>11, <1>12, <1>13, InvAgain

\* What is made of a copy that is given up is under the copies that are begun: the links
\* that there are lead from one of them to each of the others.
LEMMA MadeIsOwned ==
  ASSUME TreeInv, NEW i \in Live(heap), NEW S, S \subseteq Copied(heap, i), NEW f \in Injection(S, Unused),
         MadeFirst(i, S), NEW Q \in SUBSET S, i \in Q, \A j \in Q \ {i} : heap[j].next \notin S,
         NEW h, AreBegun(h, i, Q, S, f)
  PROVE  UNION {Owned(h, f[j]) : j \in Q} = Range(f)
<1>1. heap \in [Items -> Item] /\ i \in Items /\ NoItem \notin Items /\ \A u \in Unused : u \in Items  BY InvIs
<1>2. i \in S /\ f \in [S -> Unused] /\ S \subseteq Items
  BY <1>1, CopiedIs DEF MadeFirst, Injection
<1>3. h \in [Items -> Item] /\ \A j \in S : f[j] \in Items  BY <1>1, <1>2 DEF AreBegun
<1>4. \A j \in S : /\ "ref" \notin h[f[j]].flags
                   /\ h[f[j]].child = LinkedTo(Q, S, f, heap[j].child)
                   /\ h[f[j]].next = IF j \in Q THEN NoItem ELSE LinkedTo(Q, S, f, heap[j].next)
  BY DEF AreBegun
<1> DEFINE F == {f[j] : j \in S}
           U == UNION {Owned(h, f[j]) : j \in Q}
           D == {j \in S : f[j] \in U}
<1>5. U \subseteq F
  <2> SUFFICES ASSUME NEW q \in Q PROVE Owned(h, f[q]) \subseteq F  OBVIOUS
  <2>1. F \in SUBSET Items /\ f[q] \in F /\ f[q] \in Items  BY <1>1, <1>2
  <2>2. \A j \in S, k \in Items : Edge(h, f[j], k) => k \in F  BY <1>4 DEF Edge, LinkedTo
  <2>3. \A m \in F, k \in Items : Edge(h, m, k) => k \in F  BY <2>2
  <2> HIDE DEF F
  <2> QED  BY <1>3, <2>1, <2>3, OwnedLeast
<1>6. ASSUME NEW j \in Q  PROVE j \in D
  <2>1. j \in S /\ f[j] \in Owned(h, f[j])  BY <1>3, OwnedIs
  <2> QED  BY <2>1
<1>7. ASSUME NEW j \in D, NEW k \in S, k # i, heap[j].child = k \/ (j # i /\ heap[j].next = k)  PROVE k \in D
  <2>1. CASE k \in Q  BY <1>6, <2>1
  <2>2. CASE k \notin Q
    <3>1. j \in S /\ f[j] \in Items /\ f[k] \in Items  BY <1>1, <1>3
    <3>2. PICK q \in Q : f[j] \in Owned(h, f[q])  OBVIOUS
    <3>3. LinkedTo(Q, S, f, k) = f[k]  BY <2>2 DEF LinkedTo
    <3>4. heap[j].child = k \/ (j \notin Q /\ heap[j].next = k)  BY <1>7
    <3>5. Edge(h, f[j], f[k])  BY <1>1, <1>4, <3>1, <3>3, <3>4 DEF Edge
    <3>6. f[q] \in Items  BY <1>3
    <3>7. f[k] \in Owned(h, f[q])  BY <1>3, <3>1, <3>2, <3>5, <3>6, OwnedIs
    <3> QED  BY <3>7
  <2> QED  BY <2>1, <2>2
<1>8. S \subseteq D
  <2> DEFINE C == Copied(heap, i) \ (S \ D)
  <2>1. i \in D  BY <1>6
  <2>2. C \in SUBSET Items /\ i \in C  BY <1>1, <2>1, CopiedIs
  <2>3. ASSUME NEW j \in C, NEW k \in S, k # i, heap[j].child = k \/ (j # i /\ heap[j].next = k)  PROVE k \in D
    <3>1. j \in Copied(heap, i) /\ (j \in S => j \in D)  OBVIOUS
    <3>2. j \in S
      <4>1. CASE heap[j].child = k  BY <2>3, <3>1, <4>1 DEF MadeFirst
      <4>2. CASE j # i /\ heap[j].next = k
        <5>1. Copied(heap, j) \subseteq S  BY <2>3, <3>1, <4>2 DEF MadeFirst
        <5>2. j \in Items  BY <1>1, <3>1, CopiedIs
        <5> QED  BY <1>1, <5>1, <5>2, CopiedIs
      <4> QED  BY <2>3, <4>1, <4>2
    <3> HIDE DEF D
    <3> QED  BY <1>7, <2>3, <3>1, <3>2
  <2>4. \A j \in C : heap[j].child \in C \cup {NoItem} /\ (j # i => heap[j].next \in C \cup {NoItem})
    <3> SUFFICES ASSUME NEW j \in C, NEW k, k # NoItem, heap[j].child = k \/ (j # i /\ heap[j].next = k)
                 PROVE  k \in C
      OBVIOUS
    <3>1. k \in Copied(heap, i)  BY <1>1, CopiedIs
    <3>2. k \in S => k \in D  BY <2>1, <2>3
    <3> QED  BY <3>1, <3>2
  <2> HIDE DEF C, D
  <2>5. Copied(heap, i) \subseteq C  BY <1>1, <2>2, <2>4, CopiedIs
  <2> QED  BY <2>5 DEF C
<1>9. Range(f) = F  BY <1>2 DEF Range
<1> QED  BY <1>5, <1>8, <1>9

LEMMA DuplicateFailsKeeps ==
  ASSUME TreeInv, NEW i \in Live(heap), NEW S \in SUBSET Copied(heap, i), NEW f \in Injection(S, Unused),
         MadeFirst(i, S), NEW l \in S, DuplicateFails(i, f, l)
  PROVE  TreeInv' /\ Undisturbed
<1>1. heap \in [Items -> Item] /\ i \in Items /\ \A u \in Unused : u \in Items /\ heap[u] = New  BY InvIs
<1>2. S \in SUBSET Items /\ f \in [S -> Unused] /\ DOMAIN f = S  BY <1>1, CopiedIs DEF Injection
<1>3. PICK Q : Q = Begun(S, l)  OBVIOUS
<1>4. Q \in SUBSET S /\ i \in Q  BY <1>3 DEF Begun, MadeFirst
<1>5. \A j \in Q \ {i} : heap[j].next \notin S  BY <1>2, <1>3, Zenon DEF DuplicateFails
<1>6. PICK h : h = CopyOf(i, Q, S, f)  OBVIOUS
<1>7. AreBegun(h, i, Q, S, f)  BY <1>2, <1>6, BegunIs
<1>8. UNION {Owned(h, f[j]) : j \in Q} = Range(f)  BY <1>4, <1>5, <1>7, MadeIsOwned
<1>9. Range(f) = {f[j] : j \in S}  BY <1>2 DEF Range
<1>10. PICK F : F = Range(f)  OBVIOUS
<1>11. /\ heap' = Free(h, F)
       /\ strs' = strs + Cardinality(OwnedStrings(h, F)) - Cardinality(OwnedStrings(h, F))
       /\ held' = held /\ lost' = lost
  <2>1. /\ heap' = Free(h, UNION {Owned(h, f[j]) : j \in Q})
        /\ strs' = strs + Cardinality(OwnedStrings(h, Range(f)))
                        - Cardinality(OwnedStrings(h, UNION {Owned(h, f[j]) : j \in Q}))
        /\ held' = held /\ lost' = lost
    BY <1>2, <1>3, <1>6, Zenon DEF DuplicateFails
  <2> QED  BY <1>8, <1>10, <2>1, Zenon
<1>12. h \in [Items -> Item] /\ F \in SUBSET Items /\ \A m \in Items : m \notin F => h[m] = heap[m]
  BY <1>1, <1>2, <1>7, <1>9, <1>10 DEF AreBegun
<1>13. Free(h, F) = heap
  <2>1. \A m \in F : heap[m] = New  BY <1>1, <1>2, <1>9, <1>10
  <2>2. DOMAIN h = Items  BY <1>12
  <2> QED  BY <1>1, <1>12, <2>1, <2>2 DEF Free
<1>14. Cardinality(OwnedStrings(h, F)) \in Nat  BY <1>12, StringsFinite
<1>15. strs \in Nat /\ strs = Counted(heap)  BY InvLinked
<1>16. strs' = Counted(heap)  BY <1>11, <1>14, <1>15
<1>17. \E par : Linked(heap, Roots, par)  BY InvLinked
<1>18. heap' = heap  BY <1>11, <1>13
<1> QED  BY <1>11, <1>16, <1>17, <1>18, RootsAre, InvAgain DEF Undisturbed

\* What a copy of the tree under i comes to: S has it all, and each item but i is come to once.
OneWay(i, S) ==
  /\ S \subseteq Live(heap) /\ i \in S
  /\ \A j \in S : heap[j].child \in (S \ {i}) \cup {NoItem} /\ (j # i => heap[j].next \in (S \ {i}) \cup {NoItem})
  /\ \A j \in S \ {i} : (\E k \in S : heap[k].child = j) \/ (\E k \in S \ {i} : heap[k].next = j)
  /\ \A j \in S \ {i}, k \in S, l \in S : heap[k].child = j /\ heap[l].child = j => k = l
  /\ \A j \in S \ {i}, k \in S, l \in S \ {i} : ~(heap[k].child = j /\ heap[l].next = j)
  /\ \A j \in S \ {i}, k \in S \ {i}, l \in S \ {i} : heap[k].next = j /\ heap[l].next = j => k = l
  /\ \A C \in SUBSET Items :
       i \in C /\ (\A j \in C : heap[j].child \in C \cup {NoItem} /\ (j # i => heap[j].next \in C \cup {NoItem}))
         => S \subseteq C

\* In the tree that is copied, an item is led to in one way.
LEMMA TreeIsOneWay ==
  ASSUME TreeInv, NEW i \in Live(heap), IsTree(i)
  PROVE  OneWay(i, Copied(heap, i))
<1>1. PICK S : S = Copied(heap, i)  OBVIOUS
<1>2. heap \in [Items -> Item] /\ i \in Items /\ NoItem \notin Items /\ Live(heap) \subseteq Items  BY InvIs
<1>3. PICK par : Linked(heap, Roots, par)  BY InvLinked
<1>4. /\ i \in S /\ S \subseteq Items
      /\ \A j \in S : heap[j].child \in S \cup {NoItem} /\ (j # i => heap[j].next \in S \cup {NoItem})
      /\ \A C \in SUBSET Items :
           i \in C /\ (\A j \in C : heap[j].child \in C \cup {NoItem} /\ (j # i => heap[j].next \in C \cup {NoItem}))
             => S \subseteq C
  BY <1>1, <1>2, CopiedIs
<1>5. S \subseteq Live(heap)
  <2>1. \A j \in Live(heap) : heap[j].child \in Live(heap) \cup {NoItem} /\ heap[j].next \in Live(heap) \cup {NoItem}
    BY <1>3 DEF Linked, Solid
  <2>2. Live(heap) \in SUBSET Items  BY <1>2
  <2> QED  BY <1>4, <2>1, <2>2
<1> DEFINE A(j) == {k \in S : heap[k].child = j}  B(j) == {k \in S \ {i} : heap[k].next = j}
           From(j) == A(j) \X {"child"} \cup B(j) \X {"next"}
<1>6. \A j \in S : Cardinality(From(j)) = IF j = i THEN 0 ELSE 1  BY <1>1, Zenon DEF IsTree
<1>7. ASSUME NEW j \in S  PROVE IsFiniteSet(From(j))
  <2>1. IsFiniteSet(Items)  BY CJsonTreeAssumption
  <2>2. A(j) \subseteq Items /\ B(j) \subseteq Items  BY <1>4
  <2> HIDE DEF A, B
  <2>3. IsFiniteSet(A(j)) /\ IsFiniteSet(B(j))  BY <2>1, <2>2, FS_Subset
  <2>4. IsFiniteSet({"child"}) /\ IsFiniteSet({"next"})  BY FS_Singleton
  <2>5. IsFiniteSet(A(j) \X {"child"}) /\ IsFiniteSet(B(j) \X {"next"})  BY <2>3, <2>4, FS_Product
  <2> QED  BY <2>5, FS_Union
<1>8. From(i) = {}
  <2> HIDE DEF From
  <2>1. Cardinality(From(i)) = 0  BY <1>4, <1>6
  <2> QED  BY <1>4, <1>7, <2>1, FS_EmptySet
<1>9. ASSUME NEW j \in S, j # i  PROVE \E x : From(j) = {x}
  <2> HIDE DEF From
  <2>1. Cardinality(From(j)) = 1  BY <1>6, <1>9
  <2> QED  BY <1>7, <2>1, FS_Singleton
<1>10. A(i) = {} /\ B(i) = {}
  <2>1. \A k \in A(i) : <<k, "child">> \in From(i)  OBVIOUS
  <2>2. \A k \in B(i) : <<k, "next">> \in From(i)  OBVIOUS
  <2> HIDE DEF A, B, From
  <2> QED  BY <1>8, <2>1, <2>2
<1>11. \A j \in S : heap[j].child # i /\ (j # i => heap[j].next # i)  BY <1>10
<1>12. ASSUME NEW j \in S \ {i}
       PROVE  /\ (\E k \in S : heap[k].child = j) \/ (\E k \in S \ {i} : heap[k].next = j)
              /\ \A k \in S, l \in S : heap[k].child = j /\ heap[l].child = j => k = l
              /\ \A k \in S, l \in S \ {i} : ~(heap[k].child = j /\ heap[l].next = j)
              /\ \A k \in S \ {i}, l \in S \ {i} : heap[k].next = j /\ heap[l].next = j => k = l
  <2>1. PICK x : From(j) = {x}  BY <1>9
  <2>2. \A k \in S : heap[k].child = j => <<k, "child">> \in From(j)  OBVIOUS
  <2>3. \A k \in S \ {i} : heap[k].next = j => <<k, "next">> \in From(j)  OBVIOUS
  <2>4. \A y \in From(j) : (\E k \in S : heap[k].child = j) \/ (\E k \in S \ {i} : heap[k].next = j)  OBVIOUS
  <2> HIDE DEF From, A, B
  <2>5. \A k \in S : heap[k].child = j => x = <<k, "child">>  BY <2>1, <2>2
  <2>6. \A k \in S \ {i} : heap[k].next = j => x = <<k, "next">>  BY <2>1, <2>3
  <2>7. \A k, l : <<k, "child">> # <<l, "next">>  OBVIOUS
  <2>8. \A k, l, s : <<k, s>> = <<l, s>> => k = l  OBVIOUS
  <2> QED  BY <2>1, <2>4, <2>5, <2>6, <2>7, <2>8
<1>13. \A j \in S : heap[j].child \in (S \ {i}) \cup {NoItem} /\ (j # i => heap[j].next \in (S \ {i}) \cup {NoItem})
  BY <1>4, <1>11
<1>14. OneWay(i, S)  BY <1>4, <1>5, <1>12, <1>13 DEF OneWay
<1> QED  BY <1>1, <1>14

\* The items of a list from j on.
Chain(j) == Reach(j, Follows(heap))

\* Chain(j) is j and what comes after it in its list.
LEMMA ChainIs ==
  ASSUME TreeInv, NEW j \in Items
  PROVE  /\ j \in Chain(j) /\ Chain(j) \subseteq Items
         /\ \A k \in Chain(j) : heap[k].next \in Chain(j) \cup {NoItem}
         /\ \A C \in SUBSET Items : j \in C /\ (\A k \in C : heap[k].next \in C \cup {NoItem}) => Chain(j) \subseteq C
<1> DEFINE to == Follows(heap)
<1>1. heap \in [Items -> Item]  BY InvIs
<1>2. DOMAIN to = Items /\ \A k \in Items : to[k] = {heap[k].next}  BY <1>1 DEF Follows
<1>3. \A k \in Items : heap[k].next \in Items \cup {NoItem}  BY <1>1 DEF Item
<1>4. \A k \in DOMAIN to : to[k] \subseteq DOMAIN to \cup {NoItem}  BY <1>2, <1>3
<1>5. Chain(j) = Reach(j, to)  BY DEF Chain
<1> HIDE DEF to
<1>6. /\ j \in Reach(j, to) /\ Reach(j, to) \subseteq DOMAIN to
      /\ \A k \in Reach(j, to) : to[k] \subseteq Reach(j, to) \cup {NoItem}
      /\ \A C \in SUBSET DOMAIN to :
           j \in C /\ (\A k \in C : to[k] \subseteq C \cup {NoItem}) => Reach(j, to) \subseteq C
  BY <1>2, <1>4, ReachIs
<1>7. ASSUME NEW C \in SUBSET Items, j \in C, \A k \in C : heap[k].next \in C \cup {NoItem}
      PROVE  Reach(j, to) \subseteq C
  <2>1. \A k \in C : to[k] \subseteq C \cup {NoItem}  BY <1>2, <1>7
  <2> QED  BY <1>2, <1>6, <1>7, <2>1
<1>8. \A k \in Reach(j, to) : heap[k].next \in Reach(j, to) \cup {NoItem}  BY <1>2, <1>6
<1> QED  BY <1>2, <1>5, <1>6, <1>7, <1>8

\* A list has a last item.
LEMMA ChainEnds ==
  ASSUME TreeInv, NEW j \in Live(heap)
  PROVE  LastFrom(j) \in Chain(j) /\ heap[LastFrom(j)].next = NoItem
<1>1. PICK par : Linked(heap, Roots, par)  BY InvLinked
<1>2. heap \in [Items -> Item] /\ j \in Items /\ NoItem \notin Items /\ Live(heap) \subseteq Items  BY InvIs
<1>3. PICK T : T = Chain(j)  OBVIOUS
<1>4. j \in T /\ T \subseteq Items /\ \A k \in T : heap[k].next \in T \cup {NoItem}  BY <1>2, <1>3, ChainIs
<1>5. T \subseteq Live(heap)
  <2>1. \A k \in Live(heap) : heap[k].next \in Live(heap) \cup {NoItem}  BY <1>1 DEF Linked, Solid
  <2> QED  BY <1>2, <1>3, <2>1, ChainIs
<1>6. \E k \in T : heap[k].next = NoItem
  <2> SUFFICES ASSUME \A k \in T : heap[k].next # NoItem  PROVE FALSE  OBVIOUS
  <2>1. PICK k \in T : \A l \in T : ~Edge(heap, l, k)  BY <1>1, <1>4, <1>5 DEF Linked, Grounded
  <2> DEFINE D == T \ {k}  g == [l \in T |-> heap[l].next]
  <2>2. g \in [T -> D]  BY <1>4, <2>1 DEF Edge
  <2>3. IsFiniteSet(T)  BY <1>4, CJsonTreeAssumption, FS_Subset
  <2>4. IsFiniteSet(D) /\ Cardinality(D) = Cardinality(T) - 1  BY <2>1, <2>3, FS_RemoveElement
  <2>5. Cardinality(T) \in Nat  BY <2>3, FS_CardinalityType
  <2>6. Cardinality(D) < Cardinality(T)  BY <2>4, <2>5
  <2>7. \A l \in T : g[l] = heap[l].next  OBVIOUS
  <2> HIDE DEF D, g
  <2>8. PICK x \in T, y \in T : x # y /\ g[x] = g[y]  BY <2>2, <2>3, <2>4, <2>6, FS_PigeonHole
  <2>9. heap[heap[x].next].prev = x /\ heap[heap[y].next].prev = y  BY <1>1, <1>5, <2>8 DEF Linked, Neighbours
  <2> QED  BY <2>7, <2>8, <2>9
<1> QED  BY <1>3, <1>6 DEF LastFrom, Chain

\* Whose list an item is in, among those of S.
Up(S, j) == {k \in S : heap[k].child # NoItem /\ j \in Chain(heap[k].child)}

\* Up(S, j) has the item whose list j is in, and no other.
LEMMA UpIs ==
  ASSUME TreeInv, NEW i, NEW S, OneWay(i, S)
  PROVE  /\ \A j \in S \ {i} : heap[j].next # NoItem => Up(S, heap[j].next) = Up(S, j)
         /\ \A k \in S : heap[k].child # NoItem => Up(S, heap[k].child) = {k}
         /\ \A k \in S : heap[k].child # NoItem =>
              Chain(heap[k].child) \subseteq S \ {i} /\ \A m \in Chain(heap[k].child) : Up(S, m) = {k}
<1>1. heap \in [Items -> Item] /\ NoItem \notin Items /\ Live(heap) \subseteq Items  BY InvIs
<1>2. S \subseteq Items /\ S \subseteq Live(heap)  BY <1>1 DEF OneWay
<1>3. \A j \in S : heap[j].child \in (S \ {i}) \cup {NoItem} /\ (j # i => heap[j].next \in (S \ {i}) \cup {NoItem})
  BY DEF OneWay
<1>4. ASSUME NEW k \in S, heap[k].child # NoItem  PROVE Chain(heap[k].child) \subseteq S \ {i}
  <2>1. heap[k].child \in S \ {i} /\ heap[k].child \in Items  BY <1>2, <1>3, <1>4
  <2>2. S \ {i} \in SUBSET Items /\ \A j \in S \ {i} : heap[j].next \in (S \ {i}) \cup {NoItem}  BY <1>2, <1>3
  <2> QED  BY <2>1, <2>2, ChainIs
\* What is in a chain but not its first is next to one that is.
<1>5. ASSUME NEW c \in Items, NEW m \in Chain(c), m # c  PROVE \E p \in Chain(c) : heap[p].next = m
  <2> SUFFICES ASSUME \A p \in Chain(c) : heap[p].next # m  PROVE FALSE  OBVIOUS
  <2> DEFINE C == Chain(c) \ {m}
  <2>1. C \in SUBSET Items /\ c \in C  BY <1>5, ChainIs
  <2>2. \A p \in C : heap[p].next \in C \cup {NoItem}  BY ChainIs
  <2> HIDE DEF C
  <2>3. Chain(c) \subseteq C  BY <2>1, <2>2, ChainIs
  <2> QED  BY <2>3 DEF C
<1>6. ASSUME NEW k \in S, heap[k].child # NoItem  PROVE Up(S, heap[k].child) = {k}
  <2>1. PICK c : c = heap[k].child  OBVIOUS
  <2>2. c \in S \ {i} /\ c \in Items /\ c # NoItem  BY <1>2, <1>3, <1>6, <2>1
  <2>3. k \in Up(S, c)  BY <2>1, <2>2, ChainIs DEF Up
  <2>4. ASSUME NEW l \in Up(S, c)  PROVE l = k
    <3>1. l \in S /\ heap[l].child # NoItem /\ c \in Chain(heap[l].child)  BY <2>4 DEF Up
    <3>2. CASE c = heap[l].child
      <4>1. \A m \in S \ {i}, x \in S, y \in S : heap[x].child = m /\ heap[y].child = m => x = y
        BY DEF OneWay
      <4> QED  BY <2>1, <2>2, <3>1, <3>2, <4>1
    <3>3. CASE c # heap[l].child
      <4>1. heap[l].child \in Items  BY <1>2, <1>3, <3>1
      <4>2. PICK p \in Chain(heap[l].child) : heap[p].next = c  BY <1>5, <3>1, <3>3, <4>1
      <4>3. p \in S \ {i}  BY <1>4, <3>1
      <4> QED  BY <2>1, <2>2, <4>2, <4>3 DEF OneWay
    <3> QED  BY <3>2, <3>3
  <2> QED  BY <2>1, <2>3, <2>4
<1>7. ASSUME NEW j \in S \ {i}, heap[j].next # NoItem  PROVE Up(S, heap[j].next) = Up(S, j)
  <2>1. PICK n : n = heap[j].next  OBVIOUS
  <2>2. n \in S \ {i} /\ n \in Items /\ n # NoItem  BY <1>2, <1>3, <1>7, <2>1
  <2>3. ASSUME NEW k \in S, heap[k].child # NoItem
        PROVE  j \in Chain(heap[k].child) <=> n \in Chain(heap[k].child)
    <3>1. PICK c : c = heap[k].child  OBVIOUS
    <3>2. c \in S \ {i} /\ c \in Items  BY <1>2, <1>3, <2>3, <3>1
    <3>3. j \in Chain(c) => n \in Chain(c)  BY <2>1, <2>2, <3>2, ChainIs
    <3>4. ASSUME n \in Chain(c)  PROVE j \in Chain(c)
      <4>1. n # c  BY <1>7, <2>1, <2>2, <3>1 DEF OneWay
      <4>2. PICK p \in Chain(c) : heap[p].next = n  BY <1>5, <3>2, <3>4, <4>1
      <4>3. p \in S \ {i}  BY <1>4, <2>3, <3>1
      <4>4. p = j  BY <1>7, <2>1, <2>2, <4>2, <4>3 DEF OneWay
      <4> QED  BY <4>4
    <3> QED  BY <3>1, <3>3, <3>4
  <2>4. Up(S, n) = Up(S, j)  BY <2>3 DEF Up
  <2> QED  BY <2>1, <2>4
<1>8. ASSUME NEW k \in S, heap[k].child # NoItem, NEW m \in Chain(heap[k].child)  PROVE Up(S, m) = {k}
  <2>1. PICK c : c = heap[k].child  OBVIOUS
  <2>2. c \in Items /\ Up(S, c) = {k} /\ Chain(c) \subseteq S \ {i}  BY <1>2, <1>3, <1>4, <1>6, <1>8, <2>1
  <2> DEFINE C == {l \in Chain(c) : Up(S, l) = {k}}
  <2>3. C \in SUBSET Items /\ c \in C  BY <1>2, <2>2, ChainIs
  <2>4. \A l \in C : heap[l].next \in C \cup {NoItem}
    <3> SUFFICES ASSUME NEW l \in C, heap[l].next # NoItem  PROVE heap[l].next \in C  OBVIOUS
    <3>1. Up(S, heap[l].next) = Up(S, l)  BY <1>7, <2>2
    <3>2. heap[l].next \in Chain(c)  BY <2>2, ChainIs
    <3> QED  BY <3>1, <3>2
  <2> HIDE DEF C
  <2>5. Chain(c) \subseteq C  BY <2>2, <2>3, <2>4, ChainIs
  <2> QED  BY <1>8, <2>1, <2>5 DEF C
<1> QED  BY <1>4, <1>6, <1>7, <1>8

\* The copy of an item is in the list of the copy of the item whose list that item is in.
OwnsCopies(own, par, i, S, f) ==
  /\ own \in [Items -> Items \cup {NoItem}]
  /\ \A m \in Items : (\A j \in S : m # f[j]) => own[m] = par[m]
  /\ own[f[i]] = NoItem
  /\ \A j \in S \ {i}, k \in S : Up(S, j) = {k} => own[f[j]] = f[k]
  /\ \A j \in S \ {i}, k \in S \ {i} : Up(S, j) = Up(S, k) => own[f[j]] = own[f[k]]

\* The copies are in the lists of the copies, as what is copied is in its lists.
LEMMA CopiesAreOwned ==
  ASSUME NEW par \in [Items -> Items \cup {NoItem}], NEW i, NEW S, i \in S, NEW f \in [S -> Items],
         \A j \in S, k \in S : f[j] = f[k] => j = k
  PROVE  \E own : OwnsCopies(own, par, i, S, f)
<1> DEFINE P(U) == IF \E k \in S : U = {k} THEN f[CHOOSE k \in S : U = {k}] ELSE NoItem
           Of(m) == CHOOSE j \in S : m = f[j]
           own == [m \in Items |-> IF \E j \in S : m = f[j]
                                   THEN IF Of(m) = i THEN NoItem ELSE P(Up(S, Of(m)))
                                   ELSE par[m]]
<1>1. \A j \in S : Of(f[j]) = j
  <2> SUFFICES ASSUME NEW j \in S PROVE Of(f[j]) = j  OBVIOUS
  <2>1. Of(f[j]) \in S /\ f[Of(f[j])] = f[j]  OBVIOUS
  <2> HIDE DEF Of
  <2> QED  BY <2>1
<1> HIDE DEF Of
<1>2. \A U : P(U) \in Items \cup {NoItem}
  <2> SUFFICES ASSUME NEW U, NEW l \in S, U = {l} PROVE P(U) \in Items  OBVIOUS
  <2>1. (CHOOSE k \in S : U = {k}) \in S  OBVIOUS
  <2> QED  BY <2>1
<1>3. \A U : \A k \in S : U = {k} => P(U) = f[k]
  <2> SUFFICES ASSUME NEW U, NEW l \in S, U = {l} PROVE P(U) = f[l]  OBVIOUS
  <2>1. PICK c : c = CHOOSE k \in S : U = {k}  OBVIOUS
  <2>2. c \in S /\ U = {c}  BY <2>1
  <2>3. c = l  BY <2>2
  <2> QED  BY <2>1, <2>3
<1> HIDE DEF P
<1>4. own \in [Items -> Items \cup {NoItem}]  BY <1>2
<1>5. \A m \in Items : (\A j \in S : m # f[j]) => own[m] = par[m]  OBVIOUS
<1>6. \A j \in S : own[f[j]] = IF j = i THEN NoItem ELSE P(Up(S, j))  BY <1>1
<1> HIDE DEF own
<1>7. \A j \in S \ {i}, k \in S : Up(S, j) = {k} => own[f[j]] = f[k]
  <2> SUFFICES ASSUME NEW j \in S \ {i}, NEW k \in S, Up(S, j) = {k}  PROVE own[f[j]] = f[k]  OBVIOUS
  <2>1. own[f[j]] = P(Up(S, j))  BY <1>6
  <2>2. PICK U : U = Up(S, j)  OBVIOUS
  <2>3. P(U) = f[k]  BY <1>3, <2>2
  <2> QED  BY <2>1, <2>2, <2>3
<1>8. \A j \in S \ {i}, k \in S \ {i} : Up(S, j) = Up(S, k) => own[f[j]] = own[f[k]]
  <2> SUFFICES ASSUME NEW j \in S \ {i}, NEW k \in S \ {i}, Up(S, j) = Up(S, k)  PROVE own[f[j]] = own[f[k]]
    OBVIOUS
  <2>1. own[f[j]] = P(Up(S, j)) /\ own[f[k]] = P(Up(S, k))  BY <1>6
  <2> QED  BY <2>1
<1> QED  BY <1>4, <1>5, <1>6, <1>7, <1>8 DEF OwnsCopies

\* The copy of a tree is one more tree.
LEMMA CopiesAreLinked ==
  ASSUME TreeInv, NEW i \in Live(heap), NEW S, OneWay(i, S), NEW f \in Injection(S, Unused),
         NEW h, AreCopies(h, i, S, f)
  PROVE  /\ \E own : Linked(h, With(Roots, f[i]), own)
         /\ \A m : m \in Live(h) <=> m \in Live(heap) \/ \E j \in S : m = f[j]
<1>1. /\ heap \in [Items -> Item] /\ NoItem \notin Items /\ Live(heap) \subseteq Items /\ i \in Items
      /\ Roots \subseteq Live(heap)
      /\ \A u \in Unused : u \in Items /\ u \notin Live(heap)
  BY InvIs
<1>2. PICK par : Linked(heap, Roots, par)  BY InvLinked
<1>3. S \subseteq Live(heap) /\ S \subseteq Items /\ i \in S  BY <1>1 DEF OneWay
<1>4. f \in [S -> Items] /\ (\A j \in S, k \in S : f[j] = f[k] => j = k) /\ \A j \in S : f[j] \notin Live(heap)
  <2>1. f \in [S -> Unused] /\ \A j \in S, k \in S : f[j] = f[k] => j = k  BY DEF Injection, IsInjective
  <2> QED  BY <1>1, <2>1
<1>5. PICK own : OwnsCopies(own, par, i, S, f)
  <2>1. par \in [Items -> Items \cup {NoItem}]  BY <1>2 DEF Linked
  <2> QED  BY <1>3, <1>4, <2>1, CopiesAreOwned
<1>6. h \in [Items -> Item]  BY DEF AreCopies
\* Old items
<1>7. \A m \in Live(heap) : h[m] = heap[m] /\ own[m] = par[m]
  BY <1>1, <1>4, <1>5 DEF AreCopies, OwnsCopies
<1>8. \A m \in Items : (\A j \in S : m # f[j]) => h[m] = heap[m]  BY DEF AreCopies
\* Copies
<1>9. \A j \in S : /\ heap[j].child \in (S \ {i}) \cup {NoItem}
                   /\ j # i => heap[j].next \in (S \ {i}) \cup {NoItem}
  BY DEF OneWay
<1>10. \A j \in S : /\ h[f[j]].type = heap[j].type /\ "ref" \notin h[f[j]].flags
                    /\ h[f[j]].child = IF heap[j].child = NoItem THEN NoItem ELSE f[heap[j].child]
                    /\ h[f[j]].next = IF j = i \/ heap[j].next = NoItem THEN NoItem ELSE f[heap[j].next]
  <2> SUFFICES ASSUME NEW j \in S
               PROVE  /\ h[f[j]].type = heap[j].type /\ "ref" \notin h[f[j]].flags
                      /\ h[f[j]].child = IF heap[j].child = NoItem THEN NoItem ELSE f[heap[j].child]
                      /\ h[f[j]].next = IF j = i \/ heap[j].next = NoItem THEN NoItem ELSE f[heap[j].next]
    OBVIOUS
  <2>1. /\ h[f[j]].type = heap[j].type /\ "ref" \notin h[f[j]].flags
        /\ h[f[j]].child = CopyTo(i, S, f, heap[j].child)
        /\ h[f[j]].next = IF j = i THEN NoItem ELSE CopyTo(i, S, f, heap[j].next)
    BY DEF AreCopies
  <2>2. NoItem \notin S  BY <1>1, <1>3
  <2>3. CopyTo(i, S, f, heap[j].child) = IF heap[j].child = NoItem THEN NoItem ELSE f[heap[j].child]
    BY <1>9, <2>2 DEF CopyTo
  <2>4. j # i => CopyTo(i, S, f, heap[j].next) = IF heap[j].next = NoItem THEN NoItem ELSE f[heap[j].next]
    BY <1>9, <2>2 DEF CopyTo
  <2> QED  BY <2>1, <2>3, <2>4
<1>11. \A j \in S : f[j] \in Items /\ heap[j].type # "free"  BY <1>1, <1>3, <1>4, LiveIs
<1>12. \A m : m \in Live(h) <=> m \in Live(heap) \/ \E j \in S : m = f[j]
  <2>1. \A j \in S : f[j] \in Live(h)  BY <1>6, <1>10, <1>11, LiveIs
  <2>2. \A m \in Live(heap) : m \in Live(h)  BY <1>1, <1>6, <1>7, LiveIs
  <2>3. \A m \in Live(h) : (\A j \in S : m # f[j]) => m \in Live(heap)  BY <1>1, <1>6, <1>8, LiveIs
  <2> QED  BY <2>1, <2>2, <2>3
<1>13. ASSUME NEW k \in S, heap[k].child # NoItem
       PROVE  /\ LastFrom(heap[k].child) \in S \ {i}
              /\ heap[LastFrom(heap[k].child)].next = NoItem
              /\ h[f[heap[k].child]].prev = f[LastFrom(heap[k].child)]
              /\ own[f[heap[k].child]] = f[k] /\ own[f[LastFrom(heap[k].child)]] = f[k]
  <2>1. PICK c : c = heap[k].child  OBVIOUS
  <2>2. c \in S \ {i} /\ c \in Live(heap)  BY <1>3, <1>9, <1>13, <2>1
  <2>3. PICK l : l = LastFrom(c)  OBVIOUS
  <2>4. l \in Chain(c) /\ heap[l].next = NoItem  BY <2>2, <2>3, ChainEnds
  <2>5. /\ Up(S, c) = {k} /\ Chain(c) \subseteq S \ {i} /\ \A m \in Chain(c) : Up(S, m) = {k}
    BY <1>13, <2>1, UpIs
  <2>6. l \in S \ {i} /\ Up(S, l) = {k}  BY <2>4, <2>5
  <2>7. own[f[c]] = f[k] /\ own[f[l]] = f[k]  BY <1>5, <2>2, <2>5, <2>6 DEF OwnsCopies
  <2>8. BeforeIt(i, S, c) = l  BY <2>1, <2>3 DEF BeforeIt
  <2>9. h[f[c]].prev = CopyTo(i, S, f, l)  BY <2>2, <2>8 DEF AreCopies
  <2>10. h[f[c]].prev = f[l]  BY <2>6, <2>9 DEF CopyTo
  <2> QED  BY <2>1, <2>3, <2>4, <2>6, <2>7, <2>10
<1>14. ASSUME NEW j \in S \ {i}, heap[j].next # NoItem
       PROVE  own[f[heap[j].next]] = own[f[j]] /\ h[f[heap[j].next]].prev = f[j]
  <2>1. PICK n : n = heap[j].next  OBVIOUS
  <2>2. n \in S \ {i}  BY <1>9, <1>14, <2>1
  <2>3. Up(S, n) = Up(S, j)  BY <1>14, <2>1, UpIs
  <2>4. own[f[n]] = own[f[j]]  BY <1>5, <2>2, <2>3 DEF OwnsCopies
  <2>5. \A k \in S : heap[k].child # n  BY <2>1, <2>2 DEF OneWay
  <2>6. PICK b : b = CHOOSE k \in S : k # i /\ heap[k].next = n  OBVIOUS
  <2>7. b \in S \ {i} /\ heap[b].next = n  BY <2>1, <2>6
  <2>8. b = j  BY <2>1, <2>2, <2>7 DEF OneWay
  <2>9. BeforeIt(i, S, n) = j  BY <2>5, <2>6, <2>8 DEF BeforeIt
  <2>10. h[f[n]].prev = CopyTo(i, S, f, j)  BY <2>2, <2>9 DEF AreCopies
  <2>11. h[f[n]].prev = f[j]  BY <2>10 DEF CopyTo
  <2> QED  BY <2>1, <2>4, <2>11
<1>15. h[f[i]].next = NoItem /\ h[f[i]].prev = NoItem /\ own[f[i]] = NoItem
  BY <1>3, <1>5 DEF AreCopies, OwnsCopies
\* Which item leads to which
<1>16. \A j \in S : \A k : Edge(h, f[j], k) =>
         \E m \in S \ {i} : k = f[m] /\ (heap[j].child = m \/ (j # i /\ heap[j].next = m))
  <2> SUFFICES ASSUME NEW j \in S, NEW k, Edge(h, f[j], k)
               PROVE  \E m \in S \ {i} : k = f[m] /\ (heap[j].child = m \/ (j # i /\ heap[j].next = m))
    OBVIOUS
  <2>1. k # NoItem /\ (h[f[j]].next = k \/ h[f[j]].child = k)  BY DEF Edge
  <2>2. CASE h[f[j]].next = k
    <3>1. j # i /\ heap[j].next # NoItem /\ k = f[heap[j].next]  BY <1>10, <2>1, <2>2
    <3> QED  BY <1>9, <3>1
  <2>3. CASE h[f[j]].child = k
    <3>1. heap[j].child # NoItem /\ k = f[heap[j].child]  BY <1>10, <2>1, <2>3
    <3> QED  BY <1>9, <3>1
  <2> QED  BY <2>1, <2>2, <2>3
<1>17. \A j \in S : \A m \in S \ {i} : heap[j].child = m \/ (j # i /\ heap[j].next = m) => Edge(h, f[j], f[m])
  <2> SUFFICES ASSUME NEW j \in S, NEW m \in S \ {i}, heap[j].child = m \/ (j # i /\ heap[j].next = m)
               PROVE  Edge(h, f[j], f[m])
    OBVIOUS
  <2>1. m # NoItem /\ f[m] # NoItem  BY <1>1, <1>3, <1>4
  <2> QED  BY <1>10, <2>1 DEF Edge
<1>18. \A j \in Live(heap) : \A k : Edge(h, j, k) <=> Edge(heap, j, k)  BY <1>7 DEF Edge
<1>19. \A j \in Live(heap) : \A k : Edge(heap, j, k) => k \in Live(heap)  BY <1>2, OneEdge
<1>20. PICK R : R = With(Roots, f[i])  OBVIOUS
<1>21. R \subseteq Live(h) /\ \A k : k \in R <=> k \in Roots \/ k = f[i]
  <2>1. \A k : k \in R <=> k \in Roots \/ k = f[i]  BY <1>20 DEF With
  <2> QED  BY <1>1, <1>3, <1>12, <2>1
<1>22. Solid(h)
  <2>1. ASSUME NEW m \in Items, h[m].type = "free"  PROVE h[m] = New
    <3>1. \A j \in S : m # f[j]  BY <1>10, <1>11, <2>1
    <3>2. h[m] = heap[m]  BY <1>8, <3>1
    <3> QED  BY <1>2, <2>1, <3>2 DEF Linked, Solid
  <2>2. ASSUME NEW m \in Live(heap)  PROVE {h[m].next, h[m].prev, h[m].child} \subseteq Live(h) \cup {NoItem}
    <3>1. {heap[m].next, heap[m].prev, heap[m].child} \subseteq Live(heap) \cup {NoItem}  BY <1>2 DEF Linked, Solid
    <3> QED  BY <1>7, <1>12, <3>1
  <2>3. ASSUME NEW j \in S  PROVE {h[f[j]].next, h[f[j]].prev, h[f[j]].child} \subseteq Live(h) \cup {NoItem}
    <3>1. h[f[j]].next \in Live(h) \cup {NoItem} /\ h[f[j]].child \in Live(h) \cup {NoItem}
      BY <1>9, <1>10, <1>12
    <3>2. h[f[j]].prev \in Live(h) \cup {NoItem}
      <4>1. \A p : CopyTo(i, S, f, p) \in Live(h) \cup {NoItem}  BY <1>12 DEF CopyTo
      <4> QED  BY <4>1 DEF AreCopies
    <3> QED  BY <3>1, <3>2
  <2> QED  BY <1>12, <2>1, <2>2, <2>3 DEF Solid
<1>23. ListEnds(h, own)
  <2> SUFFICES ASSUME NEW j \in Live(h), "ref" \notin h[j].flags, h[j].child # NoItem
               PROVE  /\ own[h[j].child] = j /\ h[h[j].child].prev \in Live(h)
                      /\ own[h[h[j].child].prev] = j /\ h[h[h[j].child].prev].next = NoItem
    BY DEF ListEnds
  <2>1. CASE j \in Live(heap)
    <3>1. h[j] = heap[j]  BY <1>7, <2>1
    <3>2. /\ par[heap[j].child] = j /\ heap[heap[j].child].prev \in Live(heap)
          /\ par[heap[heap[j].child].prev] = j /\ heap[heap[heap[j].child].prev].next = NoItem
      BY <1>2, <2>1, <3>1 DEF Linked, ListEnds
    <3>3. heap[j].child \in Live(heap)  BY <1>2, <2>1, <3>1 DEF Linked, Solid
    <3> QED  BY <1>7, <1>12, <3>1, <3>2, <3>3
  <2>2. ASSUME NEW k \in S, j = f[k]
        PROVE  /\ own[h[j].child] = j /\ h[h[j].child].prev \in Live(h)
               /\ own[h[h[j].child].prev] = j /\ h[h[h[j].child].prev].next = NoItem
    <3>1. PICK c : c = heap[k].child  OBVIOUS
    <3>2. c # NoItem /\ h[j].child = f[c]  BY <1>10, <2>2, <3>1
    <3>3. PICK l : l = LastFrom(c)  OBVIOUS
    <3>4. /\ l \in S \ {i} /\ heap[l].next = NoItem /\ h[f[c]].prev = f[l]
          /\ own[f[c]] = f[k] /\ own[f[l]] = f[k]
      BY <1>13, <3>1, <3>2, <3>3
    <3>5. h[f[l]].next = NoItem /\ f[l] \in Live(h)  BY <1>10, <1>12, <3>4
    <3> QED  BY <2>2, <3>2, <3>4, <3>5
  <2> QED  BY <1>12, <2>1, <2>2
<1>24. Neighbours(h, own)
  <2> SUFFICES ASSUME NEW j \in Live(h), h[j].next # NoItem
               PROVE  own[h[j].next] = own[j] /\ h[h[j].next].prev = j
    BY DEF Neighbours
  <2>1. CASE j \in Live(heap)
    <3>1. h[j] = heap[j] /\ heap[j].next \in Live(heap)  BY <1>2, <1>7, <2>1 DEF Linked, Solid
    <3>2. par[heap[j].next] = par[j] /\ heap[heap[j].next].prev = j  BY <1>2, <2>1, <3>1 DEF Linked, Neighbours
    <3> QED  BY <1>7, <2>1, <3>1, <3>2
  <2>2. ASSUME NEW k \in S, j = f[k]  PROVE own[h[j].next] = own[j] /\ h[h[j].next].prev = j
    <3>1. k \in S \ {i} /\ heap[k].next # NoItem /\ h[j].next = f[heap[k].next]  BY <1>10, <2>2
    <3> QED  BY <1>14, <2>2, <3>1
  <2> QED  BY <1>12, <2>1, <2>2
<1>25. Apart(h, R, own)
  <2>1. \A k \in Roots : h[k] = heap[k] /\ own[k] = par[k]  BY <1>1, <1>7
  <2> QED  BY <1>2, <1>15, <1>21, <2>1 DEF Linked, Apart
<1>26. LedTo(h, R)
  <2> SUFFICES ASSUME NEW k \in Live(h), k \notin R  PROVE \E j \in Live(h) : Edge(h, j, k)
    BY DEF LedTo
  <2>1. CASE k \in Live(heap)
    <3>1. PICK j \in Live(heap) : Edge(heap, j, k)  BY <1>2, <1>21, <2>1 DEF Linked, LedTo
    <3> QED  BY <1>12, <1>18, <3>1
  <2>2. ASSUME NEW m \in S, k = f[m]  PROVE \E j \in Live(h) : Edge(h, j, k)
    <3>1. m \in S \ {i}  BY <1>21, <2>2
    <3>2. PICK j \in S : heap[j].child = m \/ (j # i /\ heap[j].next = m)  BY <3>1 DEF OneWay
    <3>3. Edge(h, f[j], f[m])  BY <1>17, <3>1, <3>2
    <3> QED  BY <1>12, <2>2, <3>3
  <2> QED  BY <1>12, <2>1, <2>2
<1>27. Grounded(h)
  <2> SUFFICES ASSUME NEW Q \in SUBSET Live(h), Q # {}  PROVE \E k \in Q : \A j \in Q : ~Edge(h, j, k)
    BY DEF Grounded
  <2>1. CASE Q \cap Live(heap) # {}
    <3>1. PICK P : P = Q \cap Live(heap)  OBVIOUS
    <3>2. P \in SUBSET Live(heap) /\ P # {}  BY <2>1, <3>1
    <3>3. PICK k \in P : \A j \in P : ~Edge(heap, j, k)  BY <1>2, <3>2 DEF Linked, Grounded
    <3>4. \A j \in Q : ~Edge(h, j, k)
      <4> SUFFICES ASSUME NEW j \in Q, Edge(h, j, k)  PROVE FALSE  OBVIOUS
      <4>1. CASE j \in Live(heap)  BY <1>18, <3>1, <3>3, <4>1
      <4>2. CASE \E m \in S : j = f[m]
        <5>1. \E m \in S : k = f[m]  BY <1>16, <4>2
        <5> QED  BY <1>4, <3>2, <3>3, <5>1
      <4> QED  BY <1>12, <4>1, <4>2
    <3> QED  BY <3>1, <3>3, <3>4
  <2>2. CASE Q \cap Live(heap) = {}
    <3>1. \A q \in Q : \E m \in S : q = f[m]  BY <1>12, <2>2
    <3>2. CASE f[i] \in Q
      <4>1. \A j \in Q : ~Edge(h, j, f[i])
        <5> SUFFICES ASSUME NEW m \in S, Edge(h, f[m], f[i])  PROVE FALSE  BY <3>1
        <5>1. PICK l \in S \ {i} : f[i] = f[l]  BY <1>16
        <5> QED  BY <1>3, <1>4, <5>1
      <4> QED  BY <3>2, <4>1
    <3>3. CASE f[i] \notin Q
      <4> SUFFICES ASSUME \A k \in Q : \E j \in Q : Edge(h, j, k)  PROVE FALSE  OBVIOUS
      <4> DEFINE C == {j \in S : f[j] \notin Q}
      <4>1. C \in SUBSET Items /\ i \in C  BY <1>3, <3>3
      <4>2. ASSUME NEW j \in C, NEW m \in S \ {i}, heap[j].child = m \/ (j # i /\ heap[j].next = m)
            PROVE  m \in C
        <5> SUFFICES ASSUME f[m] \in Q  PROVE FALSE  OBVIOUS
        <5>1. PICK q \in Q : Edge(h, q, f[m])  OBVIOUS
        <5>2. PICK l \in S : q = f[l]  BY <3>1
        <5>3. PICK n \in S \ {i} : f[m] = f[n] /\ (heap[l].child = n \/ (l # i /\ heap[l].next = n))
          BY <1>16, <5>1, <5>2
        <5>4. n = m  BY <1>4, <5>3
        <5>5. j \in S /\ f[j] \notin Q  OBVIOUS
        <5>6. j = l
          <6>1. \A x \in S, y \in S : heap[x].child = m /\ heap[y].child = m => x = y  BY DEF OneWay
          <6>2. \A x \in S, y \in S \ {i} : ~(heap[x].child = m /\ heap[y].next = m)  BY DEF OneWay
          <6>3. \A x \in S \ {i}, y \in S \ {i} : heap[x].next = m /\ heap[y].next = m => x = y  BY DEF OneWay
          <6> HIDE DEF C
          <6> QED  BY <4>2, <5>2, <5>3, <5>4, <5>5, <6>1, <6>2, <6>3
        <5> QED  BY <5>2, <5>5, <5>6
      <4>3. \A j \in C : heap[j].child \in C \cup {NoItem} /\ (j # i => heap[j].next \in C \cup {NoItem})
        <5> SUFFICES ASSUME NEW j \in C
                     PROVE  heap[j].child \in C \cup {NoItem} /\ (j # i => heap[j].next \in C \cup {NoItem})
          OBVIOUS
        <5>1. j \in S  OBVIOUS
        <5> QED  BY <1>9, <4>2, <5>1
      <4> HIDE DEF C
      <4>4. S \subseteq C  BY <4>1, <4>3 DEF OneWay
      <4> QED  BY <3>1, <4>4 DEF C
    <3> QED  BY <3>2, <3>3
  <2> QED  BY <2>1, <2>2
<1>28. Linked(h, R, own)
  <2>1. own \in [Items -> Items \cup {NoItem}]  BY <1>5 DEF OwnsCopies
  <2> QED  BY <1>6, <1>21, <1>22, <1>23, <1>24, <1>25, <1>26, <1>27, <2>1 DEF Linked
<1> QED  BY <1>12, <1>20, <1>28

LEMMA DuplicateKeeps ==
  ASSUME TreeInv, NEW i \in Live(heap), IsTree(i), NEW f \in Injection(Copied(heap, i), Unused), Duplicate(i, f)
  PROVE  TreeInv' /\ Undisturbed
<1>1. PICK S : S = Copied(heap, i)  OBVIOUS
<1>2. OneWay(i, S)  BY <1>1, TreeIsOneWay
<1>3. heap \in [Items -> Item] /\ Live(heap) \subseteq Items /\ \A u \in Unused : u \in Items /\ u \notin Live(heap)
  BY InvIs
<1>4. S \in SUBSET Items /\ i \in S /\ f \in Injection(S, Unused)  BY <1>1, <1>2, <1>3 DEF OneWay
<1>5. f \in [S -> Unused] /\ DOMAIN f = S  BY <1>4 DEF Injection
<1>6. PICK h : h = CopyOf(i, {i}, S, f)  OBVIOUS
<1>7. AreCopies(h, i, S, f)  BY <1>4, <1>6, CopyIs
<1>8. PICK F : F = Range(f)  OBVIOUS
<1>9. /\ heap' = h /\ strs' = strs + Cardinality(OwnedStrings(h, F))
      /\ held' = held \cup {f[i]} /\ lost' = lost
  BY <1>5, <1>6, <1>8, Zenon DEF Duplicate
<1>10. /\ \E own : Linked(h, With(Roots, f[i]), own)
       /\ \A m : m \in Live(h) <=> m \in Live(heap) \/ \E j \in S : m = f[j]
  BY <1>2, <1>4, <1>7, CopiesAreLinked
<1>11. \A m : m \in F <=> \E j \in S : m = f[j]  BY <1>5, <1>8 DEF Range
<1>12. F \in SUBSET Items /\ F \cap Live(heap) = {} /\ f[i] \notin Live(heap)  BY <1>3, <1>4, <1>5, <1>11
<1>13. Live(h) = Live(heap) \cup F  BY <1>10, <1>11
<1>14. h \in [Items -> Item] /\ \A m \in Live(heap) : h[m] = heap[m]  BY <1>3, <1>7, <1>11, <1>12 DEF AreCopies
<1>15. Cardinality(OwnedStrings(h, Live(h))) =
         Cardinality(OwnedStrings(heap, Live(heap))) + Cardinality(OwnedStrings(h, F))
  BY <1>3, <1>12, <1>13, <1>14, StringsMore
<1>16. strs' = Counted(h)
  <2>1. strs = Counted(heap)  BY InvLinked
  <2> QED  BY <1>9, <1>15, <2>1 DEF Counted
<1>17. f[i] \notin Roots  BY <1>12, InvLinked
<1>18. PICK m : m = f[i]  OBVIOUS
<1>19. With(Roots, m) = (held \cup {m}) \cup lost /\ (held \cup {m}) \cap lost = {}  BY <1>17, <1>18, RootsAre
<1>20. (\E own : Linked(h, With(Roots, m), own)) /\ held' = held \cup {m}  BY <1>9, <1>10, <1>18
<1>21. Undisturbed  BY <1>9, <1>14 DEF Undisturbed
<1> QED  BY <1>9, <1>16, <1>19, <1>20, <1>21, InvAgain

-----------------------------------------------------------------------------
(* The theorems *)

LEMMA CallKeeps == ASSUME TreeInv, Call  PROVE TreeInv'
<1>1. CASE Making
  <2>1. PICK i \in Unused :
          \/ \E kind \in Kinds :
               \/ Create(i, kind) \/ CreateStringReference(i, kind)
               \/ \E child \in Live(heap) : CreateReference(i, kind, child)
          \/ \E n \in Counts : \E at \in [1..n -> Unused \ {i}], kind \in Leaves :
               IsInjective(at) /\ (CreateArrayOf(i, at, kind) \/ CreateArrayFails(i, at, kind))
    BY <1>1 DEF Making
  <2>2. ASSUME NEW kind \in Kinds, Create(i, kind)  PROVE TreeInv'  BY <2>2, CreateKeeps
  <2>6. ASSUME NEW kind \in Kinds, CreateStringReference(i, kind)  PROVE TreeInv'  BY <2>6, CreateStringReferenceKeeps
  <2>3. ASSUME NEW kind \in Kinds, NEW child \in Live(heap), CreateReference(i, kind, child)  PROVE TreeInv'
    BY <2>3, CreateReferenceKeeps
  <2>4. ASSUME NEW n \in Counts, NEW at \in [1..n -> Unused \ {i}], NEW kind \in Leaves,
               IsInjective(at), CreateArrayOf(i, at, kind)
        PROVE  TreeInv'
    BY <2>4, CreateArrayOfKeeps
  <2>5. ASSUME NEW n \in Counts, NEW at \in [1..n -> Unused \ {i}], NEW kind \in Leaves,
               IsInjective(at), CreateArrayFails(i, at, kind)
        PROVE  TreeInv'
    BY <2>5, CreateArrayFailsKeeps
  <2> QED  BY <2>1, <2>2, <2>3, <2>4, <2>5, <2>6
<1>2. CASE Copying
  <2>1. PICK i \in Live(heap) :
          \/ \E copy \in Unused : Duplicate(i, [j \in {i} |-> copy])
          \/ IsTree(i) /\ \E S \in SUBSET Copied(heap, i) : \E f \in Injection(S, Unused) :
               \/ S = Copied(heap, i) /\ Duplicate(i, f)
               \/ MadeFirst(i, S) /\ \E l \in S : DuplicateFails(i, f, l)
    BY <1>2, Zenon DEF Copying
  <2>2. ASSUME NEW copy \in Unused, Duplicate(i, [j \in {i} |-> copy])  PROVE TreeInv'
    BY <2>2, DuplicateOneKeeps
  <2>3. ASSUME IsTree(i), NEW f \in Injection(Copied(heap, i), Unused), Duplicate(i, f)  PROVE TreeInv'
    BY <2>3, DuplicateKeeps
  <2>4. ASSUME NEW S \in SUBSET Copied(heap, i), NEW f \in Injection(S, Unused), MadeFirst(i, S),
               NEW l \in S, DuplicateFails(i, f, l)
        PROVE  TreeInv'
    BY <2>4, DuplicateFailsKeeps
  <2> QED  BY <2>1, <2>2, <2>3, <2>4, Zenon
<1>3. CASE Giving
  <2>1. PICK a \in Live(heap) :
          \/ \E i \in held :
               \/ AddItemToArray(a, i)
               \/ \E which \in Indices : InsertItemInArray(a, which, i)
               \/ \E name \in Names, constant \in BOOLEAN : AddItemToObject(a, name, i, constant)
          \/ \E i \in Live(heap), r \in Unused :
               AddItemReferenceToArray(a, i, r) \/ \E name \in Names : AddItemReferenceToObject(a, name, i, r)
          \/ \E i \in Unused, name \in Names, kind \in Kinds : AddNewToObject(a, name, i, kind)
    BY <1>3 DEF Giving
  <2>2. ASSUME NEW i \in held, AddItemToArray(a, i)  PROVE TreeInv'  BY <2>2, AddItemToArrayKeeps
  <2>3. ASSUME NEW i \in held, NEW which \in Indices, InsertItemInArray(a, which, i)  PROVE TreeInv'
    BY <2>3, InsertItemInArrayKeeps
  <2>4. ASSUME NEW i \in held, NEW name \in Names, NEW constant \in BOOLEAN, AddItemToObject(a, name, i, constant)
        PROVE  TreeInv'
    BY <2>4, AddItemToObjectKeeps
  <2>5. ASSUME NEW i \in Live(heap), NEW r \in Unused, AddItemReferenceToArray(a, i, r)  PROVE TreeInv'
    BY <2>5, AddItemReferenceToArrayKeeps
  <2>6. ASSUME NEW i \in Live(heap), NEW r \in Unused, NEW name \in Names, AddItemReferenceToObject(a, name, i, r)
        PROVE  TreeInv'
    BY <2>6, AddItemReferenceToObjectKeeps
  <2>7. ASSUME NEW i \in Unused, NEW name \in Names, NEW kind \in Kinds, AddNewToObject(a, name, i, kind)
        PROVE  TreeInv'
    BY <2>7, AddNewToObjectKeeps
  <2> QED  BY <2>1, <2>2, <2>3, <2>4, <2>5, <2>6, <2>7
<1>4. CASE Taking
  <2>1. PICK a \in Live(heap) :
          \/ \E which \in Indices : DetachItemFromArray(a, which) \/ DeleteItemFromArray(a, which)
          \/ \E name \in DOMAIN Fold, sensitive \in BOOLEAN :
               DetachItemFromObject(a, name, sensitive) \/ DeleteItemFromObject(a, name, sensitive)
          \/ \E r \in held :
               \/ \E which \in Indices : ReplaceItemInArray(a, which, r)
               \/ \E name \in Names, sensitive \in BOOLEAN : ReplaceItemInObject(a, name, r, sensitive)
    BY <1>4 DEF Taking
  <2>2. ASSUME NEW which \in Indices, DetachItemFromArray(a, which) \/ DeleteItemFromArray(a, which)
        PROVE  TreeInv'
    BY <2>2, ByIndexKeeps
  <2>3. ASSUME NEW name, NEW sensitive,
               DetachItemFromObject(a, name, sensitive) \/ DeleteItemFromObject(a, name, sensitive)
        PROVE  TreeInv'
    BY <2>3, ByNameKeeps
  <2>4. ASSUME NEW r \in held, NEW which \in Indices, ReplaceItemInArray(a, which, r)  PROVE TreeInv'
    BY <2>4, ReplaceItemInArrayKeeps
  <2>5. ASSUME NEW r \in held, NEW name \in Names, NEW sensitive \in BOOLEAN, ReplaceItemInObject(a, name, r, sensitive)
        PROVE  TreeInv'
    BY <2>5, ReplaceItemInObjectKeeps
  <2> QED  BY <2>1, <2>2, <2>3, <2>4, <2>5
<1>5. ASSUME NEW i \in Live(heap), NEW leaf \in Leaves, SetValue(i, leaf)  PROVE TreeInv'
  BY <1>5, SetValueKeeps
<1>6. ASSUME NEW i \in held, Delete(i)  PROVE TreeInv'  BY <1>6, DeleteKeeps
<1> QED  BY <1>1, <1>2, <1>3, <1>4, <1>5, <1>6 DEF Call

\* A step that is no call that returns: a crash, or none.
Still == heap' = heap /\ strs' = strs /\ held' = held /\ lost' = lost

LEMMA StepIs == [Next]_vars => Call \/ Still
BY DEF Next, CreateArrayCrashes, Still, vars

LEMMA TreeStep == TreeInv /\ [Next]_vars => TreeInv'
<1> SUFFICES ASSUME TreeInv, [Next]_vars PROVE TreeInv'  OBVIOUS
<1>1. CASE Call  BY <1>1, CallKeeps
<1>2. CASE Still
  <2>1. (\E par : Linked(heap, Roots, par)) /\ strs = Counted(heap)  BY InvLinked
  <2> QED  BY <1>2, <2>1, RootsAre, InvAgain DEF Still
<1> QED  BY <1>1, <1>2, StepIs

\* Whatever calls are made that come back, with the blocks that they find and where memory
\* runs out, the items stay linked as lists, under those that the program holds or has lost.
THEOREM ItemsStayLinked == Spec => []TreeInv
BY InitTree, TreeStep, PTL DEF Spec

\* An item of the heap is used or free, the program holds items that are used, and what is
\* lost it does not hold.
THEOREM TypeCorrect == Spec => []TypeOK
<1>1. TreeInv /\ crashed \in BOOLEAN => TypeOK
  <2> SUFFICES ASSUME TreeInv, crashed \in BOOLEAN PROVE TypeOK  OBVIOUS
  <2>1. heap \in [Items -> Item] /\ strs \in Nat /\ Roots \subseteq Live(heap) /\ held \cap lost = {}
    BY InvLinked
  <2> QED  BY <2>1 DEF TypeOK, Roots
<1>2. Init => crashed \in BOOLEAN  BY DEF Init
<1>3. crashed \in BOOLEAN /\ [Next]_vars => (crashed \in BOOLEAN)'  BY DEF Next, CreateArrayCrashes, vars
<1> QED  BY <1>1, <1>2, <1>3, ItemsStayLinked, PTL DEF Spec

\* Every list ends, its items point back at one another and its first at its last, and an
\* item that the program holds is in no list: after add_item_to_array, InsertItemInArray,
\* Detach, Replace and Duplicate, in whatever order they are called.
THEOREM ListsStayWhole == Spec => []WellLinked
<1>1. TreeInv => WellLinked
  <2> SUFFICES ASSUME TreeInv PROVE WellLinked  OBVIOUS
  <2>1. PICK par : Linked(heap, Roots, par)  BY InvLinked
  <2>2. held \subseteq Roots  BY DEF Roots
  <2> QED  BY <2>1, <2>2, LinkedIsWell
<1> QED  BY <1>1, ItemsStayLinked, PTL

\* cJSON_Delete of what the program holds frees every item but what a call has lost, each
\* string is counted with the item that will free it, and no pointer leads to a block that
\* was freed: not after a deletion, and not after a call that found no memory and came back.
\* One does not come back: an array maker that gets no memory for the array itself, or is
\* asked for no items (CreateArrayCrashes).
THEOREM BlocksOwned == Spec => []EveryBlockOwned
<1>1. TreeInv => EveryBlockOwned
  <2> SUFFICES ASSUME TreeInv PROVE EveryBlockOwned  OBVIOUS
  <2>1. PICK par : Linked(heap, Roots, par)  BY InvLinked
  <2>2. Live(heap) = UNION {Owned(heap, i) : i \in held \cup lost}
    <3>1. Live(heap) = UNION {Owned(heap, i) : i \in Roots}  BY <2>1, AllOwned, Zenon
    <3> QED  BY <3>1, Zenon DEF Roots
  <2>3. strs = Cardinality(OwnedStrings(heap, Live(heap)))  BY DEF TreeInv
  <2>4. \A i \in Live(heap) : {heap[i].next, heap[i].prev, heap[i].child} \subseteq Live(heap) \cup {NoItem}
    BY <2>1 DEF Linked, Solid
  <2> QED  BY <2>2, <2>3, <2>4 DEF EveryBlockOwned
<1> QED  BY <1>1, ItemsStayLinked, PTL

-----------------------------------------------------------------------------
(* The forest that the items are *)

\* s is the list of m items that begins at the child of a.
IsList(h, a, s, m) ==
  /\ m \in Nat /\ s \in [1..m -> Items]
  /\ m = 0 => h[a].child = NoItem
  /\ m # 0 => s[1] = h[a].child /\ h[s[m]].next = NoItem
  /\ \A n \in 1..m : n # m => s[n + 1] = h[s[n]].next

\* What get_array_item comes to is the list: each item of it once, and no other.
LEMMA KidsAre ==
  ASSUME NEW h, NEW R, NEW par, Linked(h, R, par), NEW a \in Live(h), "ref" \notin h[a].flags
  PROVE  LET s == Kids(h, a)  m == GetArraySize(h, a)
         IN  /\ IsList(h, a, s, m) /\ Len(s) = m /\ s \in Seq(Items)
             /\ \A n \in 1..m : s[n] = GetArrayItem(h, a, n - 1) /\ s[n] \in Live(h) /\ par[s[n]] = a
             /\ \A k, n \in 1..m : k # n => s[k] # s[n]
             /\ \A j \in Live(h) : par[j] = a => \E n \in 1..m : s[n] = j
<1> DEFINE w(n) == GetArrayItem(h, a, n)  m == GetArraySize(h, a)  s == Kids(h, a)
<1>0. h \in [Items -> Item] /\ NoItem \notin Items /\ Live(h) \subseteq Items
  BY CJsonTreeAssumption, LiveIs DEF Linked
<1>1. w(0) = h[a].child /\ \A n \in Nat : w(n + 1) = Step(h, w(n))  BY WalkIs
<1>2. \A n \in Nat : w(n) # NoItem => w(n) \in Live(h) /\ par[w(n)] = a  BY WalkLive
<1>3. \A k, n \in Nat : k < n /\ w(n) # NoItem => w(k) # w(n)  BY WalkOnce
<1>4. m \in Nat /\ w(m) = NoItem /\ \A n \in 0..m - 1 : w(n) # NoItem
  <2>1. m <= Cardinality(Items)  BY ListIs
  <2> QED  BY <1>0, <2>1, SizeIs
<1> HIDE DEF w, m
<1>5. s = [n \in 1..m |-> w(n - 1)]  BY DEF Kids, w, m
<1> HIDE DEF s
<1>6. \A n \in 1..m : s[n] = w(n - 1) /\ n - 1 \in Nat /\ w(n - 1) # NoItem /\ s[n] \in Live(h) /\ par[s[n]] = a
  <2> TAKE n \in 1..m
  <2>1. s[n] = w(n - 1) /\ n - 1 \in Nat /\ n - 1 \in 0..m - 1  BY <1>4, <1>5
  <2> QED  BY <1>2, <1>4, <2>1
<1>7. s \in [1..m -> Items] /\ Len(s) = m /\ s \in Seq(Items)
  <2>1. \A n \in 1..m : w(n - 1) \in Items  BY <1>0, <1>6
  <2>2. s \in [1..m -> Items]  BY <1>5, <2>1
  <2> QED  BY <1>4, <2>2, LenIs
<1>8. IsList(h, a, s, m)
  <2>1. m = 0 => h[a].child = NoItem  BY <1>1, <1>4
  <2>2. ASSUME m # 0  PROVE s[1] = h[a].child /\ h[s[m]].next = NoItem
    <3>1. 1 \in 1..m /\ m \in 1..m /\ 1 - 1 = 0 /\ (m - 1) + 1 = m  BY <1>4, <2>2
    <3>2. w(m) = Step(h, w(m - 1))  BY <1>1, <1>6, <3>1
    <3>3. s[1] = w(0) /\ s[m] = w(m - 1) /\ w(m - 1) # NoItem  BY <1>6, <3>1
    <3> QED  BY <1>1, <1>4, <3>2, <3>3 DEF Step
  <2>3. ASSUME NEW n \in 1..m, n # m  PROVE s[n + 1] = h[s[n]].next
    <3>1. n + 1 \in 1..m /\ (n + 1) - 1 = n /\ (n - 1) + 1 = n  BY <1>4, <2>3
    <3>2. w(n) = Step(h, w(n - 1))  BY <1>1, <1>6, <3>1
    <3>3. s[n + 1] = w(n) /\ s[n] = w(n - 1) /\ w(n - 1) # NoItem  BY <1>6, <3>1
    <3> QED  BY <3>2, <3>3 DEF Step
  <2> QED  BY <1>4, <1>7, <2>1, <2>2, <2>3 DEF IsList
<1>9. ASSUME NEW k \in 1..m, NEW n \in 1..m, k # n  PROVE s[k] # s[n]
  <2>1. k - 1 \in Nat /\ n - 1 \in Nat /\ (k - 1 < n - 1 \/ n - 1 < k - 1)  BY <1>4, <1>9
  <2> QED  BY <1>3, <1>6, <2>1
<1>10. ASSUME NEW j \in Live(h), par[j] = a  PROVE \E n \in 1..m : s[n] = j
  <2> DEFINE W == {s[n] : n \in 1..m}  Q == {x \in Live(h) : par[x] = a /\ x \notin W}
  <2>1. Q = {}
    <3> SUFFICES ASSUME Q # {}  PROVE FALSE  OBVIOUS
    <3>1. PICK x \in Q : \A l \in Q : ~Edge(h, l, x)
      <4>1. Q \in SUBSET Live(h)  OBVIOUS
      <4> HIDE DEF Q
      <4> QED  BY <4>1 DEF Linked, Grounded
    <3> DEFINE q == h[x].prev
    <3>2. x \in Live(h) /\ par[x] = a /\ a # NoItem /\ x \in Items /\ x # NoItem  BY <1>0
    <3>3. q \in Live(h) /\ par[q] = a /\ (x # h[a].child => h[q].next = x) /\ h[a].child # NoItem
      BY <3>2, InList
    <3>4. CASE x = h[a].child
      <4>1. m # 0  BY <1>1, <1>4, <3>3
      <4>2. 1 \in 1..m /\ s[1] = x  BY <1>4, <1>8, <3>4, <4>1 DEF IsList
      <4> QED  BY <4>2
    <3>5. CASE x # h[a].child
      <4>1. h[q].next = x /\ Edge(h, q, x)  BY <3>2, <3>3, <3>5 DEF Edge
      <4>2. q \in W  BY <3>1, <3>3, <4>1
      <4>3. PICK n \in 1..m : q = s[n]  BY <4>2
      <4>4. n # m  BY <1>8, <3>2, <4>1, <4>3 DEF IsList
      <4>5. n + 1 \in 1..m  BY <1>4, <4>4
      <4>6. s[n + 1] = x  BY <1>8, <4>1, <4>3, <4>4 DEF IsList
      <4> QED  BY <4>5, <4>6
    <3> QED  BY <3>4, <3>5
  <2>2. j \in W  BY <1>10, <2>1
  <2> QED  BY <2>2
<1> QED  BY <1>6, <1>7, <1>8, <1>9, <1>10 DEF s, m, w

\* Two lists that begin at one child are the same, as far as they go.
LEMMA ListPrefix ==
  ASSUME NEW h, NEW a, NEW s, NEW m, NEW t, NEW n, IsList(h, a, s, m), IsList(h, a, t, n)
  PROVE  m <= n /\ \A k \in 1..m : s[k] = t[k]
<1>0. m \in Nat /\ n \in Nat /\ NoItem \notin Items /\ s \in [1..m -> Items] /\ t \in [1..n -> Items]
  BY CJsonTreeAssumption DEF IsList
<1> DEFINE G == {k \in 0..m : k <= n /\ (k # 0 => s[k] = t[k])}
<1>1. 0 \in G  BY <1>0
<1>2. ASSUME NEW k \in 0..m, k \in G, k < m  PROVE k + 1 \in G
  <2>1. k + 1 \in 1..m /\ s[k + 1] \in Items /\ k \in Nat /\ k + 1 \in 0..m /\ k <= n  BY <1>0, <1>2
  <2>2. CASE k = 0
    <3>1. s[1] = h[a].child /\ s[1] # NoItem  BY <1>0, <1>2, <2>1, <2>2 DEF IsList
    <3>2. n # 0  BY <3>1 DEF IsList
    <3>3. t[1] = s[1]  BY <3>1, <3>2 DEF IsList
    <3> QED  BY <1>0, <2>1, <2>2, <3>2, <3>3
  <2>3. CASE k # 0
    <3>1. s[k] = t[k] /\ k \in 1..m /\ k \in 1..n /\ k # m  BY <1>0, <1>2, <2>1, <2>3
    <3>2. s[k + 1] = h[s[k]].next  BY <3>1 DEF IsList
    <3>3. k # n
      <4> SUFFICES ASSUME k = n PROVE FALSE  OBVIOUS
      <4>1. h[t[n]].next = NoItem  BY <2>3 DEF IsList
      <4> QED  BY <1>0, <2>1, <3>1, <3>2, <4>1
    <3>4. t[k + 1] = h[t[k]].next  BY <3>1, <3>3 DEF IsList
    <3> QED  BY <1>0, <2>1, <3>1, <3>2, <3>3, <3>4
  <2> QED  BY <2>2, <2>3
<1> HIDE DEF G
<1>3. \A k \in 0..m : k \in G  BY <1>0, <1>1, <1>2, UpTo
<1>4. m \in 0..m /\ \A k \in 1..m : k \in 0..m /\ k # 0  BY <1>0
<1> QED  BY <1>3, <1>4 DEF G

\* What is a list is the list.
LEMMA KidsIs ==
  ASSUME NEW h, NEW R, NEW par, Linked(h, R, par), NEW a \in Live(h), "ref" \notin h[a].flags,
         NEW s, NEW m, IsList(h, a, s, m)
  PROVE  Kids(h, a) = s
<1> DEFINE t == Kids(h, a)  n == GetArraySize(h, a)
<1>1. IsList(h, a, t, n)  BY KidsAre
<1> HIDE DEF t, n
<1>2. m <= n /\ n <= m /\ \A k \in 1..m : s[k] = t[k]  BY <1>1, ListPrefix
<1>3. m = n /\ s \in [1..m -> Items] /\ t \in [1..m -> Items]  BY <1>1, <1>2 DEF IsList
<1>4. s = t
  <2>1. s = [k \in 1..m |-> s[k]] /\ t = [k \in 1..m |-> t[k]]  BY <1>3
  <2>2. [k \in 1..m |-> s[k]] = [k \in 1..m |-> t[k]]  BY <1>2
  <2> QED  BY <2>1, <2>2
<1> QED  BY <1>4 DEF t

\* A list whose items keep their next is still the list.
LEMMA KidsKept ==
  ASSUME NEW h, NEW R, NEW par, Linked(h, R, par), NEW g, NEW Q, NEW own, Linked(g, Q, own),
         NEW b, b \in Live(h), b \in Live(g), "ref" \notin h[b].flags, "ref" \notin g[b].flags,
         g[b].child = h[b].child, \A j \in Live(h) : par[j] = b => g[j].next = h[j].next
  PROVE  Kids(g, b) = Kids(h, b)
<1> DEFINE s == Kids(h, b)  m == GetArraySize(h, b)
<1>1. IsList(h, b, s, m) /\ \A n \in 1..m : s[n] \in Live(h) /\ par[s[n]] = b  BY KidsAre
<1> HIDE DEF s, m
<1>2. \A n \in 1..m : g[s[n]].next = h[s[n]].next  BY <1>1
<1>3. m \in Nat /\ (m # 0 => m \in 1..m)  BY <1>1 DEF IsList
<1>4. IsList(g, b, s, m)  BY <1>1, <1>2, <1>3 DEF IsList
<1>5. Kids(g, b) = s  BY <1>4, KidsIs
<1> QED  BY <1>5 DEF s

\* One round of what Tree does, and n rounds.
Grow(old, S) == S \cup UNION {Forest!ToSet(old[j]) : j \in S}

Rounds(old, i, w, f) == f = [n \in 0..w |-> IF n = 0 THEN {i} ELSE Grow(old, f[n - 1])]

LEMMA GrownAt ==
  ASSUME NEW old, NEW i, NEW w \in Nat, NEW f, Rounds(old, i, w, f)
  PROVE  f[0] = {i} /\ \A n \in 0..w : n # 0 => f[n] = Grow(old, f[n - 1])
<1> DEFINE B(n) == IF n = 0 THEN {i} ELSE Grow(old, f[n - 1])
<1>1. f = [n \in 0..w |-> B(n)]  BY Zenon DEF Rounds
<1>2. \A n \in 0..w : f[n] = B(n)
  <2> TAKE n \in 0..w
  <2>1. [k \in 0..w |-> B(k)][n] = B(n)  OBVIOUS
  <2> QED  BY <1>1, <2>1
<1>3. 0 \in 0..w  OBVIOUS
<1> QED  BY <1>2, <1>3

LEMMA GrownThere ==
  ASSUME NEW old, NEW i, NEW w \in Nat
  PROVE  \E f : Rounds(old, i, w, f)
<1> DEFINE G == {n \in Nat : \E f : Rounds(old, i, n, f)}
<1>1. 0 \in G
  <2> DEFINE f == [n \in 0..0 |-> {i}]
  <2>1. Rounds(old, i, 0, f)  BY DEF Rounds
  <2> QED  BY <2>1
<1>2. ASSUME NEW n \in Nat, n \in G  PROVE n + 1 \in G
  <2>1. PICK f : Rounds(old, i, n, f)  BY <1>2
  <2>2. f[0] = {i} /\ \A k \in 0..n : k # 0 => f[k] = Grow(old, f[k - 1])  BY <2>1, GrownAt
  <2> DEFINE g == [m \in 0..(n + 1) |-> IF m = 0 THEN {i} ELSE Grow(old, f[m - 1])]
  <2>3. \A m \in 0..(n + 1) : m # 0 => g[m - 1] = f[m - 1]
    <3> SUFFICES ASSUME NEW m \in 0..(n + 1), m # 0 PROVE g[m - 1] = f[m - 1]  OBVIOUS
    <3>1. m - 1 \in 0..n /\ m - 1 \in 0..(n + 1)  OBVIOUS
    <3>2. g[m - 1] = IF m - 1 = 0 THEN {i} ELSE Grow(old, f[m - 1 - 1])  BY <3>1
    <3> QED  BY <2>2, <3>1, <3>2
  <2> HIDE DEF g
  <2>4. g = [m \in 0..(n + 1) |-> IF m = 0 THEN {i} ELSE Grow(old, f[m - 1])]  BY DEF g
  <2>5. Rounds(old, i, n + 1, g)  BY <2>3, <2>4 DEF Rounds
  <2> QED  BY <2>5
<1> HIDE DEF G
<1>3. w \in G  BY <1>1, <1>2, UpTo
<1> QED  BY <1>3 DEF G

\* C has the subitems of its items.
Closed(old, C) == \A j \in C : \A n \in DOMAIN old[j] : old[j][n] \in C

LEMMA GrowIs ==
  ASSUME NEW old, NEW S
  PROVE  /\ S \subseteq Grow(old, S)
         /\ \A j \in S : \A n \in DOMAIN old[j] : old[j][n] \in Grow(old, S)
         /\ \A C : S \subseteq C /\ Closed(old, C) => Grow(old, S) \subseteq C
         /\ Grow(old, S) = S => Closed(old, S)
BY DEF Grow, Closed, Forest!ToSet

\* As many rounds as there are items are enough: the tree under i is the least set with i
\* that has the subitems of its items.
LEMMA TreeIs ==
  ASSUME NEW old, NEW D \in SUBSET Items, NEW i \in D, Closed(old, D)
  PROVE  LET T == Forest!Tree(old, i)
         IN  /\ i \in T /\ T \subseteq D /\ Closed(old, T)
             /\ \A C : i \in C /\ Closed(old, C) => T \subseteq C
<1> DEFINE N == Cardinality(Items)  f == CHOOSE x : Rounds(old, i, N, x)
<1>1. N \in Nat /\ IsFiniteSet(Items)  BY CJsonTreeAssumption, FS_CardinalityType
<1>2. Rounds(old, i, N, f)  BY <1>1, GrownThere
<1>3. Forest!Tree(old, i) = f[N]
  <2>1. Forest!Cardinality(Items) = Cardinality(Items)  BY Zenon DEF Forest!Cardinality, Cardinality
  <2> QED  BY <2>1, Zenon DEF Forest!Tree, Rounds, Grow
<1> HIDE DEF f
<1>4. f[0] = {i} /\ \A n \in 0..N : n # 0 => f[n] = Grow(old, f[n - 1])  BY <1>1, <1>2, GrownAt
<1> HIDE DEF N
<1>5. ASSUME NEW n \in 0..N, n < N  PROVE n + 1 \in 0..N /\ f[n + 1] = Grow(old, f[n])
  <2>1. n + 1 \in 0..N /\ n + 1 # 0 /\ (n + 1) - 1 = n  BY <1>1, <1>5
  <2> QED  BY <1>4, <2>1
<1>6. ASSUME NEW C, i \in C, Closed(old, C)  PROVE \A n \in 0..N : i \in f[n] /\ f[n] \subseteq C
  <2> DEFINE G == {n \in 0..N : i \in f[n] /\ f[n] \subseteq C}
  <2>1. 0 \in G  BY <1>1, <1>4, <1>6
  <2>2. ASSUME NEW n \in 0..N, n \in G, n < N  PROVE n + 1 \in G
    BY <1>5, <1>6, <2>2, GrowIs
  <2> HIDE DEF G
  <2>3. \A n \in 0..N : n \in G  BY <1>1, <2>1, <2>2, UpTo
  <2> QED  BY <2>3 DEF G
<1>7. \A n \in 0..N : i \in f[n] /\ f[n] \subseteq D  BY <1>6
<1>8. \A n \in 0..N : Closed(old, f[n]) \/ n + 1 <= Cardinality(f[n])
  <2> DEFINE G == {n \in 0..N : Closed(old, f[n]) \/ n + 1 <= Cardinality(f[n])}
  <2>1. 0 \in G
    <3>1. Cardinality({i}) = 1  BY FS_Singleton
    <3> QED  BY <1>1, <1>4, <3>1
  <2>2. ASSUME NEW n \in 0..N, n \in G, n < N  PROVE n + 1 \in G
    <3>1. n + 1 \in 0..N /\ f[n + 1] = Grow(old, f[n])  BY <1>5, <2>2
    <3>2. CASE f[n + 1] = f[n]
      <4>1. Closed(old, f[n + 1])  BY <3>1, <3>2, GrowIs
      <4> QED  BY <3>1, <4>1
    <3>3. CASE f[n + 1] # f[n]
      <4>1. ~Closed(old, f[n])
        <5> SUFFICES ASSUME Closed(old, f[n]) PROVE FALSE  OBVIOUS
        <5>1. Grow(old, f[n]) \subseteq f[n] /\ f[n] \subseteq Grow(old, f[n])  BY GrowIs
        <5> QED  BY <3>1, <3>3, <5>1
      <4>2. n + 1 <= Cardinality(f[n])  BY <2>2, <4>1
      <4>3. f[n] \in SUBSET f[n + 1] /\ IsFiniteSet(f[n + 1]) /\ IsFiniteSet(f[n])
        <5>1. f[n] \subseteq f[n + 1]  BY <3>1, GrowIs
        <5>2. f[n] \in SUBSET Items /\ f[n + 1] \in SUBSET Items  BY <1>7, <3>1
        <5> QED  BY <1>1, <5>1, <5>2, FS_Subset
      <4>4. Cardinality(f[n]) <= Cardinality(f[n + 1]) /\ Cardinality(f[n]) # Cardinality(f[n + 1])
        BY <3>3, <4>3, FS_Subset
      <4>5. Cardinality(f[n]) \in Nat /\ Cardinality(f[n + 1]) \in Nat  BY <4>3, FS_CardinalityType
      <4>6. (n + 1) + 1 <= Cardinality(f[n + 1])  BY <4>2, <4>4, <4>5
      <4> QED  BY <3>1, <4>6
    <3> QED  BY <3>2, <3>3
  <2> HIDE DEF G
  <2>3. \A n \in 0..N : n \in G  BY <1>1, <2>1, <2>2, UpTo
  <2> QED  BY <2>3 DEF G
<1>9. N \in 0..N  BY <1>1
<1>10. Closed(old, f[N])
  <2> SUFFICES ASSUME N + 1 <= Cardinality(f[N]) PROVE FALSE  BY <1>8, <1>9
  <2>1. f[N] \in SUBSET Items  BY <1>7, <1>9
  <2>2. Cardinality(f[N]) <= N /\ Cardinality(f[N]) \in Nat
    BY <1>1, <2>1, FS_Subset, FS_CardinalityType DEF N
  <2> QED  BY <1>1, <2>2
<1> QED  BY <1>3, <1>6, <1>7, <1>9, <1>10

\* An item of a tree is its root, or a subitem of an item of it.
LEMMA TreeFrom ==
  ASSUME NEW old, NEW D \in SUBSET Items, NEW i \in D, Closed(old, D), NEW k \in Forest!Tree(old, i), k # i
  PROVE  \E j \in Forest!Tree(old, i) : \E n \in DOMAIN old[j] : old[j][n] = k
<1> DEFINE T == Forest!Tree(old, i)  C == T \ {k}
<1>1. i \in T /\ Closed(old, T) /\ \A S : i \in S /\ Closed(old, S) => T \subseteq S  BY TreeIs
<1> HIDE DEF T
<1>2. k \in T  BY DEF T
<1> SUFFICES ASSUME \A j \in T : \A n \in DOMAIN old[j] : old[j][n] # k  PROVE FALSE  BY DEF T
<1>3. i \in C /\ Closed(old, C)  BY <1>1 DEF Closed
<1> QED  BY <1>1, <1>2, <1>3

\* What happens to an item that is not in a tree does not change the tree.
LEMMA TreeApart ==
  ASSUME NEW old, NEW new, NEW D \in SUBSET Items, NEW i \in D, Closed(old, D), Closed(new, D),
         NEW a, a \notin Forest!Tree(old, i), \A j \in D : j # a => new[j] = old[j]
  PROVE  Forest!Tree(new, i) = Forest!Tree(old, i)
<1> DEFINE T == Forest!Tree(old, i)  U == Forest!Tree(new, i)
<1>1. i \in T /\ T \subseteq D /\ Closed(old, T) /\ \A C : i \in C /\ Closed(old, C) => T \subseteq C  BY TreeIs
<1>2. i \in U /\ U \subseteq D /\ Closed(new, U) /\ \A C : i \in C /\ Closed(new, C) => U \subseteq C  BY TreeIs
<1> HIDE DEF T, U
<1>3. a \notin T  BY DEF T
<1>4. Closed(new, T)  BY <1>1, <1>3 DEF Closed
<1>5. U \subseteq T  BY <1>1, <1>2, <1>4
<1>6. Closed(old, U)  BY <1>1, <1>2, <1>3, <1>5 DEF Closed
<1>7. T \subseteq U  BY <1>1, <1>2, <1>6
<1> QED  BY <1>5, <1>7 DEF T, U

\* What the items of h are to the program.
ForestOf(h) == [i \in Live(h) |-> IF "ref" \in h[i].flags THEN <<>> ELSE Kids(h, i)]

LEMMA ForestAt ==
  ASSUME NEW h
  PROVE  /\ DOMAIN ForestOf(h) = Live(h)
         /\ \A b \in Live(h) : ForestOf(h)[b] = IF "ref" \in h[b].flags THEN <<>> ELSE Kids(h, b)
BY DEF ForestOf

LEMMA ForestIs ==
  ASSUME NEW h, NEW R, NEW par, Linked(h, R, par)
  PROVE  /\ Closed(ForestOf(h), Live(h)) /\ Live(h) \in SUBSET Items
         /\ \A b \in Live(h) : \A n \in DOMAIN ForestOf(h)[b] :
              /\ "ref" \notin h[b].flags /\ ForestOf(h)[b] = Kids(h, b)
              /\ n \in 1..GetArraySize(h, b) /\ Kids(h, b)[n] \in Live(h) /\ par[Kids(h, b)[n]] = b
<1>0. h \in [Items -> Item] /\ Live(h) \subseteq Items  BY LiveIs DEF Linked
<1>1. ASSUME NEW b \in Live(h), NEW n \in DOMAIN ForestOf(h)[b]
      PROVE  /\ "ref" \notin h[b].flags /\ ForestOf(h)[b] = Kids(h, b)
             /\ n \in 1..GetArraySize(h, b) /\ Kids(h, b)[n] \in Live(h) /\ par[Kids(h, b)[n]] = b
  <2>1. "ref" \notin h[b].flags
    <3> SUFFICES ASSUME "ref" \in h[b].flags PROVE FALSE  OBVIOUS
    <3>1. ForestOf(h)[b] = <<>>  BY ForestAt
    <3>2. DOMAIN <<>> = {}  OBVIOUS
    <3> QED  BY <3>1, <3>2
  <2>2. ForestOf(h)[b] = Kids(h, b)  BY <2>1, ForestAt
  <2>3. Kids(h, b) \in [1..GetArraySize(h, b) -> Items]  BY <2>1, KidsAre DEF IsList
  <2>4. DOMAIN Kids(h, b) = 1..GetArraySize(h, b)  BY <2>3
  <2> QED  BY <2>1, <2>2, <2>4, KidsAre
<1>2. Closed(ForestOf(h), Live(h))  BY <1>1 DEF Closed
<1> QED  BY <1>0, <1>1, <1>2

\* A subitem is led to from the item, or from the one before it.
LEMMA SubitemFrom ==
  ASSUME NEW h, NEW R, NEW par, Linked(h, R, par), NEW S \in SUBSET Live(h), Closed(ForestOf(h), S),
         NEW j \in S, NEW n \in DOMAIN ForestOf(h)[j]
  PROVE  \E l \in S : Edge(h, l, ForestOf(h)[j][n])
<1> DEFINE s == Kids(h, j)  m == GetArraySize(h, j)
<1>0. NoItem \notin Items /\ Live(h) \subseteq Items  BY CJsonTreeAssumption, ForestIs
<1>1. ForestOf(h)[j] = s /\ "ref" \notin h[j].flags /\ n \in 1..m /\ s[n] \in Live(h)  BY ForestIs
<1>2. IsList(h, j, s, m)  BY <1>1, KidsAre
<1> HIDE DEF s, m
<1>3. m \in Nat /\ DOMAIN s = 1..m  BY <1>2 DEF IsList
<1>4. CASE n = 1
  <2>1. m # 0  BY <1>1, <1>3
  <2>2. s[1] = h[j].child  BY <1>2, <2>1 DEF IsList
  <2>3. Edge(h, j, s[n])  BY <1>0, <1>1, <1>4, <2>2 DEF Edge
  <2> QED  BY <1>1, <2>3
<1>5. CASE n # 1
  <2>1. n - 1 \in 1..m /\ n - 1 # m /\ (n - 1) + 1 = n  BY <1>1, <1>3, <1>5
  <2>2. s[n] = h[s[n - 1]].next  BY <1>2, <2>1 DEF IsList
  <2>3. s[n - 1] \in S  BY <1>1, <1>3, <2>1 DEF Closed
  <2>4. Edge(h, s[n - 1], s[n])  BY <1>0, <1>1, <2>2 DEF Edge
  <2> QED  BY <1>1, <2>3, <2>4
<1> QED  BY <1>4, <1>5

\* An item is not under one of its subitems.
LEMMA NotUnderItself ==
  ASSUME NEW h, NEW R, NEW par, Linked(h, R, par), NEW a \in Live(h), NEW n \in DOMAIN ForestOf(h)[a]
  PROVE  a \notin Forest!Tree(ForestOf(h), ForestOf(h)[a][n])
<1> DEFINE i == ForestOf(h)[a][n]  T == Forest!Tree(ForestOf(h), i)
<1> SUFFICES ASSUME a \in T PROVE FALSE  OBVIOUS
<1>0. i \in Live(h) /\ Live(h) \in SUBSET Items /\ Closed(ForestOf(h), Live(h))  BY ForestIs
<1>1. i \in T /\ T \subseteq Live(h) /\ Closed(ForestOf(h), T)  BY <1>0, TreeIs
<1>2. \A k \in T : k # i => \E j \in T : \E m \in DOMAIN ForestOf(h)[j] : ForestOf(h)[j][m] = k
  BY <1>0, TreeFrom
<1> HIDE DEF T
<1>3. ASSUME NEW k \in T  PROVE \E l \in T : Edge(h, l, k)
  <2>1. PICK j \in T : \E m \in DOMAIN ForestOf(h)[j] : ForestOf(h)[j][m] = k  BY <1>2
  <2>2. PICK m \in DOMAIN ForestOf(h)[j] : ForestOf(h)[j][m] = k  BY <2>1
  <2> QED  BY <1>1, <2>2, SubitemFrom
<1>4. T = {}  BY <1>1, <1>3 DEF Linked, Grounded
<1> QED  BY <1>1, <1>4

\* The tree under what is in no list is what it owns.
LEMMA TreeIsOwned ==
  ASSUME NEW h, NEW R, NEW par, Linked(h, R, par), NEW i \in R
  PROVE  Forest!Tree(ForestOf(h), i) = Owned(h, i)
<1> DEFINE K == ForestOf(h)  T == Forest!Tree(K, i)
<1>0. /\ h \in [Items -> Item] /\ NoItem \notin Items /\ i \in Live(h) /\ i \in Items
      /\ Live(h) \in SUBSET Items /\ Closed(K, Live(h)) /\ h[i].next = NoItem
  BY CJsonTreeAssumption, LiveIs, ForestIs DEF Linked, Apart
<1>1. i \in T /\ T \subseteq Live(h) /\ Closed(K, T) /\ \A C : i \in C /\ Closed(K, C) => T \subseteq C
  BY <1>0, TreeIs
<1>2. \A k \in T : k # i => \E j \in T : \E m \in DOMAIN K[j] : K[j][m] = k
  BY <1>0, TreeFrom
<1>3. DOMAIN K = Live(h) /\ \A b \in Live(h) : K[b] = IF "ref" \in h[b].flags THEN <<>> ELSE Kids(h, b)
  BY ForestAt
<1>4. \A b \in Live(h) : \A n \in DOMAIN K[b] :
        "ref" \notin h[b].flags /\ K[b] = Kids(h, b) /\ n \in 1..GetArraySize(h, b)
  BY ForestIs
<1>5. \A b \in Live(h) : "ref" \notin h[b].flags =>
        IsList(h, b, Kids(h, b), GetArraySize(h, b)) /\ DOMAIN Kids(h, b) = 1..GetArraySize(h, b)
  <2> SUFFICES ASSUME NEW b \in Live(h), "ref" \notin h[b].flags
               PROVE IsList(h, b, Kids(h, b), GetArraySize(h, b)) /\ DOMAIN Kids(h, b) = 1..GetArraySize(h, b)
    OBVIOUS
  <2>1. IsList(h, b, Kids(h, b), GetArraySize(h, b))  BY KidsAre
  <2> QED  BY <2>1 DEF IsList
<1> HIDE DEF K, T
<1>6. Owned(h, i) \subseteq T
  <2>1. ASSUME NEW j \in T, NEW k \in Items, Edge(h, j, k)  PROVE k \in T
    <3>1. j \in Live(h) /\ k # NoItem  BY <1>0, <1>1
    <3>2. CASE h[j].next = k
      <4>1. j # i  BY <1>0, <3>1, <3>2
      <4>2. PICK p \in T : \E n \in DOMAIN K[p] : K[p][n] = j  BY <1>2, <4>1
      <4>3. PICK n \in DOMAIN K[p] : K[p][n] = j  BY <4>2
      <4> DEFINE s == Kids(h, p)  m == GetArraySize(h, p)
      <4>4. p \in Live(h) /\ "ref" \notin h[p].flags /\ K[p] = s /\ n \in 1..m  BY <1>1, <1>4, <4>3
      <4>5. IsList(h, p, s, m) /\ DOMAIN s = 1..m  BY <1>5, <4>4
      <4> HIDE DEF s, m
      <4>6. m \in Nat  BY <4>5 DEF IsList
      <4>7. n # m  BY <3>1, <3>2, <4>3, <4>4, <4>5 DEF IsList
      <4>8. n + 1 \in 1..m /\ s[n + 1] = k  BY <3>2, <4>3, <4>4, <4>5, <4>6, <4>7 DEF IsList
      <4> QED  BY <1>1, <4>4, <4>5, <4>8 DEF Closed
    <3>3. CASE "ref" \notin h[j].flags /\ h[j].child = k
      <4> DEFINE s == Kids(h, j)  m == GetArraySize(h, j)
      <4>1. K[j] = s  BY <1>3, <3>1, <3>3
      <4>2. IsList(h, j, s, m) /\ DOMAIN s = 1..m  BY <1>5, <3>1, <3>3
      <4> HIDE DEF s, m
      <4>3. m \in Nat /\ m # 0  BY <3>1, <3>3, <4>2 DEF IsList
      <4>4. 1 \in 1..m /\ s[1] = k  BY <3>3, <4>2, <4>3 DEF IsList
      <4> QED  BY <1>1, <4>1, <4>2, <4>4 DEF Closed
    <3> QED  BY <2>1, <3>2, <3>3 DEF Edge
  <2> QED  BY <1>0, <1>1, <2>1, OwnedLeast
<1>7. T \subseteq Owned(h, i)
  <2> DEFINE O == Owned(h, i)
  <2>1. i \in O /\ O \subseteq Items /\ \A j \in O, k \in Items : Edge(h, j, k) => k \in O  BY <1>0, OwnedIs
  <2>2. O \subseteq Live(h)  BY <1>0, OwnedAreLive
  <2> HIDE DEF O
  <2>3. ASSUME NEW j \in O, NEW n \in DOMAIN K[j]  PROVE K[j][n] \in O
    <3> DEFINE s == Kids(h, j)  m == GetArraySize(h, j)  G == {k \in Nat : k \in 1..m => s[k] \in O}
    <3>1. "ref" \notin h[j].flags /\ K[j] = s /\ n \in 1..m /\ j \in Live(h)  BY <1>4, <2>2
    <3>2. IsList(h, j, s, m)  BY <1>5, <3>1
    <3> HIDE DEF s, m
    <3>3. m \in Nat /\ s \in [1..m -> Items]  BY <3>2 DEF IsList
    <3>4. 0 \in G  BY <3>3
    <3>5. ASSUME NEW k \in 0..m, k \in G, k < m  PROVE k + 1 \in G
      <4>1. k \in Nat /\ k + 1 \in Nat /\ k + 1 \in 1..m /\ s[k + 1] \in Items /\ s[k + 1] # NoItem
        BY <1>0, <3>3, <3>5
      <4>2. CASE k = 0
        <5>1. m # 0 /\ s[k + 1] = h[j].child  BY <3>2, <3>3, <3>5, <4>2 DEF IsList
        <5>2. Edge(h, j, s[k + 1])  BY <3>1, <4>1, <5>1 DEF Edge
        <5> QED  BY <2>1, <4>1, <5>2
      <4>3. CASE k # 0
        <5>1. k \in 1..m /\ k # m /\ s[k] \in O  BY <3>3, <3>5, <4>1, <4>3
        <5>2. s[k + 1] = h[s[k]].next  BY <3>2, <5>1 DEF IsList
        <5>3. Edge(h, s[k], s[k + 1])  BY <4>1, <5>2 DEF Edge
        <5> QED  BY <2>1, <4>1, <5>1, <5>3
      <4> QED  BY <4>2, <4>3
    <3> HIDE DEF G
    <3>6. \A k \in 0..m : k \in G  BY <3>3, <3>4, <3>5, UpTo
    <3>7. n \in 0..m /\ n \in Nat  BY <3>1, <3>3
    <3>8. s[n] \in O  BY <3>1, <3>6, <3>7 DEF G
    <3> QED  BY <3>1, <3>8
  <2>4. Closed(K, O)  BY <2>3 DEF Closed
  <2> QED  BY <1>1, <2>1, <2>4 DEF O
<1> QED  BY <1>6, <1>7 DEF T, K

\* The sequences that the operations on lists make, place by place.
LEMMA InsertAtIs ==
  ASSUME NEW s \in Seq(Items), NEW k \in 1..Len(s) + 1, NEW e \in Items
  PROVE  LET t == Forest!InsertAt(s, k, e)
         IN  /\ t \in [1..Len(s) + 1 -> Items]
             /\ \A j \in 1..Len(s) + 1 : t[j] = IF j < k THEN s[j] ELSE IF j = k THEN e ELSE s[j - 1]
<1> DEFINE A == SubSeq(s, 1, k - 1)  B == A \o <<e>>  C == SubSeq(s, k, Len(s))  m == Len(s)
<1>0. m \in Nat /\ k \in 1..m + 1 /\ s \in [1..m -> Items]  OBVIOUS
<1>1. A \in Seq(Items) /\ Len(A) = k - 1 /\ \A j \in 1..k - 1 : A[j] = s[j]
  OBVIOUS
<1>2. C \in Seq(Items) /\ Len(C) = m - k + 1 /\ \A j \in 1..m - k + 1 : C[j] = s[k + j - 1]
  OBVIOUS
<1>3. Forest!InsertAt(s, k, e) = B \o C  BY DEF Forest!InsertAt
<1> HIDE DEF A, C, m
<1>4. B \in Seq(Items) /\ Len(B) = k /\ (\A j \in 1..k - 1 : B[j] = s[j]) /\ B[k] = e
  BY <1>0, <1>1
<1> HIDE DEF B
<1> DEFINE t == B \o C
<1>5. t \in Seq(Items) /\ Len(t) = m + 1 /\ (\A j \in 1..k : t[j] = B[j])
  <2>1. t \in Seq(Items) /\ Len(t) = Len(B) + Len(C)
    <3>1. B \in Seq(Items) /\ C \in Seq(Items)  BY <1>2, <1>4
    <3> QED  BY <3>1, ConcatProperties
  <2>2. Len(B) + Len(C) = m + 1  BY <1>0, <1>2, <1>4
  <2>3. ASSUME NEW j \in 1..k  PROVE t[j] = B[j]
    <3>1. j \in 1..Len(B) + Len(C) /\ j <= Len(B)  BY <1>0, <1>2, <1>4
    <3> QED  BY <1>2, <1>4, <3>1
  <2> HIDE DEF t
  <2> QED  BY <2>1, <2>2, <2>3
<1>6. \A j \in k + 1..m + 1 : t[j] = C[j - k]
  <2> TAKE j \in k + 1..m + 1
  <2>1. j \in 1..Len(B) + Len(C) /\ ~(j <= Len(B))  BY <1>0, <1>2, <1>4
  <2>2. t[j] = C[j - Len(B)]  BY <1>2, <1>4, <2>1
  <2> QED  BY <1>4, <2>2
<1>7. \A j \in k + 1..m + 1 : t[j] = s[j - 1]
  <2> TAKE j \in k + 1..m + 1
  <2>1. j - k \in 1..m - k + 1 /\ k + (j - k) - 1 = j - 1  BY <1>0
  <2> QED  BY <1>2, <1>6, <2>1
<1> HIDE DEF t
<1>8. t \in [1..m + 1 -> Items]  BY <1>5
<1>9. \A j \in 1..m + 1 : t[j] = IF j < k THEN s[j] ELSE IF j = k THEN e ELSE s[j - 1]
  BY <1>0, <1>4, <1>5, <1>7
<1> QED  BY <1>3, <1>8, <1>9 DEF m, t

LEMMA RemoveAtIs ==
  ASSUME NEW s \in Seq(Items), NEW k \in 1..Len(s)
  PROVE  LET t == Forest!RemoveAt(s, k)
         IN  /\ t \in [1..Len(s) - 1 -> Items]
             /\ \A j \in 1..Len(s) - 1 : t[j] = IF j < k THEN s[j] ELSE s[j + 1]
<1> DEFINE A == SubSeq(s, 1, k - 1)  C == SubSeq(s, k + 1, Len(s))  m == Len(s)
<1>0. m \in Nat /\ k \in 1..m /\ s \in [1..m -> Items]  OBVIOUS
<1>1. A \in Seq(Items) /\ Len(A) = k - 1 /\ \A j \in 1..k - 1 : A[j] = s[j]
  OBVIOUS
<1>2. C \in Seq(Items) /\ Len(C) = m - k /\ \A j \in 1..m - k : C[j] = s[k + 1 + j - 1]
  OBVIOUS
<1>3. Forest!RemoveAt(s, k) = A \o C  BY DEF Forest!RemoveAt
<1> HIDE DEF A, C, m
<1> DEFINE t == A \o C
<1>4. t \in Seq(Items) /\ Len(t) = m - 1 /\ \A j \in 1..k - 1 : t[j] = A[j]
  <2>1. t \in Seq(Items) /\ Len(t) = Len(A) + Len(C)
    <3>1. A \in Seq(Items) /\ C \in Seq(Items)  BY <1>1, <1>2
    <3> QED  BY <3>1, ConcatProperties
  <2>2. Len(A) + Len(C) = m - 1  BY <1>0, <1>1, <1>2
  <2>3. ASSUME NEW j \in 1..k - 1  PROVE t[j] = A[j]
    <3>1. j \in 1..Len(A) + Len(C) /\ j <= Len(A)  BY <1>0, <1>1, <1>2
    <3> QED  BY <1>1, <1>2, <3>1
  <2> HIDE DEF t
  <2> QED  BY <2>1, <2>2, <2>3
<1>5. \A j \in k..m - 1 : t[j] = C[j - (k - 1)]
  <2> TAKE j \in k..m - 1
  <2>1. j \in 1..Len(A) + Len(C) /\ ~(j <= Len(A))  BY <1>0, <1>1, <1>2
  <2>2. t[j] = C[j - Len(A)]  BY <1>1, <1>2, <2>1
  <2> QED  BY <1>1, <2>2
<1>6. \A j \in k..m - 1 : t[j] = s[j + 1]
  <2> TAKE j \in k..m - 1
  <2>1. j - (k - 1) \in 1..m - k /\ k + 1 + (j - (k - 1)) - 1 = j + 1  BY <1>0
  <2> QED  BY <1>2, <1>5, <2>1
<1> HIDE DEF t
<1>7. t \in [1..m - 1 -> Items]  BY <1>4
<1>8. \A j \in 1..m - 1 : t[j] = IF j < k THEN s[j] ELSE s[j + 1]
  BY <1>0, <1>1, <1>4, <1>6
<1> QED  BY <1>3, <1>7, <1>8 DEF m, t

LEMMA ReplaceAtIs ==
  ASSUME NEW s \in Seq(Items), NEW k \in 1..Len(s), NEW e \in Items
  PROVE  LET t == Forest!ReplaceAt(s, k, e)
         IN  /\ t \in [1..Len(s) -> Items]
             /\ \A j \in 1..Len(s) : t[j] = IF j = k THEN e ELSE s[j]
<1>1. s \in [1..Len(s) -> Items]  OBVIOUS
<1> QED  BY <1>1 DEF Forest!ReplaceAt

\* Appending is inserting at the end.
LEMMA AppendIs ==
  ASSUME NEW s \in Seq(Items), NEW e \in Items
  PROVE  Append(s, e) = Forest!InsertAt(s, Len(s) + 1, e)
<1> DEFINE t == Forest!InsertAt(s, Len(s) + 1, e)  u == Append(s, e)  m == Len(s)
<1>1. m \in Nat /\ m + 1 \in 1..m + 1  OBVIOUS
<1>2. t \in [1..m + 1 -> Items] /\ \A j \in 1..m + 1 : t[j] = IF j < m + 1 THEN s[j] ELSE e
  BY <1>1, InsertAtIs
<1>3. u \in [1..m + 1 -> Items] /\ \A j \in 1..m + 1 : u[j] = IF j < m + 1 THEN s[j] ELSE e
  <2>1. u \in Seq(Items) /\ Len(u) = m + 1  OBVIOUS
  <2>2. ASSUME NEW j \in 1..m + 1  PROVE u[j] = IF j < m + 1 THEN s[j] ELSE e
    <3>1. CASE j = m + 1  BY <3>1
    <3>2. CASE j < m + 1
      <4>1. j \in 1..m  BY <3>2
      <4> QED  BY <3>2, <4>1
    <3> QED  BY <3>1, <3>2
  <2> HIDE DEF u
  <2> QED  BY <2>1, <2>2
<1> HIDE DEF t, u
<1>4. t = [j \in 1..m + 1 |-> t[j]] /\ u = [j \in 1..m + 1 |-> u[j]]  BY <1>2, <1>3
<1>5. [j \in 1..m + 1 |-> t[j]] = [j \in 1..m + 1 |-> u[j]]  BY <1>2, <1>3
<1>6. t = u  BY <1>4, <1>5
<1> QED  BY <1>6 DEF t, u

\* The list of a is another, the rest of the forest K is what it was.
OneList(K, a, t) == [K EXCEPT ![a] = t]

LEMMA OneListIs ==
  ASSUME NEW K, NEW D, DOMAIN K = D, NEW a \in D, NEW t, NEW new
  PROVE  /\ DOMAIN OneList(K, a, t) = D /\ OneList(K, a, t)[a] = t
         /\ \A b \in D : b # a => OneList(K, a, t)[b] = K[b]
         /\ new = [b \in D |-> new[b]] /\ new[a] = t /\ (\A b \in D : b # a => new[b] = K[b])
              => new = OneList(K, a, t)
<1> DEFINE L == OneList(K, a, t)
<1>1. L = [b \in D |-> IF b = a THEN t ELSE K[b]]  BY DEF OneList
<1> HIDE DEF L
<1>2. ASSUME new = [b \in D |-> new[b]], new[a] = t, \A b \in D : b # a => new[b] = K[b]
      PROVE  new = L
  <2>1. \A b \in D : new[b] = IF b = a THEN t ELSE K[b]  BY <1>2
  <2>2. [b \in D |-> new[b]] = [b \in D |-> IF b = a THEN t ELSE K[b]]  BY <2>1
  <2> QED  BY <1>1, <1>2, <2>2
<1>3. DOMAIN L = D /\ L[a] = t /\ \A b \in D : b # a => L[b] = K[b]  BY <1>1
<1> QED  BY <1>2, <1>3 DEF L

LEMMA ForestFunction ==
  ASSUME NEW h
  PROVE  ForestOf(h) = [b \in Live(h) |-> ForestOf(h)[b]]
BY DEF ForestOf

\* Forests are the same that have the same items, with the same lists.
LEMMA SameForest ==
  ASSUME NEW g, NEW h, Live(g) = Live(h), \A b \in Live(h) : ForestOf(g)[b] = ForestOf(h)[b]
  PROVE  ForestOf(g) = ForestOf(h)
<1> DEFINE G == ForestOf(g)  H == ForestOf(h)
<1>1. G = [b \in Live(h) |-> G[b]] /\ H = [b \in Live(h) |-> H[b]]  BY ForestFunction
<1>2. \A b \in Live(h) : G[b] = H[b]  OBVIOUS
<1> HIDE DEF G, H
<1>3. [b \in Live(h) |-> G[b]] = [b \in Live(h) |-> H[b]]  BY <1>2
<1>4. G = H  BY <1>1, <1>3
<1> QED  BY <1>4 DEF G, H

\* An item whose child is kept, and the next of its subitems, has the list that it had.
LEMMA ListKept ==
  ASSUME NEW h, NEW R, NEW par, Linked(h, R, par), NEW g, NEW Q, NEW own, Linked(g, Q, own),
         NEW b, b \in Live(h), b \in Live(g), "ref" \in g[b].flags <=> "ref" \in h[b].flags,
         "ref" \notin h[b].flags => /\ g[b].child = h[b].child
                                    /\ \A j \in Live(h) : par[j] = b => g[j].next = h[j].next
  PROVE  ForestOf(g)[b] = ForestOf(h)[b]
<1>1. CASE "ref" \in h[b].flags  BY <1>1, ForestAt
<1>2. CASE "ref" \notin h[b].flags
  <2>1. Kids(g, b) = Kids(h, b)  BY <1>2, KidsKept
  <2> QED  BY <1>2, <2>1, ForestAt
<1> QED  BY <1>1, <1>2

\* A call that changes the pointers of one list.
LEMMA OneListChanges ==
  ASSUME NEW h, NEW R, NEW par, Linked(h, R, par), NEW g, NEW Q, NEW own, Linked(g, Q, own),
         SameItems(g, h), NEW a \in Live(h), "ref" \notin h[a].flags,
         NEW t, NEW m, IsList(g, a, t, m),
         \A b \in Live(h) : b # a => g[b].child = h[b].child,
         \A j \in Live(h) : par[j] # a /\ par[j] # NoItem => g[j].next = h[j].next
  PROVE  ForestOf(g) = OneList(ForestOf(h), a, t)
<1> DEFINE G == ForestOf(g)  H == ForestOf(h)
<1>0. /\ h \in [Items -> Item] /\ g \in [Items -> Item] /\ Live(h) \subseteq Items /\ NoItem \notin Items
      /\ Live(g) = Live(h)
  BY CJsonTreeAssumption, LiveIs, SameLive DEF Linked
<1>1. \A b \in Live(h) : g[b].flags = h[b].flags  BY <1>0 DEF SameItems
<1>2. G[a] = t
  <2>1. "ref" \notin g[a].flags /\ a \in Live(g)  BY <1>0, <1>1
  <2>2. Kids(g, a) = t  BY <2>1, KidsIs
  <2> QED  BY <2>1, <2>2, ForestAt
<1>3. ASSUME NEW b \in Live(h), b # a  PROVE G[b] = H[b]
  <2>1. b # NoItem /\ b \in Live(g) /\ g[b].child = h[b].child  BY <1>0, <1>3
  <2>2. \A j \in Live(h) : par[j] = b => g[j].next = h[j].next  BY <1>3, <2>1
  <2>3. "ref" \in g[b].flags <=> "ref" \in h[b].flags  BY <1>1
  <2> QED  BY <2>1, <2>2, <2>3, ListKept
<1>4. DOMAIN H = Live(h) /\ G = [b \in Live(h) |-> G[b]]  BY <1>0, ForestAt, ForestFunction
<1> HIDE DEF G, H
<1>5. G = OneList(H, a, t)  BY <1>2, <1>3, <1>4, OneListIs
<1> QED  BY <1>5 DEF G, H

\* What points back in a list.
LEMMA PrevIs ==
  ASSUME NEW h, NEW R, NEW par, Linked(h, R, par), NEW a \in Live(h), "ref" \notin h[a].flags,
         NEW k \in 1..GetArraySize(h, a)
  PROVE  h[Kids(h, a)[k]].prev = Kids(h, a)[IF k = 1 THEN GetArraySize(h, a) ELSE k - 1]
<1> DEFINE m == GetArraySize(h, a)  s == Kids(h, a)
<1>1. m \in Nat /\ \A n \in 1..m : s[n] = GetArrayItem(h, a, n - 1)
  <2>1. m \in Nat  BY ListIs
  <2>2. \A n \in 1..m : s[n] = GetArrayItem(h, a, n - 1)  BY KidsAre
  <2> QED  BY <2>1, <2>2
<1>2. /\ \A n \in 0..m - 1 : n # 0 => h[GetArrayItem(h, a, n)].prev = GetArrayItem(h, a, n - 1)
      /\ m # 0 => h[GetArrayItem(h, a, 0)].prev = GetArrayItem(h, a, m - 1)
  BY ListIs
<1> HIDE DEF m, s
<1>3. k \in 1..m  BY DEF m
<1>4. CASE k = 1
  <2>1. m # 0 /\ m \in 1..m /\ 1 \in 1..m /\ 1 - 1 = 0  BY <1>1, <1>3
  <2>2. s[1] = GetArrayItem(h, a, 0) /\ s[m] = GetArrayItem(h, a, m - 1)  BY <1>1, <2>1
  <2> QED  BY <1>2, <1>4, <2>1, <2>2 DEF m, s
<1>5. CASE k # 1
  <2>1. k - 1 \in 0..m - 1 /\ k - 1 # 0 /\ k - 1 \in 1..m  BY <1>1, <1>3, <1>5
  <2>2. s[k] = GetArrayItem(h, a, k - 1) /\ s[k - 1] = GetArrayItem(h, a, k - 1 - 1)  BY <1>1, <1>3, <2>1
  <2>3. h[s[k]].prev = s[k - 1]  BY <1>2, <2>1, <2>2
  <2> QED  BY <1>5, <2>3 DEF m, s
<1> QED  BY <1>4, <1>5

\* What the calls make of a list: Appended, Inserted, Detached and Replaced keep it linked,
\* and it is the list that the forest is to have.
LEMMA ForestAppended ==
  ASSUME NEW h, NEW R, NEW par, Linked(h, R, par), NEW i \in R,
         NEW a \in Live(h), "ref" \notin h[a].flags, a \notin Owned(h, i)
  PROVE  LET s == Kids(h, a)
         IN  ForestOf(add_item_to_array(h, a, i)) = OneList(ForestOf(h), a, Forest!InsertAt(s, Len(s) + 1, i))
<1> DEFINE s == Kids(h, a)  m == GetArraySize(h, a)  t == Forest!InsertAt(s, Len(s) + 1, i)
           g == add_item_to_array(h, a, i)
<1>0. /\ h \in [Items -> Item] /\ NoItem \notin Items /\ Live(h) \subseteq Items /\ i \in Items /\ a \in Items
      /\ par[i] = NoItem /\ h[i].next = NoItem
  BY CJsonTreeAssumption, LiveIs DEF Linked, Apart
<1>1. /\ IsList(h, a, s, m) /\ Len(s) = m /\ s \in Seq(Items)
      /\ \A n \in 1..m : s[n] \in Live(h) /\ par[s[n]] = a
      /\ \A k, n \in 1..m : k # n => s[k] # s[n]
  BY KidsAre
<1>2. Linked(g, R \ {i}, [par EXCEPT ![i] = a]) /\ SameItems(g, h)  BY Appended
<1>3. i \in Owned(h, i) /\ a # i  BY <1>0, OwnedIs
<1>4. m # 0 => h[s[1]].prev = s[m]
  <2> SUFFICES ASSUME m # 0 PROVE h[s[1]].prev = s[m]  OBVIOUS
  <2>1. 1 \in 1..m  BY <1>1 DEF IsList
  <2> QED  BY <2>1, PrevIs
<1>5. h[a].child = NoItem =>
         /\ g \in [Items -> Item]
         /\ \A j \in Items : /\ g[j].next = IF j = i THEN NoItem ELSE h[j].next
                             /\ g[j].child = IF j = a THEN i ELSE h[j].child
  BY <1>0, <1>3, AppendFirst
<1>6. ASSUME NEW c \in Items, NEW l \in Items, h[a].child = c, h[c].prev = l
      PROVE  /\ g \in [Items -> Item]
             /\ \A j \in Items : /\ g[j].next = IF j = l THEN i ELSE h[j].next
                                 /\ g[j].child = h[j].child
  BY <1>0, <1>3, <1>6, AppendAfter
<1> HIDE DEF s, m, g
<1>7. m \in Nat /\ s \in [1..m -> Items]  BY <1>1 DEF IsList
<1>8. t \in [1..m + 1 -> Items] /\ \A j \in 1..m + 1 : t[j] = IF j < m + 1 THEN s[j] ELSE i
  <2>1. Len(s) + 1 \in 1..Len(s) + 1 /\ s \in Seq(Items)  BY <1>1, <1>7
  <2>2. /\ t \in [1..Len(s) + 1 -> Items]
        /\ \A j \in 1..Len(s) + 1 :
             t[j] = IF j < Len(s) + 1 THEN s[j] ELSE IF j = Len(s) + 1 THEN i ELSE s[j - 1]
    BY <1>0, <2>1, InsertAtIs
  <2> HIDE DEF t
  <2> QED  BY <1>1, <1>7, <2>2
<1> HIDE DEF t
<1>9. /\ IsList(g, a, t, m + 1)
      /\ \A b \in Live(h) : b # a => g[b].child = h[b].child
      /\ \A j \in Live(h) : par[j] # a /\ par[j] # NoItem => g[j].next = h[j].next
  <2>1. m + 1 \in Nat /\ m + 1 # 0 /\ 1 \in 1..m + 1 /\ m + 1 \in 1..m + 1  BY <1>7
  <2>2. CASE m = 0
    <3>1. h[a].child = NoItem  BY <1>1, <2>2 DEF IsList
    <3>2. t[1] = i /\ t[m + 1] = i  BY <1>8, <2>1, <2>2
    <3>3. g[a].child = i /\ g[i].next = NoItem  BY <1>0, <1>5, <3>1
    <3>4. IsList(g, a, t, m + 1)  BY <1>8, <2>1, <2>2, <3>2, <3>3 DEF IsList
    <3>5. \A j \in Live(h) : par[j] # NoItem => j # i  BY <1>0
    <3> QED  BY <1>0, <1>5, <3>1, <3>4, <3>5
  <2>3. CASE m # 0
    <3>1. 1 \in 1..m /\ m \in 1..m /\ s[1] = h[a].child /\ h[s[1]].prev = s[m] /\ s[1] \in Items /\ s[m] \in Items
          /\ par[s[m]] = a /\ h[s[m]].next = NoItem
      BY <1>1, <1>4, <1>7, <2>3 DEF IsList
    <3>2. \A j \in Items : g[j].next = (IF j = s[m] THEN i ELSE h[j].next) /\ g[j].child = h[j].child
      BY <1>6, <3>1
    <3>3. t[1] = s[1] /\ t[m + 1] = i /\ t[m] = s[m]  BY <1>7, <1>8, <2>1, <3>1
    <3>4. g[t[m + 1]].next = NoItem
      <4>1. i # s[m]  BY <1>0, <3>1
      <4> QED  BY <1>0, <3>2, <3>3, <4>1
    <3>5. ASSUME NEW n \in 1..m + 1, n # m + 1  PROVE t[n + 1] = g[t[n]].next
      <4>1. n \in 1..m /\ t[n] = s[n] /\ n + 1 \in 1..m + 1  BY <1>7, <1>8, <3>5
      <4>2. CASE n = m
        <5>1. t[n + 1] = i  BY <3>3, <4>2
        <5> QED  BY <3>1, <3>2, <4>1, <4>2, <5>1
      <4>3. CASE n # m
        <5>1. n + 1 < m + 1 /\ s[n] # s[m] /\ s[n] \in Items  BY <1>1, <1>7, <3>1, <4>1, <4>3
        <5>2. t[n + 1] = s[n + 1] /\ s[n + 1] = h[s[n]].next  BY <1>1, <1>8, <4>1, <4>3, <5>1 DEF IsList
        <5> QED  BY <3>2, <4>1, <5>1, <5>2
      <4> QED  BY <4>2, <4>3
    <3>6. IsList(g, a, t, m + 1)
      <4>1. g[a].child = t[1]  BY <1>0, <3>1, <3>2, <3>3
      <4> QED  BY <1>8, <2>1, <3>4, <3>5, <4>1 DEF IsList
    <3> QED  BY <1>0, <3>1, <3>2, <3>6
  <2> QED  BY <2>2, <2>3
<1>10. ForestOf(g) = OneList(ForestOf(h), a, t)  BY <1>2, <1>9, OneListChanges
<1> QED  BY <1>10 DEF g, t, s

LEMMA ForestInserted ==
  ASSUME NEW h, NEW R, NEW par, Linked(h, R, par), NEW i \in R,
         NEW a \in Live(h), "ref" \notin h[a].flags, a \notin Owned(h, i), NEW k \in 1..GetArraySize(h, a)
  PROVE  ForestOf(InsertBefore(h, a, Kids(h, a)[k], i)) =
           OneList(ForestOf(h), a, Forest!InsertAt(Kids(h, a), k, i))
<1> DEFINE s == Kids(h, a)  m == GetArraySize(h, a)  t == Forest!InsertAt(s, k, i)
           g == InsertBefore(h, a, s[k], i)
<1>0. /\ h \in [Items -> Item] /\ NoItem \notin Items /\ Live(h) \subseteq Items /\ i \in Items /\ a \in Items
      /\ par[i] = NoItem
  BY CJsonTreeAssumption, LiveIs DEF Linked, Apart
<1>1. /\ IsList(h, a, s, m) /\ Len(s) = m /\ s \in Seq(Items)
      /\ \A n \in 1..m : s[n] \in Live(h) /\ par[s[n]] = a
      /\ \A l, n \in 1..m : l # n => s[l] # s[n]
  <2>1. IsList(h, a, s, m) /\ Len(s) = m /\ s \in Seq(Items)  BY KidsAre
  <2>2. \A n \in 1..m : s[n] \in Live(h) /\ par[s[n]] = a  BY KidsAre
  <2>3. \A l, n \in 1..m : l # n => s[l] # s[n]  BY KidsAre
  <2> QED  BY <2>1, <2>2, <2>3
<1>2. Linked(g, R \ {i}, [par EXCEPT ![i] = a]) /\ SameItems(g, h)
  <2>1. s[k] \in Live(h) /\ par[s[k]] = a  BY <1>1
  <2> QED  BY <2>1, Inserted
<1>3. i \in Owned(h, i) /\ a # i  BY <1>0, OwnedIs
<1>4. h[s[k]].prev = s[IF k = 1 THEN m ELSE k - 1]  BY PrevIs
<1>5. ASSUME NEW c \in Items, NEW n \in Items, NEW q \in Items, n = s[k], h[a].child = c, h[n].prev = q, i # n, i # q
      PROVE  \A j \in Items : /\ g[j].next = IF j = i THEN n ELSE IF n # c /\ j = q THEN i ELSE h[j].next
                              /\ g[j].child = IF n = c /\ j = a THEN i ELSE h[j].child
  BY <1>0, <1>3, <1>5, Inserting
<1>6. k \in 1..m  OBVIOUS
<1> HIDE DEF s, m, g
<1>7. m \in Nat /\ s \in [1..m -> Items] /\ m # 0 /\ 1 \in 1..m /\ m \in 1..m  BY <1>1, <1>6 DEF IsList
<1> DEFINE q == s[IF k = 1 THEN m ELSE k - 1]
<1>8. t \in [1..m + 1 -> Items] /\ \A j \in 1..m + 1 : t[j] = IF j < k THEN s[j] ELSE IF j = k THEN i ELSE s[j - 1]
  <2>1. k \in 1..Len(s) + 1 /\ s \in Seq(Items)  BY <1>1, <1>6, <1>7
  <2>2. /\ t \in [1..Len(s) + 1 -> Items]
        /\ \A j \in 1..Len(s) + 1 : t[j] = IF j < k THEN s[j] ELSE IF j = k THEN i ELSE s[j - 1]
    BY <1>0, <2>1, InsertAtIs
  <2> HIDE DEF t
  <2> QED  BY <1>1, <2>2
<1> HIDE DEF t
<1>9. q \in Items /\ q \in Live(h) /\ par[q] = a
  <2>1. (IF k = 1 THEN m ELSE k - 1) \in 1..m  BY <1>6, <1>7
  <2> QED  BY <1>0, <1>1, <2>1
<1>10. s[1] = h[a].child /\ h[s[m]].next = NoItem /\ \A n \in 1..m : n # m => s[n + 1] = h[s[n]].next
  BY <1>1, <1>7 DEF IsList
<1>11. s[k] = s[1] <=> k = 1  BY <1>1, <1>6, <1>7
<1>12. \A j \in Items : /\ g[j].next = IF j = i THEN s[k] ELSE IF k # 1 /\ j = q THEN i ELSE h[j].next
                        /\ g[j].child = IF k = 1 /\ j = a THEN i ELSE h[j].child
  <2>1. i # s[k] /\ i # q /\ s[1] \in Items /\ s[k] \in Items  BY <1>0, <1>1, <1>6, <1>7, <1>9
  <2> QED  BY <1>4, <1>5, <1>9, <1>10, <1>11, <2>1
<1>13. IsList(g, a, t, m + 1)
  <2>1. m + 1 \in Nat /\ m + 1 # 0 /\ 1 \in 1..m + 1 /\ m + 1 \in 1..m + 1 /\ ~(m + 1 < k) /\ m + 1 # k
    BY <1>6, <1>7
  <2>2. t[1] = g[a].child
    <3>1. CASE k = 1  BY <1>0, <1>8, <1>12, <2>1, <3>1
    <3>2. CASE k # 1
      <4>1. 1 < k  BY <1>6, <1>7, <3>2
      <4> QED  BY <1>0, <1>8, <1>10, <1>12, <2>1, <3>2, <4>1
    <3> QED  BY <3>1, <3>2
  <2>3. g[t[m + 1]].next = NoItem
    <3>1. t[m + 1] = s[m]
      <4>1. t[m + 1] = s[(m + 1) - 1]  BY <1>8, <2>1
      <4>2. (m + 1) - 1 = m  BY <1>7
      <4> QED  BY <4>1, <4>2
    <3>2. s[m] # i /\ s[m] \in Items  BY <1>0, <1>1, <1>7
    <3>3. k # 1 => s[m] # q
      <4> SUFFICES ASSUME k # 1 PROVE s[m] # s[k - 1]  OBVIOUS
      <4>1. k - 1 \in 1..m /\ k - 1 # m  BY <1>6, <1>7
      <4> QED  BY <1>1, <1>7, <4>1
    <3> QED  BY <1>10, <1>12, <3>1, <3>2, <3>3
  <2>4. ASSUME NEW n \in 1..m + 1, n # m + 1  PROVE t[n + 1] = g[t[n]].next
    <3>0. n \in 1..m /\ n + 1 \in 1..m + 1 /\ n \in Nat /\ k \in Nat  BY <1>6, <1>7, <2>4
    <3>1. CASE n = k
      <4>1. t[n] = i  BY <1>8, <3>1
      <4>2. ~(n + 1 < k) /\ n + 1 # k /\ (n + 1) - 1 = k  BY <3>0, <3>1
      <4>3. t[n + 1] = s[k]  BY <1>8, <3>0, <4>2
      <4> QED  BY <1>0, <1>12, <4>1, <4>3
    <3>2. CASE n < k
      <4>1. t[n] = s[n] /\ s[n] \in Items /\ s[n] # i /\ n # m /\ k # 1
        BY <1>0, <1>1, <1>6, <1>7, <1>8, <3>0, <3>2
      <4>2. CASE n + 1 = k
        <5>1. t[n + 1] = i  BY <1>8, <3>0, <4>2
        <5>2. q = s[n]
          <6>1. k - 1 = n  BY <3>0, <4>2
          <6> QED  BY <4>1, <6>1
        <5> QED  BY <1>12, <4>1, <5>1, <5>2
      <4>3. CASE n + 1 # k
        <5>1. n + 1 < k /\ k - 1 \in 1..m /\ k - 1 # n  BY <1>6, <1>7, <3>0, <3>2, <4>3
        <5>2. t[n + 1] = s[n + 1] /\ s[n + 1] = h[s[n]].next  BY <1>8, <1>10, <3>0, <4>1, <5>1
        <5>3. q # s[n]  BY <1>1, <3>0, <4>1, <5>1
        <5> QED  BY <1>12, <4>1, <5>2, <5>3
      <4> QED  BY <4>2, <4>3
    <3>3. CASE n > k
      <4>1. n - 1 \in 1..m /\ n - 1 # m /\ (n - 1) + 1 = n /\ (n + 1) - 1 = n /\ ~(n < k) /\ ~(n + 1 < k) /\ n + 1 # k /\ n # k
        BY <1>6, <1>7, <3>0, <3>3
      <4>2. t[n] = s[n - 1] /\ t[n + 1] = s[n] /\ s[n - 1] \in Items /\ s[n - 1] # i
        BY <1>0, <1>1, <1>7, <1>8, <3>0, <4>1
      <4>3. s[n] = h[s[n - 1]].next  BY <1>10, <4>1
      <4>4. k # 1 => q # s[n - 1]
        <5> SUFFICES ASSUME k # 1 PROVE s[k - 1] # s[n - 1]  OBVIOUS
        <5>1. k - 1 \in 1..m /\ k - 1 # n - 1  BY <1>6, <1>7, <3>0, <3>3
        <5> QED  BY <1>1, <4>1, <5>1
      <4> QED  BY <1>12, <4>2, <4>3, <4>4
    <3> QED  BY <3>0, <3>1, <3>2, <3>3
  <2> QED  BY <1>8, <2>1, <2>2, <2>3, <2>4 DEF IsList
<1>14. /\ \A b \in Live(h) : b # a => g[b].child = h[b].child
       /\ \A j \in Live(h) : par[j] # a /\ par[j] # NoItem => g[j].next = h[j].next
  BY <1>0, <1>9, <1>12
<1>15. ForestOf(g) = OneList(ForestOf(h), a, t)  BY <1>2, <1>13, <1>14, OneListChanges
<1> QED  BY <1>15 DEF g, t, s

LEMMA ForestDetached ==
  ASSUME NEW h, NEW R, NEW par, Linked(h, R, par), NEW a \in Live(h), "ref" \notin h[a].flags,
         NEW k \in 1..GetArraySize(h, a)
  PROVE  ForestOf(DetachItem(h, a, Kids(h, a)[k])) = OneList(ForestOf(h), a, Forest!RemoveAt(Kids(h, a), k))
<1> DEFINE s == Kids(h, a)  m == GetArraySize(h, a)  t == Forest!RemoveAt(s, k)  g == DetachItem(h, a, s[k])
<1>0. h \in [Items -> Item] /\ NoItem \notin Items /\ Live(h) \subseteq Items /\ a \in Items
  BY CJsonTreeAssumption, LiveIs DEF Linked
<1>1. /\ IsList(h, a, s, m) /\ Len(s) = m /\ s \in Seq(Items)
      /\ \A n \in 1..m : s[n] \in Live(h) /\ par[s[n]] = a
      /\ \A l, n \in 1..m : l # n => s[l] # s[n]
  <2>1. IsList(h, a, s, m) /\ Len(s) = m /\ s \in Seq(Items)  BY KidsAre
  <2>2. \A n \in 1..m : s[n] \in Live(h) /\ par[s[n]] = a  BY KidsAre
  <2>3. \A l, n \in 1..m : l # n => s[l] # s[n]  BY KidsAre
  <2> QED  BY <2>1, <2>2, <2>3
<1>2. Linked(g, R \cup {s[k]}, [par EXCEPT ![s[k]] = NoItem]) /\ SameItems(g, h)
  <2>1. s[k] \in Live(h) /\ par[s[k]] = a  BY <1>1
  <2> QED  BY <2>1, Detached
<1>3. h[s[k]].prev = s[IF k = 1 THEN m ELSE k - 1]  BY PrevIs
<1>4. ASSUME NEW i \in Items, i = s[k], NEW c \in Items, NEW q \in Items, NEW n \in Items \cup {NoItem},
             h[a].child = c, h[i].prev = q, h[i].next = n, c # i => q # i, n # i
      PROVE  \A j \in Items :
               /\ g[j].next = IF j = i THEN NoItem ELSE IF c # i /\ j = q THEN n ELSE h[j].next
               /\ g[j].child = IF c = i /\ j = a THEN n ELSE h[j].child
  BY <1>0, <1>4, Detaching
<1>5. k \in 1..m  OBVIOUS
<1> HIDE DEF s, m, g
<1>6. m \in Nat /\ s \in [1..m -> Items] /\ m # 0 /\ 1 \in 1..m /\ m \in 1..m  BY <1>1, <1>5 DEF IsList
<1> DEFINE i == s[k]  q == s[IF k = 1 THEN m ELSE k - 1]  n == h[i].next
<1>7. t \in [1..m - 1 -> Items] /\ \A j \in 1..m - 1 : t[j] = IF j < k THEN s[j] ELSE s[j + 1]
  <2>1. k \in 1..Len(s) /\ s \in Seq(Items)  BY <1>1, <1>5
  <2>2. /\ t \in [1..Len(s) - 1 -> Items]
        /\ \A j \in 1..Len(s) - 1 : t[j] = IF j < k THEN s[j] ELSE s[j + 1]
    BY <2>1, RemoveAtIs
  <2> HIDE DEF t
  <2> QED  BY <1>1, <2>2
<1> HIDE DEF t
<1>8. s[1] = h[a].child /\ h[s[m]].next = NoItem /\ \A l \in 1..m : l # m => s[l + 1] = h[s[l]].next
  BY <1>1, <1>6 DEF IsList
<1>9. s[k] = s[1] <=> k = 1  BY <1>1, <1>5, <1>6
<1>10. /\ k = m => n = NoItem
       /\ k # m => k + 1 \in 1..m /\ n = s[k + 1]
  BY <1>5, <1>6, <1>8
<1>11. /\ q \in Items /\ par[q] = a /\ i \in Items /\ par[i] = a /\ n \in Items \cup {NoItem} /\ n # i
       /\ k # 1 => q # i
  <2>1. (IF k = 1 THEN m ELSE k - 1) \in 1..m  BY <1>5, <1>6
  <2>2. q \in Items /\ par[q] = a /\ i \in Items /\ par[i] = a  BY <1>0, <1>1, <1>5, <2>1
  <2>3. n \in Items \cup {NoItem} /\ n # i
    <3>1. CASE k = m  BY <1>0, <1>10, <2>2, <3>1
    <3>2. CASE k # m
      <4>1. k + 1 \in 1..m /\ k + 1 # k /\ n = s[k + 1]  BY <1>5, <1>6, <1>10, <3>2
      <4> QED  BY <1>1, <1>5, <1>6, <4>1
    <3> QED  BY <3>1, <3>2
  <2>4. k # 1 => q # i
    <3> SUFFICES ASSUME k # 1 PROVE s[k - 1] # s[k]  OBVIOUS
    <3>1. k - 1 \in 1..m /\ k - 1 # k  BY <1>5, <1>6
    <3> QED  BY <1>1, <1>5, <3>1
  <2> QED  BY <2>2, <2>3, <2>4
<1>12. \A j \in Items :
         /\ g[j].next = IF j = i THEN NoItem ELSE IF k # 1 /\ j = q THEN n ELSE h[j].next
         /\ g[j].child = IF k = 1 /\ j = a THEN n ELSE h[j].child
  <2>1. s[1] \in Items /\ h[i].prev = q  BY <1>3, <1>6
  <2> HIDE DEF q, n
  <2>2. (s[1] # i <=> k # 1) /\ h[i].next = n  BY <1>9 DEF n
  <2> HIDE DEF i
  <2>3. i = s[k]  BY DEF i
  <2> QED  BY <1>4, <1>8, <1>11, <2>1, <2>2, <2>3
<1>13. IsList(g, a, t, m - 1)
  <2>1. m - 1 \in Nat  BY <1>6
  <2>2. m - 1 = 0 => g[a].child = NoItem
    <3> SUFFICES ASSUME m = 1 PROVE g[a].child = NoItem  BY <1>6
    <3>1. k = 1 /\ k = m  BY <1>5
    <3> QED  BY <1>0, <1>10, <1>12, <3>1
  <2>3. ASSUME m - 1 # 0  PROVE t[1] = g[a].child /\ g[t[m - 1]].next = NoItem
    <3>1. 1 \in 1..m - 1 /\ m - 1 \in 1..m - 1 /\ m - 1 \in 1..m /\ m - 1 # m /\ (m - 1) + 1 = m  BY <1>6, <2>3
    <3>2. t[1] = g[a].child
      <4>1. CASE k = 1
        <5>1. k # m /\ t[1] = s[1 + 1] /\ 1 + 1 = k + 1  BY <1>6, <1>7, <2>3, <3>1, <4>1
        <5> QED  BY <1>0, <1>10, <1>12, <4>1, <5>1
      <4>2. CASE k # 1
        <5>1. t[1] = s[1]  BY <1>5, <1>6, <1>7, <3>1, <4>2
        <5> QED  BY <1>0, <1>8, <1>12, <4>2, <5>1
      <4> QED  BY <4>1, <4>2
    <3>3. g[t[m - 1]].next = NoItem
      <4>1. CASE k = m
        <5>1. t[m - 1] = s[m - 1] /\ k # 1 /\ q = s[m - 1]  BY <1>6, <1>7, <2>3, <3>1, <4>1
        <5>2. n = NoItem  BY <1>10, <4>1
        <5> QED  BY <1>11, <1>12, <5>1, <5>2
      <4>2. CASE k # m
        <5>1. ~(m - 1 < k)  BY <1>5, <1>6, <4>2
        <5>2. t[m - 1] = s[m]  BY <1>7, <3>1, <5>1
        <5>3. s[m] # i /\ s[m] \in Items  BY <1>1, <1>5, <1>6, <4>2
        <5>4. k # 1 => s[m] # q
          <6> SUFFICES ASSUME k # 1 PROVE s[m] # s[k - 1]  OBVIOUS
          <6>1. k - 1 \in 1..m /\ k - 1 # m  BY <1>5, <1>6
          <6> QED  BY <1>1, <1>6, <6>1
        <5> QED  BY <1>8, <1>12, <5>2, <5>3, <5>4
      <4> QED  BY <4>1, <4>2
    <3> QED  BY <3>2, <3>3
  <2>4. ASSUME NEW l \in 1..m - 1, l # m - 1  PROVE t[l + 1] = g[t[l]].next
    <3>0. l \in 1..m /\ l + 1 \in 1..m /\ l + 1 \in 1..m - 1 /\ l + 1 # m /\ l # m /\ l \in Nat /\ k \in Nat
      BY <1>5, <1>6, <2>4
    <3>1. CASE l < k
      <4>1. t[l] = s[l] /\ s[l] \in Items /\ s[l] # i /\ k # 1  BY <1>1, <1>5, <1>6, <1>7, <3>0, <3>1
      <4>2. CASE l + 1 = k
        <5>1. q = s[l]
          <6>1. k - 1 = l  BY <3>0, <4>2
          <6> QED  BY <4>1, <6>1
        <5>2. k # m /\ ~(l + 1 < k)  BY <3>0, <4>2
        <5>3. t[l + 1] = s[l + 1 + 1]  BY <1>7, <3>0, <5>2
        <5>4. n = s[l + 1 + 1]  BY <1>10, <4>2, <5>2
        <5> QED  BY <1>12, <4>1, <5>1, <5>3, <5>4
      <4>3. CASE l + 1 # k
        <5>1. l + 1 < k /\ k - 1 \in 1..m /\ k - 1 # l  BY <1>5, <1>6, <3>0, <3>1, <4>3
        <5>2. t[l + 1] = s[l + 1] /\ s[l + 1] = h[s[l]].next  BY <1>7, <1>8, <3>0, <5>1
        <5>3. q # s[l]  BY <1>1, <3>0, <4>1, <5>1
        <5> QED  BY <1>12, <4>1, <5>2, <5>3
      <4> QED  BY <4>2, <4>3
    <3>2. CASE ~(l < k)
      <4>1. ~(l + 1 < k) /\ l + 1 # k  BY <3>0, <3>2
      <4>2. t[l] = s[l + 1] /\ t[l + 1] = s[l + 1 + 1] /\ s[l + 1] \in Items /\ s[l + 1] # i
        BY <1>1, <1>5, <1>6, <1>7, <3>0, <3>2, <4>1
      <4>3. s[l + 1 + 1] = h[s[l + 1]].next  BY <1>8, <3>0
      <4>4. k # 1 => q # s[l + 1]
        <5> SUFFICES ASSUME k # 1 PROVE s[k - 1] # s[l + 1]  OBVIOUS
        <5>1. k - 1 \in 1..m /\ k - 1 # l + 1  BY <1>5, <1>6, <3>0, <3>2
        <5> QED  BY <1>1, <3>0, <5>1
      <4> QED  BY <1>12, <4>2, <4>3, <4>4
    <3> QED  BY <3>1, <3>2
  <2> QED  BY <1>7, <2>1, <2>2, <2>3, <2>4 DEF IsList
<1>14. /\ \A b \in Live(h) : b # a => g[b].child = h[b].child
       /\ \A j \in Live(h) : par[j] # a /\ par[j] # NoItem => g[j].next = h[j].next
  BY <1>0, <1>11, <1>12
<1>15. ForestOf(g) = OneList(ForestOf(h), a, t)  BY <1>2, <1>13, <1>14, OneListChanges
<1> QED  BY <1>15 DEF g, t, s

LEMMA ForestReplaced ==
  ASSUME NEW h, NEW R, NEW par, Linked(h, R, par), NEW a \in Live(h), "ref" \notin h[a].flags,
         NEW k \in 1..GetArraySize(h, a), NEW r \in R, a \notin Owned(h, r)
  PROVE  ForestOf(ReplaceItem(h, a, Kids(h, a)[k], r)) =
           OneList(ForestOf(h), a, Forest!ReplaceAt(Kids(h, a), k, r))
<1> DEFINE s == Kids(h, a)  m == GetArraySize(h, a)  t == Forest!ReplaceAt(s, k, r)  g == ReplaceItem(h, a, s[k], r)
<1>0. /\ h \in [Items -> Item] /\ NoItem \notin Items /\ Live(h) \subseteq Items /\ a \in Items /\ r \in Items
      /\ par[r] = NoItem
  BY CJsonTreeAssumption, LiveIs DEF Linked, Apart
<1>1. /\ IsList(h, a, s, m) /\ Len(s) = m /\ s \in Seq(Items)
      /\ \A n \in 1..m : s[n] \in Live(h) /\ par[s[n]] = a
      /\ \A l, n \in 1..m : l # n => s[l] # s[n]
  <2>1. IsList(h, a, s, m) /\ Len(s) = m /\ s \in Seq(Items)  BY KidsAre
  <2>2. \A n \in 1..m : s[n] \in Live(h) /\ par[s[n]] = a  BY KidsAre
  <2>3. \A l, n \in 1..m : l # n => s[l] # s[n]  BY KidsAre
  <2> QED  BY <2>1, <2>2, <2>3
<1>2. (\E own : Linked(g, (R \ {r}) \cup {s[k]}, own)) /\ SameItems(g, h)
  <2>1. s[k] \in Live(h) /\ par[s[k]] = a  BY <1>1
  <2> QED  BY <2>1, Replaced
<1>3. h[s[k]].prev = s[IF k = 1 THEN m ELSE k - 1]  BY PrevIs
<1>4. ASSUME NEW i \in Items, i = s[k], NEW c \in Items, NEW q \in Items, NEW n \in Items \cup {NoItem},
             h[a].child = c, h[i].prev = q, h[i].next = n,
             r # i, r # n, r # q, r # c, n # i, c # i => q # i
      PROVE  \A j \in Items :
               /\ g[j].next = IF j = i THEN NoItem ELSE IF j = r THEN n
                              ELSE IF c # i /\ j = q THEN r ELSE h[j].next
               /\ g[j].child = IF c = i /\ j = a THEN r ELSE h[j].child
  <2> DEFINE e == ReplaceItem(h, a, i, r)
  <2>1. \A j \in Items :
          /\ e[j].next = IF j = i THEN NoItem ELSE IF j = r THEN n
                         ELSE IF c # i /\ j = q THEN r ELSE h[j].next
          /\ e[j].child = IF c = i /\ j = a THEN r ELSE h[j].child
    <3> HIDE DEF s
    <3>1. h \in [Items -> Item] /\ a \in Items /\ r \in Items  BY <1>0
    <3> QED  BY <1>4, <3>1, Replacing
  <2> HIDE DEF e
  <2>2. g = e  BY <1>4 DEF e
  <2> HIDE DEF g
  <2> QED  BY <2>1, <2>2
<1>5. k \in 1..m  OBVIOUS
<1> HIDE DEF s, m, g
<1>6. m \in Nat /\ s \in [1..m -> Items] /\ m # 0 /\ 1 \in 1..m /\ m \in 1..m  BY <1>1, <1>5 DEF IsList
<1> DEFINE i == s[k]  q == s[IF k = 1 THEN m ELSE k - 1]  n == h[i].next
<1>7. t \in [1..m -> Items] /\ \A j \in 1..m : t[j] = IF j = k THEN r ELSE s[j]
  <2>1. k \in 1..Len(s) /\ s \in Seq(Items)  BY <1>1, <1>5
  <2>2. /\ t \in [1..Len(s) -> Items]
        /\ \A j \in 1..Len(s) : t[j] = IF j = k THEN r ELSE s[j]
    BY <1>0, <2>1, ReplaceAtIs
  <2> HIDE DEF t
  <2> QED  BY <1>1, <2>2
<1> HIDE DEF t
<1>8. s[1] = h[a].child /\ h[s[m]].next = NoItem /\ \A l \in 1..m : l # m => s[l + 1] = h[s[l]].next
  BY <1>1, <1>6 DEF IsList
<1>9. s[k] = s[1] <=> k = 1  BY <1>1, <1>5, <1>6
<1>10. /\ k = m => n = NoItem
       /\ k # m => k + 1 \in 1..m /\ n = s[k + 1]
  BY <1>5, <1>6, <1>8
<1>11. /\ q \in Items /\ par[q] = a /\ i \in Items /\ par[i] = a /\ n \in Items \cup {NoItem} /\ n # i
       /\ k # 1 => q # i
       /\ r # i /\ r # n /\ r # q /\ r # s[1]
  <2>1. (IF k = 1 THEN m ELSE k - 1) \in 1..m  BY <1>5, <1>6
  <2>2. q \in Items /\ par[q] = a /\ i \in Items /\ par[i] = a  BY <1>0, <1>1, <1>5, <2>1
  <2>3. n \in Items \cup {NoItem} /\ n # i /\ r # n
    <3>1. CASE k = m  BY <1>0, <1>10, <2>2, <3>1
    <3>2. CASE k # m
      <4>1. k + 1 \in 1..m /\ k + 1 # k /\ n = s[k + 1]  BY <1>5, <1>6, <1>10, <3>2
      <4> QED  BY <1>0, <1>1, <1>5, <1>6, <4>1
    <3> QED  BY <3>1, <3>2
  <2>4. k # 1 => q # i
    <3> SUFFICES ASSUME k # 1 PROVE s[k - 1] # s[k]  OBVIOUS
    <3>1. k - 1 \in 1..m /\ k - 1 # k  BY <1>5, <1>6
    <3> QED  BY <1>1, <1>5, <3>1
  <2>5. r # i /\ r # q /\ r # s[1]  BY <1>0, <1>1, <1>6, <2>2
  <2> QED  BY <2>2, <2>3, <2>4, <2>5
<1>12. \A j \in Items :
         /\ g[j].next = IF j = i THEN NoItem ELSE IF j = r THEN n ELSE IF k # 1 /\ j = q THEN r ELSE h[j].next
         /\ g[j].child = IF k = 1 /\ j = a THEN r ELSE h[j].child
  <2>1. s[1] \in Items /\ h[i].prev = q  BY <1>3, <1>6
  <2> HIDE DEF q, n
  <2>2. (s[1] # i <=> k # 1) /\ h[i].next = n  BY <1>9 DEF n
  <2> HIDE DEF i
  <2>3. i = s[k]  BY DEF i
  <2> QED  BY <1>4, <1>8, <1>11, <2>1, <2>2, <2>3
<1>13. IsList(g, a, t, m)
  <2>1. t[1] = g[a].child
    <3>1. CASE k = 1  BY <1>0, <1>6, <1>7, <1>12, <3>1
    <3>2. CASE k # 1  BY <1>0, <1>6, <1>7, <1>8, <1>12, <3>2
    <3> QED  BY <3>1, <3>2
  <2>2. g[t[m]].next = NoItem
    <3>1. CASE k = m  BY <1>0, <1>6, <1>7, <1>10, <1>11, <1>12, <3>1
    <3>2. CASE k # m
      <4>1. t[m] = s[m] /\ s[m] # i /\ s[m] \in Items /\ s[m] # r  BY <1>0, <1>1, <1>5, <1>6, <1>7, <3>2
      <4>2. k # 1 => s[m] # q
        <5> SUFFICES ASSUME k # 1 PROVE s[m] # s[k - 1]  OBVIOUS
        <5>1. k - 1 \in 1..m /\ k - 1 # m  BY <1>5, <1>6
        <5> QED  BY <1>1, <1>6, <5>1
      <4> QED  BY <1>8, <1>12, <4>1, <4>2
    <3> QED  BY <3>1, <3>2
  <2>3. ASSUME NEW l \in 1..m, l # m  PROVE t[l + 1] = g[t[l]].next
    <3>0. l + 1 \in 1..m /\ l \in Nat /\ k \in Nat /\ s[l + 1] = h[s[l]].next  BY <1>5, <1>6, <1>8, <2>3
    <3>1. CASE l = k
      <4>1. t[l] = r /\ l + 1 # k /\ k # m  BY <1>7, <2>3, <3>0, <3>1
      <4>2. t[l + 1] = s[k + 1] /\ n = s[k + 1]  BY <1>7, <1>10, <3>0, <3>1, <4>1
      <4> QED  BY <1>0, <1>11, <1>12, <4>1, <4>2
    <3>2. CASE l + 1 = k
      <4>1. t[l] = s[l] /\ t[l + 1] = r /\ k # 1 /\ s[l] \in Items /\ s[l] # i /\ s[l] # r
        BY <1>0, <1>1, <1>5, <1>6, <1>7, <3>0, <3>2
      <4>2. q = s[l]
        <5>1. k - 1 = l  BY <3>0, <3>2
        <5> QED  BY <4>1, <5>1
      <4> QED  BY <1>12, <4>1, <4>2
    <3>3. CASE l # k /\ l + 1 # k
      <4>1. t[l] = s[l] /\ t[l + 1] = s[l + 1] /\ s[l] \in Items /\ s[l] # i /\ s[l] # r
        BY <1>0, <1>1, <1>5, <1>6, <1>7, <3>0, <3>3
      <4>2. k # 1 => q # s[l]
        <5> SUFFICES ASSUME k # 1 PROVE s[k - 1] # s[l]  OBVIOUS
        <5>1. k - 1 \in 1..m /\ k - 1 # l  BY <1>5, <1>6, <3>0, <3>3
        <5> QED  BY <1>1, <5>1
      <4> QED  BY <1>12, <3>0, <4>1, <4>2
    <3> QED  BY <3>1, <3>2, <3>3
  <2> QED  BY <1>6, <1>7, <2>1, <2>2, <2>3 DEF IsList
<1>14. /\ \A b \in Live(h) : b # a => g[b].child = h[b].child
       /\ \A j \in Live(h) : par[j] # a /\ par[j] # NoItem => g[j].next = h[j].next
  BY <1>0, <1>11, <1>12
<1>15. ForestOf(g) = OneList(ForestOf(h), a, t)  BY <1>2, <1>13, <1>14, OneListChanges
<1> QED  BY <1>15 DEF g, t, s

\* What is freed takes its list along.
LEMMA ForestFreed ==
  ASSUME NEW h, NEW R, NEW par, Linked(h, R, par), NEW i \in R, Unreferenced(h, Owned(h, i))
  PROVE  ForestOf(Free(h, Owned(h, i))) = Forest!Without(ForestOf(h), Owned(h, i))
<1> DEFINE O == Owned(h, i)  g == Free(h, O)  G == ForestOf(g)  H == ForestOf(h)
<1>0. Live(h) \subseteq Items /\ NoItem \notin Items  BY CJsonTreeAssumption, LiveIs DEF Linked
<1>1. Linked(g, R \ {i}, par) /\ Live(g) = Live(h) \ O /\ \A j \in Live(g) : g[j] = h[j]  BY Freed
<1>2. \A b \in Live(h), j \in Live(h) : b \notin O /\ par[j] = b => j \notin O  BY NotBelow
<1> HIDE DEF O, g
<1>3. ASSUME NEW b \in Live(g)  PROVE G[b] = H[b]
  <2>1. b \in Live(h) /\ g[b] = h[b] /\ b \notin O  BY <1>1
  <2>2. ASSUME NEW j \in Live(h), par[j] = b  PROVE g[j].next = h[j].next
    <3>1. j \in Live(g)  BY <1>1, <1>2, <2>1, <2>2
    <3> QED  BY <1>1, <3>1
  <2> QED  BY <1>1, <2>1, <2>2, ListKept
<1>4. G = [b \in Live(h) \ O |-> G[b]]  BY <1>1, ForestFunction
<1>5. DOMAIN H = Live(h)  BY ForestAt
<1> HIDE DEF G, H
<1>6. [b \in Live(h) \ O |-> G[b]] = [b \in Live(h) \ O |-> H[b]]  BY <1>1, <1>3
<1>7. G = Forest!Without(H, O)  BY <1>4, <1>5, <1>6 DEF Forest!Without
<1> QED  BY <1>7 DEF G, H, g, O

\* Names and values are no part of the forest.
LEMMA ForestOfSameShape ==
  ASSUME NEW h, NEW R, NEW par, Linked(h, R, par), NEW g \in [Items -> Item], SameShape(g, h)
  PROVE  ForestOf(g) = ForestOf(h)
<1>1. Linked(g, R, par) /\ Live(g) = Live(h)  BY SameLinks
<1>2. Live(h) \subseteq Items  BY LiveIs DEF Linked
<1>3. ASSUME NEW b \in Live(h)  PROVE ForestOf(g)[b] = ForestOf(h)[b]
  <2>1. ("ref" \in g[b].flags <=> "ref" \in h[b].flags) /\ g[b].child = h[b].child  BY <1>2 DEF SameShape
  <2>2. \A j \in Live(h) : g[j].next = h[j].next  BY <1>2 DEF SameShape
  <2> QED  BY <1>1, <2>1, <2>2, ListKept
<1> QED  BY <1>1, <1>3, SameForest

\* Items that a call adds change no list that there was.
LEMMA ForestKept ==
  ASSUME NEW h, NEW R, NEW par, Linked(h, R, par), NEW g, NEW Q, NEW own, Linked(g, Q, own),
         Live(h) \subseteq Live(g), \A j \in Live(h) : g[j] = h[j]
  PROVE  \A b \in Live(h) : ForestOf(g)[b] = ForestOf(h)[b]
<1> TAKE b \in Live(h)
<1>1. b \in Live(g) /\ g[b] = h[b]  OBVIOUS
<1> QED  BY <1>1, ListKept

\* The steps of the forest, from what they make of the lists.
LEMMA IsMake ==
  ASSUME NEW h, NEW g, Live(h) \subseteq Live(g), \A b \in Live(h) : ForestOf(g)[b] = ForestOf(h)[b],
         NEW r \in Live(g), r \notin Live(h), Roots' = With(Roots, r)
  PROVE  Forest!Step(ForestOf(h), ForestOf(g))
<1> DEFINE old == ForestOf(h)  new == ForestOf(g)
<1>1. DOMAIN old = Live(h) /\ DOMAIN new = Live(g) /\ old = [b \in Live(h) |-> old[b]]
  BY ForestAt, ForestFunction
<1>2. \A b \in Live(h) : new[b] = old[b]  OBVIOUS
<1> HIDE DEF old, new
<1>3. Forest!Without(new, DOMAIN new \ DOMAIN old) = old
  <2>1. DOMAIN new \ (DOMAIN new \ DOMAIN old) = Live(h)  BY <1>1
  <2>2. [b \in Live(h) |-> new[b]] = [b \in Live(h) |-> old[b]]  BY <1>2
  <2> QED  BY <1>1, <2>1, <2>2 DEF Forest!Without
<1>4. r \in DOMAIN new \ DOMAIN old /\ (held \cup lost)' = (held \cup lost) \cup {r}  BY <1>1 DEF Roots, With
<1>5. Forest!Make(old, new)  BY <1>3, <1>4 DEF Forest!Make
<1>6. Forest!Step(old, new)  BY <1>5 DEF Forest!Step
<1> QED  BY <1>6 DEF old, new

LEMMA IsDelete ==
  ASSUME NEW K, NEW i \in Roots, Roots' = Without(Roots, i)
  PROVE  Forest!Step(K, Forest!Without(K, Forest!Tree(K, i)))
<1> DEFINE new == Forest!Without(K, Forest!Tree(K, i))
<1>1. (held \cup lost)' = (held \cup lost) \ {i} /\ i \in held \cup lost  BY DEF Roots, Without
<1>2. Forest!Delete(K, new, i)  BY <1>1 DEF Forest!Delete
<1> HIDE DEF new
<1>3. Forest!Step(K, new)  BY <1>1, <1>2 DEF Forest!Step
<1> QED  BY <1>3 DEF new

LEMMA IsPut ==
  ASSUME NEW K, NEW a \in DOMAIN K, K[a] \in Seq(Items), NEW k \in 1..Len(K[a]) + 1,
         NEW i \in Roots, i \in Items, a \notin Forest!Tree(K, i), Roots' = Without(Roots, i)
  PROVE  Forest!Step(K, OneList(K, a, Forest!InsertAt(K[a], k, i)))
<1> DEFINE t == Forest!InsertAt(K[a], k, i)  new == OneList(K, a, t)
<1>0. (held \cup lost)' = (held \cup lost) \ {i} /\ i \in held \cup lost  BY DEF Roots, Without
<1>1. t \in [1..Len(K[a]) + 1 -> Items] /\ t[k] = i
  <2>1. /\ t \in [1..Len(K[a]) + 1 -> Items]
        /\ \A j \in 1..Len(K[a]) + 1 : t[j] = IF j < k THEN K[a][j] ELSE IF j = k THEN i ELSE K[a][j - 1]
    BY InsertAtIs
  <2> QED  BY <2>1
<1>2. DOMAIN new = DOMAIN K /\ new[a] = t  BY OneListIs
<1>3. Forest!Put(K, new, a, k, i)  BY <1>0 DEF Forest!Put, OneList
<1> HIDE DEF t, new
<1>4. k \in DOMAIN new[a] /\ new[a][k] = i  BY <1>1, <1>2
<1>5. new[a] # K[a]
  <2>1. DOMAIN K[a] = 1..Len(K[a]) /\ DOMAIN t = 1..Len(K[a]) + 1 /\ Len(K[a]) \in Nat  BY <1>1
  <2>2. Len(K[a]) + 1 \in DOMAIN t /\ Len(K[a]) + 1 \notin DOMAIN K[a]  BY <2>1
  <2> QED  BY <1>2, <2>2
<1>6. a \in DOMAIN K \cap DOMAIN new  BY <1>2
<1>7. Forest!Step(K, new)  BY <1>3, <1>4, <1>5, <1>6 DEF Forest!Step
<1> QED  BY <1>7 DEF new, t

LEMMA IsTake ==
  ASSUME NEW K, NEW a \in DOMAIN K, K[a] \in Seq(Items), NEW k \in 1..Len(K[a]),
         Roots' = With(Roots, K[a][k])
  PROVE  Forest!Step(K, OneList(K, a, Forest!RemoveAt(K[a], k)))
<1> DEFINE t == Forest!RemoveAt(K[a], k)  new == OneList(K, a, t)
<1>0. (held \cup lost)' = (held \cup lost) \cup {K[a][k]}  BY DEF Roots, With
<1>1. t \in [1..Len(K[a]) - 1 -> Items]  BY RemoveAtIs
<1>2. DOMAIN new = DOMAIN K /\ new[a] = t  BY OneListIs
<1>3. Forest!Take(K, new, a, k)  BY <1>0 DEF Forest!Take, OneList
<1> HIDE DEF t, new
<1>4. k \in DOMAIN K[a]  OBVIOUS
<1>5. new[a] # K[a]
  <2>1. DOMAIN K[a] = 1..Len(K[a]) /\ DOMAIN t = 1..Len(K[a]) - 1 /\ Len(K[a]) \in Nat  BY <1>1
  <2>2. Len(K[a]) \in DOMAIN K[a] /\ Len(K[a]) \notin DOMAIN t  BY <2>1
  <2> QED  BY <1>2, <2>2
<1>6. a \in DOMAIN K \cap DOMAIN new  BY <1>2
<1>7. Forest!Step(K, new)  BY <1>3, <1>4, <1>5, <1>6 DEF Forest!Step
<1> QED  BY <1>7 DEF new, t

\* A list is changed and a set of items freed: the one first, or the other.
EitherWay(K, a, t, S) ==
  LET L == Forest!Without(OneList(K, a, t), S)
  IN  /\ L = OneList(Forest!Without(K, S), a, t) /\ Forest!Without(K, S)[a] = K[a]
      /\ DOMAIN L = DOMAIN K \ S /\ L[a] = t

LEMMA WithoutOneList ==
  ASSUME NEW K, NEW a \in DOMAIN K, NEW t, NEW S, a \notin S
  PROVE  EitherWay(K, a, t, S)
<1> DEFINE A == OneList(K, a, t)  W == Forest!Without(K, S)  D == DOMAIN K \ S  L == Forest!Without(A, S)
<1>1. DOMAIN A = DOMAIN K /\ A[a] = t /\ \A b \in DOMAIN K : b # a => A[b] = K[b]  BY OneListIs
<1>2. DOMAIN W = D /\ a \in D /\ \A b \in D : W[b] = K[b]  BY DEF Forest!Without
<1> HIDE DEF A
<1>3. DOMAIN L = D /\ L = [b \in D |-> L[b]] /\ \A b \in D : L[b] = A[b]  BY <1>1 DEF Forest!Without
<1> HIDE DEF W, L
<1>4. L[a] = t /\ \A b \in D : b # a => L[b] = W[b]  BY <1>1, <1>2, <1>3
<1>5. L = OneList(W, a, t)  BY <1>2, <1>3, <1>4, OneListIs
<1> QED  BY <1>2, <1>3, <1>4, <1>5 DEF A, W, L, EitherWay

LEMMA IsTakeAndDelete ==
  ASSUME NEW K, NEW a \in DOMAIN K, K[a] \in Seq(Items), NEW k \in 1..Len(K[a]),
         a \notin Forest!Tree(K, K[a][k]), Roots' = Roots
  PROVE  Forest!Step(K, Forest!Without(OneList(K, a, Forest!RemoveAt(K[a], k)), Forest!Tree(K, K[a][k])))
<1> DEFINE t == Forest!RemoveAt(K[a], k)  T == Forest!Tree(K, K[a][k])  W == Forest!Without(K, T)
           new == Forest!Without(OneList(K, a, t), T)
<1>0. (held \cup lost)' = (held \cup lost)  BY DEF Roots
<1>1. t \in [1..Len(K[a]) - 1 -> Items]  BY RemoveAtIs
<1>2. new = OneList(W, a, t) /\ W[a] = K[a] /\ DOMAIN new = DOMAIN K \ T /\ new[a] = t
  <2>1. a \notin T  OBVIOUS
  <2> HIDE DEF T, t
  <2>2. EitherWay(K, a, t, T)  BY <2>1, WithoutOneList
  <2> QED  BY <2>2 DEF EitherWay
<1> HIDE DEF new
<1>3. Forest!TakeAndDelete(K, new, a, k)
  <2>1. new = [W EXCEPT ![a] = Forest!RemoveAt(W[a], k)]
    <3> HIDE DEF W
    <3> QED  BY <1>2 DEF OneList
  <2> QED  BY <1>0, <2>1 DEF Forest!TakeAndDelete
<1> HIDE DEF t, W
<1>4. k \in DOMAIN K[a]  OBVIOUS
<1>5. new[a] # K[a]
  <2>1. DOMAIN K[a] = 1..Len(K[a]) /\ DOMAIN t = 1..Len(K[a]) - 1 /\ Len(K[a]) \in Nat  BY <1>1
  <2>2. Len(K[a]) \in DOMAIN K[a] /\ Len(K[a]) \notin DOMAIN t  BY <2>1
  <2> QED  BY <1>2, <2>2
<1>6. a \in DOMAIN K \cap DOMAIN new  BY <1>2
<1> HIDE DEF T
<1>7. Forest!Step(K, new)  BY <1>3, <1>4, <1>5, <1>6 DEF Forest!Step
<1> QED  BY <1>7 DEF new, t, T

LEMMA IsReplace ==
  ASSUME NEW K, NEW a \in DOMAIN K, K[a] \in Seq(Items), NEW k \in 1..Len(K[a]),
         a \notin Forest!Tree(K, K[a][k]), NEW r \in Roots, r \in Items, a \notin Forest!Tree(K, r),
         r # K[a][k], Roots' = Without(Roots, r)
  PROVE  Forest!Step(K, Forest!Without(OneList(K, a, Forest!ReplaceAt(K[a], k, r)), Forest!Tree(K, K[a][k])))
<1> DEFINE t == Forest!ReplaceAt(K[a], k, r)  T == Forest!Tree(K, K[a][k])  W == Forest!Without(K, T)
           new == Forest!Without(OneList(K, a, t), T)
<1>0. (held \cup lost)' = (held \cup lost) \ {r} /\ r \in held \cup lost  BY DEF Roots, Without
<1>1. t \in [1..Len(K[a]) -> Items] /\ t[k] = r
  <2>1. t \in [1..Len(K[a]) -> Items] /\ \A j \in 1..Len(K[a]) : t[j] = IF j = k THEN r ELSE K[a][j]
    BY ReplaceAtIs
  <2> QED  BY <2>1
<1>2. new = OneList(W, a, t) /\ W[a] = K[a] /\ DOMAIN new = DOMAIN K \ T /\ new[a] = t
  <2>1. a \notin T  OBVIOUS
  <2> HIDE DEF T, t
  <2>2. EitherWay(K, a, t, T)  BY <2>1, WithoutOneList
  <2> QED  BY <2>2 DEF EitherWay
<1> HIDE DEF new
<1>4. k \in DOMAIN K[a]  OBVIOUS
<1>3. Forest!Replace(K, new, a, k, r)
  <2>1. new = [W EXCEPT ![a] = Forest!ReplaceAt(W[a], k, r)]
    <3> HIDE DEF W
    <3> QED  BY <1>2 DEF OneList
  <2> QED  BY <1>0, <1>4, <2>1 DEF Forest!Replace
<1> HIDE DEF t, W
<1>5. new[a] # K[a] /\ k \in DOMAIN new[a] /\ new[a][k] = r  BY <1>1, <1>2
<1>6. a \in DOMAIN K \cap DOMAIN new  BY <1>2
<1> HIDE DEF T
<1>7. Forest!Step(K, new)  BY <1>3, <1>5, <1>6 DEF Forest!Step
<1> QED  BY <1>7 DEF new, t, T

LEMMA IsMakeAndPut ==
  ASSUME NEW K, NEW L, NEW a \in DOMAIN K, K[a] \in Seq(Items), NEW i \in Items, i \notin DOMAIN K,
         DOMAIN L = DOMAIN K \cup {i}, L[i] = <<>>,
         NEW M, \A b \in DOMAIN K : M[b] = K[b],
         L = OneList(M, a, Forest!InsertAt(K[a], Len(K[a]) + 1, i)), DOMAIN M = DOMAIN K \cup {i}, Roots' = Roots
  PROVE  Forest!Step(K, L)
<1> DEFINE k == Len(K[a]) + 1  t == Forest!InsertAt(K[a], k, i)
<1>0. (held \cup lost)' = (held \cup lost)  BY DEF Roots
<1>1. t \in [1..k -> Items] /\ t[k] = i /\ k \in 1..k
  <2>1. k \in 1..Len(K[a]) + 1  OBVIOUS
  <2>2. /\ t \in [1..Len(K[a]) + 1 -> Items]
        /\ \A j \in 1..Len(K[a]) + 1 : t[j] = IF j < k THEN K[a][j] ELSE IF j = k THEN i ELSE K[a][j - 1]
    BY <2>1, InsertAtIs
  <2> QED  BY <2>1, <2>2
<1>2. t = Append(K[a], i)  BY AppendIs
<1>3. L[a] = t /\ \A b \in DOMAIN K : b # a => L[b] = K[b]  BY OneListIs
<1> HIDE DEF t
<1>4. Forest!Without(L, {i}) = [K EXCEPT ![a] = Append(K[a], i)]
  <2> DEFINE W == Forest!Without(L, {i})
  <2>1. DOMAIN L \ {i} = DOMAIN K  OBVIOUS
  <2>2. W = [b \in DOMAIN K |-> W[b]] /\ \A b \in DOMAIN K : W[b] = L[b]  BY <2>1 DEF Forest!Without
  <2> HIDE DEF W
  <2>3. W = OneList(K, a, t)  BY <1>3, <2>2, OneListIs
  <2> QED  BY <1>2, <2>3 DEF W, OneList
<1>5. Forest!MakeAndPut(K, L, a, i)  BY <1>0, <1>4 DEF Forest!MakeAndPut
<1>6. k \in DOMAIN L[a] /\ L[a][k] = i  BY <1>1, <1>3
<1>7. L[a] # K[a]
  <2>1. DOMAIN K[a] = 1..Len(K[a]) /\ DOMAIN t = 1..k /\ Len(K[a]) \in Nat  BY <1>1
  <2>2. k \in DOMAIN t /\ k \notin DOMAIN K[a]  BY <2>1
  <2> QED  BY <1>3, <2>2
<1> HIDE DEF k
<1>8. Forest!Step(K, L)  BY <1>5, <1>6, <1>7 DEF Forest!Step
<1> QED  BY <1>8

-----------------------------------------------------------------------------
(* What the calls do to the forest *)

\* The lists change as a step of the forest changes them, or stay with their roots.
ForestMoves ==
  \/ Forest!Step(ForestOf(heap), ForestOf(heap'))
  \/ ForestOf(heap') = ForestOf(heap) /\ Roots' = Roots

\* The list that the forest has for an item that is not a reference.
LEMMA ListOf ==
  ASSUME NEW h, NEW R, NEW par, Linked(h, R, par), NEW a \in Live(h), "ref" \notin h[a].flags
  PROVE  /\ a \in DOMAIN ForestOf(h) /\ ForestOf(h)[a] = Kids(h, a) /\ Kids(h, a) \in Seq(Items)
         /\ Len(Kids(h, a)) = GetArraySize(h, a) /\ GetArraySize(h, a) \in Nat
<1>1. a \in DOMAIN ForestOf(h) /\ ForestOf(h)[a] = Kids(h, a)  BY ForestAt, Zenon
<1>2. Kids(h, a) \in Seq(Items)  BY KidsAre
<1>3. Len(Kids(h, a)) = GetArraySize(h, a)  BY KidsAre
<1>4. GetArraySize(h, a) \in Nat  BY ListIs
<1> QED  BY <1>1, <1>2, <1>3, <1>4

\* The place that an item of a list has in it.
LEMMA PlaceOf ==
  ASSUME NEW h, NEW R, NEW par, Linked(h, R, par), NEW a \in Live(h), "ref" \notin h[a].flags,
         NEW n \in Live(h), par[n] = a
  PROVE  \E k \in 1..GetArraySize(h, a) : Kids(h, a)[k] = n
BY KidsAre

LEMMA InvHeap ==
  ASSUME TreeInv'
  PROVE  (\E own : Linked(heap', Roots', own)) /\ heap' \in [Items -> Item]
<1>1. PICK own : Linked(heap', Roots', own)  BY DEF TreeInv
<1> QED  BY <1>1 DEF Linked

\* Items are made, under a new root.
LEMMA MakeMoves ==
  ASSUME TreeInv, TreeInv', Undisturbed, NEW r, r \notin Live(heap), Roots' = With(Roots, r)
  PROVE  ForestMoves
<1>1. PICK par : Linked(heap, Roots, par)  BY InvLinked
<1>2. PICK g : g = heap'  OBVIOUS
<1>3. PICK Q : Q = Roots'  OBVIOUS
<1>4. PICK own : Linked(g, Q, own)  BY <1>2, <1>3, InvHeap
<1>5. \A j \in Live(heap) : g[j] = heap[j]  BY <1>2 DEF Undisturbed
<1>6. Live(heap) \subseteq Live(g)
  <2>1. heap \in [Items -> Item] /\ g \in [Items -> Item]  BY <1>1, <1>4 DEF Linked
  <2> QED  BY <1>5, <2>1 DEF Live
<1>7. r \in Live(g)  BY <1>3, <1>4 DEF Linked, With
<1>8. \A b \in Live(heap) : ForestOf(g)[b] = ForestOf(heap)[b]  BY <1>1, <1>4, <1>5, <1>6, ForestKept
<1>9. Forest!Step(ForestOf(heap), ForestOf(g))  BY <1>6, <1>7, <1>8, IsMake
<1> QED  BY <1>2, <1>9 DEF ForestMoves

\* What was made has been freed again.
LEMMA SameMoves ==
  ASSUME TreeInv, TreeInv', Undisturbed, Roots' = Roots
  PROVE  ForestMoves
<1>1. PICK par : Linked(heap, Roots, par)  BY InvLinked
<1>2. PICK g : g = heap'  OBVIOUS
<1>3. PICK own : Linked(g, Roots, own)  BY <1>2, InvHeap
<1>4. \A j \in Live(heap) : g[j] = heap[j]  BY <1>2 DEF Undisturbed
<1>5. heap \in [Items -> Item] /\ g \in [Items -> Item] /\ Roots \subseteq Live(heap) /\ Live(heap) \subseteq Items
      /\ NoItem \notin Items
  BY <1>3, InvLinked DEF Linked
<1>6. Live(heap) \subseteq Live(g)  BY <1>4, <1>5 DEF Live
<1>7. Live(g) \subseteq Live(heap)
  <2>1. \A j \in Live(heap), k \in Items : Edge(g, j, k) => k \in Live(heap)
    BY <1>1, <1>4, <1>5 DEF Edge, Linked, Solid
  <2>2. Live(heap) \in SUBSET Items  BY <1>5
  <2>3. \A r \in Roots : r \in Items /\ Owned(g, r) \subseteq Live(heap)  BY <1>5, <2>1, <2>2, OwnedLeast
  <2>4. Live(g) = UNION {Owned(g, r) : r \in Roots}  BY <1>3, AllOwned
  <2> QED  BY <2>3, <2>4
<1>8. \A b \in Live(heap) : ForestOf(g)[b] = ForestOf(heap)[b]  BY <1>1, <1>3, <1>4, <1>6, ForestKept
<1>9. Live(g) = Live(heap)  BY <1>6, <1>7
<1>10. ForestOf(g) = ForestOf(heap)  BY <1>8, <1>9, SameForest
<1> QED  BY <1>2, <1>10 DEF ForestMoves

\* Names and values are no part of the forest.
LEMMA ShapeMoves ==
  ASSUME TreeInv, TreeInv', SameShape(heap', heap), Roots' = Roots
  PROVE  ForestMoves
<1>1. PICK par : Linked(heap, Roots, par)  BY InvLinked
<1>2. PICK g : g = heap'  OBVIOUS
<1>3. g \in [Items -> Item] /\ SameShape(g, heap)  BY <1>2, InvHeap
<1>4. ForestOf(g) = ForestOf(heap)  BY <1>1, <1>3, ForestOfSameShape
<1> QED  BY <1>2, <1>4 DEF ForestMoves

\* A root is put at the end of a list, after it was given a name or without one.
LEMMA GiveMoves ==
  ASSUME NEW h, NEW par, Linked(h, Roots, par), ForestOf(h) = ForestOf(heap),
         NEW i \in Roots, NEW a \in Live(h), "ref" \notin h[a].flags, a \notin Owned(h, i),
         heap' = add_item_to_array(h, a, i), Roots' = Without(Roots, i)
  PROVE  ForestMoves
<1>1. PICK K : K = ForestOf(h)  OBVIOUS
<1>2. PICK s : s = Kids(h, a)  OBVIOUS
<1>3. a \in DOMAIN K /\ K[a] = s /\ s \in Seq(Items)  BY <1>1, <1>2, ListOf
<1>4. ForestOf(heap') = OneList(K, a, Forest!InsertAt(s, Len(s) + 1, i))  BY <1>1, <1>2, ForestAppended
<1>5. Forest!Tree(K, i) = Owned(h, i)  BY <1>1, TreeIsOwned
<1>6. i \in Items /\ Len(s) + 1 \in 1..Len(s) + 1
  <2>1. Len(s) \in Nat  BY <1>3
  <2>2. i \in Items  BY LiveIs DEF Linked
  <2> QED  BY <2>1, <2>2
<1>7. Forest!Step(K, OneList(K, a, Forest!InsertAt(s, Len(s) + 1, i)))
  BY <1>3, <1>5, <1>6, IsPut
<1> QED  BY <1>1, <1>4, <1>7 DEF ForestMoves

\* A root is put before an item of a list.
LEMMA InsertMoves ==
  ASSUME NEW par, Linked(heap, Roots, par), NEW i \in Roots, NEW a \in Live(heap), "ref" \notin heap[a].flags,
         a \notin Owned(heap, i), NEW n \in Live(heap), par[n] = a,
         heap' = InsertBefore(heap, a, n, i), Roots' = Without(Roots, i)
  PROVE  ForestMoves
<1>1. PICK K : K = ForestOf(heap)  OBVIOUS
<1>2. PICK s : s = Kids(heap, a)  OBVIOUS
<1>3. a \in DOMAIN K /\ K[a] = s /\ s \in Seq(Items) /\ Len(s) = GetArraySize(heap, a) /\ Len(s) \in Nat
  BY <1>1, <1>2, ListOf
<1>4. PICK k \in 1..GetArraySize(heap, a) : s[k] = n  BY <1>2, PlaceOf
<1>5. ForestOf(heap') = OneList(K, a, Forest!InsertAt(s, k, i))  BY <1>1, <1>2, <1>4, ForestInserted
<1>6. Forest!Tree(K, i) = Owned(heap, i)  BY <1>1, TreeIsOwned
<1>7. i \in Items /\ k \in 1..Len(s) + 1
  <2>1. i \in Items  BY LiveIs DEF Linked
  <2> QED  BY <1>3, <1>4, <2>1
<1>8. Forest!Step(K, OneList(K, a, Forest!InsertAt(s, k, i)))  BY <1>3, <1>6, <1>7, IsPut
<1> QED  BY <1>1, <1>5, <1>8 DEF ForestMoves

\* An item of a list becomes a root.
LEMMA DetachMoves ==
  ASSUME NEW par, Linked(heap, Roots, par), NEW p \in Live(heap), "ref" \notin heap[p].flags,
         NEW i \in Live(heap), par[i] = p, heap' = DetachItem(heap, p, i), Roots' = With(Roots, i)
  PROVE  ForestMoves
<1>1. PICK K : K = ForestOf(heap)  OBVIOUS
<1>2. PICK s : s = Kids(heap, p)  OBVIOUS
<1>3. p \in DOMAIN K /\ K[p] = s /\ s \in Seq(Items) /\ Len(s) = GetArraySize(heap, p)  BY <1>1, <1>2, ListOf
<1>4. PICK k \in 1..GetArraySize(heap, p) : s[k] = i  BY <1>2, PlaceOf
<1>5. ForestOf(heap') = OneList(K, p, Forest!RemoveAt(s, k))  BY <1>1, <1>2, <1>4, ForestDetached
<1>6. Forest!Step(K, OneList(K, p, Forest!RemoveAt(s, k)))  BY <1>3, <1>4, IsTake
<1> QED  BY <1>1, <1>5, <1>6 DEF ForestMoves

\* A root is deleted.
LEMMA DeleteMoves ==
  ASSUME NEW par, Linked(heap, Roots, par), NEW i \in Roots, Unreferenced(heap, Owned(heap, i)),
         heap' = Free(heap, Owned(heap, i)), Roots' = Without(Roots, i)
  PROVE  ForestMoves
<1>1. PICK K : K = ForestOf(heap)  OBVIOUS
<1>2. ForestOf(heap') = Forest!Without(K, Owned(heap, i))  BY <1>1, ForestFreed
<1>3. Forest!Tree(K, i) = Owned(heap, i)  BY <1>1, TreeIsOwned
<1>4. Forest!Step(K, Forest!Without(K, Forest!Tree(K, i)))  BY IsDelete
<1> QED  BY <1>1, <1>2, <1>3, <1>4 DEF ForestMoves

\* What is taken out of a list, or put in its place, is deleted: the change of the list does
\* not reach the tree under it.
LEMMA TreeTaken ==
  ASSUME NEW h, NEW R, NEW par, Linked(h, R, par), NEW p \in Live(h), "ref" \notin h[p].flags,
         NEW k \in 1..GetArraySize(h, p), NEW t, NEW i, i = Kids(h, p)[k],
         NEW g, NEW Q, NEW own, Linked(g, Q, own), Live(g) = Live(h), i \in Q,
         ForestOf(g) = OneList(ForestOf(h), p, t)
  PROVE  /\ p \notin Forest!Tree(ForestOf(h), i)
         /\ Owned(g, i) = Forest!Tree(ForestOf(h), i)
<1>1. PICK K : K = ForestOf(h)  OBVIOUS
<1>2. PICK M : M = ForestOf(g)  OBVIOUS
<1>3. PICK D : D = Live(h)  OBVIOUS
<1>4. p \in DOMAIN K /\ K[p] = Kids(h, p) /\ Kids(h, p) \in Seq(Items) /\ Len(Kids(h, p)) = GetArraySize(h, p)
  BY <1>1, ListOf
<1>5. k \in DOMAIN K[p] /\ K[p][k] = i  BY <1>4
<1>6. p \notin Forest!Tree(K, i)  BY <1>1, <1>5, NotUnderItself
<1>7. Closed(K, D) /\ D \in SUBSET Items /\ DOMAIN K = D  BY <1>1, <1>3, ForestIs, ForestAt
<1>8. Closed(M, D)  BY <1>2, <1>3, ForestIs
<1>9. M = OneList(K, p, t) /\ p \in D  BY <1>1, <1>2, <1>3
<1>10. \A j \in D : j # p => M[j] = K[j]  BY <1>7, <1>9, OneListIs
<1>11. i \in D  BY <1>3 DEF Linked
<1>12. Forest!Tree(M, i) = Forest!Tree(K, i)  BY <1>6, <1>7, <1>8, <1>10, <1>11, TreeApart
<1>13. Forest!Tree(M, i) = Owned(g, i)  BY <1>2, TreeIsOwned
<1> QED  BY <1>1, <1>6, <1>12, <1>13

\* An item of a list is taken out of it and deleted.
LEMMA DeleteItemMoves ==
  ASSUME NEW par, Linked(heap, Roots, par), NEW p \in Live(heap), "ref" \notin heap[p].flags,
         NEW i \in Live(heap), par[i] = p, NEW h, h = DetachItem(heap, p, i), Unreferenced(h, Owned(h, i)),
         heap' = Free(h, Owned(h, i)), Roots' = Roots
  PROVE  ForestMoves
<1>1. PICK K : K = ForestOf(heap)  OBVIOUS
<1>2. PICK s : s = Kids(heap, p)  OBVIOUS
<1>3. p \in DOMAIN K /\ K[p] = s /\ s \in Seq(Items) /\ Len(s) = GetArraySize(heap, p)  BY <1>1, <1>2, ListOf
<1>4. PICK k \in 1..GetArraySize(heap, p) : s[k] = i  BY <1>2, PlaceOf
<1>5. ForestOf(h) = OneList(K, p, Forest!RemoveAt(s, k))  BY <1>1, <1>2, <1>4, ForestDetached
<1>6. Linked(h, Roots \cup {i}, [par EXCEPT ![i] = NoItem]) /\ Live(h) = Live(heap)  BY Detached
<1>7. PICK Q : Q = Roots \cup {i}  OBVIOUS
<1>8. PICK own : Linked(h, Q, own)  BY <1>6, <1>7
<1>9. i \in Q  BY <1>7
<1>10. p \notin Forest!Tree(K, i) /\ Owned(h, i) = Forest!Tree(K, i)
  BY <1>1, <1>2, <1>4, <1>5, <1>6, <1>8, <1>9, TreeTaken
<1>11. ForestOf(heap') = Forest!Without(ForestOf(h), Owned(h, i))  BY <1>8, <1>9, ForestFreed
<1>12. Forest!Step(K, Forest!Without(OneList(K, p, Forest!RemoveAt(s, k)), Forest!Tree(K, i)))
  BY <1>3, <1>4, <1>10, IsTakeAndDelete
<1> QED  BY <1>1, <1>5, <1>10, <1>11, <1>12 DEF ForestMoves

\* A root takes the place of an item of a list, which is deleted.
LEMMA ReplaceMoves ==
  ASSUME NEW h, NEW par, Linked(h, Roots, par), ForestOf(h) = ForestOf(heap),
         NEW p \in Live(h), "ref" \notin h[p].flags, NEW i \in Live(h), par[i] = p,
         NEW r \in Roots, p \notin Owned(h, r),
         NEW g, g = ReplaceItem(h, p, i, r), Unreferenced(g, Owned(g, i)),
         heap' = Free(g, Owned(g, i)), Roots' = Without(Roots, r)
  PROVE  ForestMoves
<1>1. PICK K : K = ForestOf(h)  OBVIOUS
<1>2. PICK s : s = Kids(h, p)  OBVIOUS
<1>3. p \in DOMAIN K /\ K[p] = s /\ s \in Seq(Items) /\ Len(s) = GetArraySize(h, p)  BY <1>1, <1>2, ListOf
<1>4. PICK k \in 1..GetArraySize(h, p) : s[k] = i  BY <1>2, PlaceOf
<1>5. ForestOf(g) = OneList(K, p, Forest!ReplaceAt(s, k, r))  BY <1>1, <1>2, <1>4, ForestReplaced
<1>6. /\ \E own : Linked(g, (Roots \ {r}) \cup {i}, own)
      /\ Live(g) = Live(h) /\ i \notin Roots
  BY Replaced
<1>7. PICK Q : Q = (Roots \ {r}) \cup {i}  OBVIOUS
<1>8. PICK own : Linked(g, Q, own)  BY <1>6, <1>7
<1>9. i \in Q  BY <1>7
<1>10. p \notin Forest!Tree(K, i) /\ Owned(g, i) = Forest!Tree(K, i)
  BY <1>1, <1>2, <1>4, <1>5, <1>6, <1>8, <1>9, TreeTaken
<1>11. ForestOf(heap') = Forest!Without(ForestOf(g), Owned(g, i))  BY <1>8, <1>9, ForestFreed
<1>12. Forest!Tree(K, r) = Owned(h, r)  BY <1>1, TreeIsOwned
<1>13. r \in Items /\ r # i  BY <1>6, LiveIs DEF Linked
<1>14. Forest!Step(K, Forest!Without(OneList(K, p, Forest!ReplaceAt(s, k, r)), Forest!Tree(K, i)))
  BY <1>3, <1>4, <1>10, <1>12, <1>13, IsReplace
<1> QED  BY <1>1, <1>5, <1>10, <1>11, <1>14 DEF ForestMoves

\* A new item, a leaf or a reference, is made and put at the end of a list.
LEMMA FreshMoves ==
  ASSUME TreeInv, NEW i, NEW e, IsFresh(e, heap, i), NEW a \in Live(heap), "ref" \notin heap[a].flags,
         heap' = add_item_to_array(e, a, i), Roots' = Roots
  PROVE  ForestMoves
<1>1. /\ \E own : Linked(e, With(Roots, i), own)
      /\ Live(e) = Live(heap) \cup {i} /\ Owned(e, i) = {i} /\ i \notin Live(heap)
  BY GrownTo
<1>2. PICK R : R = With(Roots, i)  OBVIOUS
<1>3. PICK own : Linked(e, R, own)  BY <1>1, <1>2
<1>4. PICK par : Linked(heap, Roots, par)  BY InvLinked
<1>5. heap \in [Items -> Item] /\ Live(heap) \subseteq Items /\ i \in Items /\ \A j \in Live(heap) : e[j] = heap[j]
  BY <1>1, InvLinked DEF IsFresh
<1>6. i \in R /\ i \in Live(e) /\ a \in Live(e) /\ a # i /\ a \notin Owned(e, i) /\ "ref" \notin e[a].flags
  BY <1>1, <1>2, <1>5 DEF With
<1>7. PICK K : K = ForestOf(heap)  OBVIOUS
<1>8. PICK M : M = ForestOf(e)  OBVIOUS
<1>9. PICK L : L = ForestOf(heap')  OBVIOUS
<1>10. PICK s : s = Kids(e, a)  OBVIOUS
<1>11. L = OneList(M, a, Forest!InsertAt(s, Len(s) + 1, i))  BY <1>3, <1>6, <1>8, <1>9, <1>10, ForestAppended
<1>12. \A b \in Live(heap) : M[b] = K[b]  BY <1>1, <1>3, <1>4, <1>5, <1>7, <1>8, ForestKept
<1>13. M[a] = s /\ s \in Seq(Items)  BY <1>3, <1>6, <1>8, <1>10, ListOf
<1>14. DOMAIN K = Live(heap) /\ DOMAIN M = Live(heap) \cup {i}  BY <1>1, <1>7, <1>8, ForestAt
<1>15. DOMAIN L = DOMAIN K \cup {i} /\ L[i] = M[i]  BY <1>6, <1>11, <1>14, OneListIs
<1>16. M[i] = <<>>
  <2>1. CASE "ref" \in e[i].flags  BY <1>6, <1>8, <2>1, ForestAt
  <2>2. CASE "ref" \notin e[i].flags
    <3>1. e[i].child = NoItem  BY <2>2 DEF IsFresh
    <3>2. IsList(e, i, <<>>, 0)  BY <3>1 DEF IsList
    <3>3. Kids(e, i) = <<>>  BY <1>3, <1>6, <2>2, <3>2, KidsIs
    <3> QED  BY <1>6, <1>8, <2>2, <3>3, ForestAt
  <2> QED  BY <2>1, <2>2
<1>17. K[a] = s /\ a \in DOMAIN K  BY <1>12, <1>13, <1>14
<1>18. K[a] \in Seq(Items) /\ i \in Items /\ i \notin DOMAIN K /\ L[i] = <<>> /\ Roots' = Roots
  BY <1>1, <1>5, <1>13, <1>14, <1>15, <1>16, <1>17
<1>19. \A b \in DOMAIN K : M[b] = K[b]  BY <1>12, <1>14
<1>20. DOMAIN L = DOMAIN K \cup {i} /\ DOMAIN M = DOMAIN K \cup {i}  BY <1>14, <1>15
<1>21. L = OneList(M, a, Forest!InsertAt(K[a], Len(K[a]) + 1, i))  BY <1>11, <1>17, Zenon
<1>22. Forest!Step(K, L)  BY <1>17, <1>18, <1>19, <1>20, <1>21, IsMakeAndPut
<1> QED  BY <1>7, <1>9, <1>22 DEF ForestMoves

-----------------------------------------------------------------------------
(* The calls are steps of the forest *)

LEMMA CreateMoves ==
  ASSUME TreeInv, NEW i \in Unused, NEW kind \in Kinds, Create(i, kind)
  PROVE  ForestMoves
<1>1. TreeInv'  BY CreateKeeps
<1>2. i \notin Live(heap)  BY InvIs
<1>3. Roots' = With(Roots, i)  BY DEF Create, Roots, With
<1>4. Undisturbed
  <2>1. heap' = [heap EXCEPT ![i] = [New EXCEPT !.type = kind]]  BY DEF Create
  <2> QED  BY <1>2, <2>1 DEF Undisturbed
<1> QED  BY <1>1, <1>2, <1>3, <1>4, MakeMoves

LEMMA CreateStringReferenceMoves ==
  ASSUME TreeInv, NEW i \in Unused, NEW text \in Kinds, CreateStringReference(i, text)
  PROVE  ForestMoves
<1>1. TreeInv'  BY CreateStringReferenceKeeps
<1>2. i \notin Live(heap)  BY InvIs
<1>3. Roots' = With(Roots, i)  BY DEF CreateStringReference, Roots, With
<1>4. Undisturbed
  <2>1. heap' = [heap EXCEPT ![i] = [New EXCEPT !.type = text, !.flags = {"ref"}]]
    BY DEF CreateStringReference
  <2> QED  BY <1>2, <2>1 DEF Undisturbed
<1> QED  BY <1>1, <1>2, <1>3, <1>4, MakeMoves

LEMMA CreateReferenceMoves ==
  ASSUME TreeInv, NEW i \in Unused, NEW kind \in Kinds, NEW child \in Live(heap), CreateReference(i, kind, child)
  PROVE  ForestMoves
<1>1. TreeInv'  BY CreateReferenceKeeps
<1>2. i \notin Live(heap)  BY InvIs
<1>3. Roots' = With(Roots, i)  BY DEF CreateReference, Roots, With
<1>4. Undisturbed
  <2>1. heap' = [heap EXCEPT ![i] = [New EXCEPT !.type = kind, !.flags = {"ref"}, !.child = child]]
    BY DEF CreateReference
  <2> QED  BY <1>2, <2>1 DEF Undisturbed
<1> QED  BY <1>1, <1>2, <1>3, <1>4, MakeMoves

LEMMA CreateArrayOfMoves ==
  ASSUME TreeInv, NEW a \in Unused, NEW n \in Counts, NEW at \in [1..n -> Unused \ {a}], IsInjective(at),
         NEW kind \in Leaves, CreateArrayOf(a, at, kind)
  PROVE  ForestMoves
<1>1. TreeInv' /\ Undisturbed  BY CreateArrayOfKeeps
<1>2. a \notin Live(heap)  BY InvIs
<1>3. held' = held \cup {a} /\ lost' = lost  BY Zenon DEF CreateArrayOf
<1>4. Roots' = With(Roots, a)  BY <1>3 DEF Roots, With
<1> QED  BY <1>1, <1>2, <1>4, MakeMoves

LEMMA CreateArrayFailsMoves ==
  ASSUME TreeInv, NEW a \in Unused, NEW n \in Counts, NEW at \in [1..n -> Unused \ {a}], IsInjective(at),
         NEW kind \in Leaves, CreateArrayFails(a, at, kind)
  PROVE  ForestMoves
<1>1. TreeInv' /\ Undisturbed  BY CreateArrayFailsKeeps
<1>2. held' = held /\ lost' = lost  BY Zenon DEF CreateArrayFails
<1>3. Roots' = Roots  BY <1>2 DEF Roots
<1> QED  BY <1>1, <1>3, SameMoves

LEMMA DuplicateOneMoves ==
  ASSUME TreeInv, NEW i \in Live(heap), NEW copy \in Unused, Duplicate(i, [j \in {i} |-> copy])
  PROVE  ForestMoves
<1>1. TreeInv' /\ Undisturbed  BY DuplicateOneKeeps
<1>2. copy \notin Live(heap)  BY InvIs
<1>3. held' = held \cup {copy} /\ lost' = lost
  <2>1. held' = held \cup {[j \in {i} |-> copy][i]} /\ lost' = lost  BY Zenon DEF Duplicate
  <2> QED  BY <2>1
<1>4. Roots' = With(Roots, copy)  BY <1>3 DEF Roots, With
<1> QED  BY <1>1, <1>2, <1>4, MakeMoves

LEMMA DuplicateMoves ==
  ASSUME TreeInv, NEW i \in Live(heap), IsTree(i), NEW f \in Injection(Copied(heap, i), Unused), Duplicate(i, f)
  PROVE  ForestMoves
<1>1. TreeInv' /\ Undisturbed  BY DuplicateKeeps
<1>2. f[i] \notin Live(heap)
  <2>1. i \in Copied(heap, i)  BY InvIs, CopiedIs
  <2>2. f[i] \in Unused  BY <2>1 DEF Injection
  <2> QED  BY <2>2, InvIs
<1>3. held' = held \cup {f[i]} /\ lost' = lost  BY Zenon DEF Duplicate
<1>4. Roots' = With(Roots, f[i])  BY <1>3 DEF Roots, With
<1> QED  BY <1>1, <1>2, <1>4, MakeMoves

LEMMA DuplicateFailsMoves ==
  ASSUME TreeInv, NEW i \in Live(heap), NEW S \in SUBSET Copied(heap, i), NEW f \in Injection(S, Unused),
         MadeFirst(i, S), NEW l \in S, DuplicateFails(i, f, l)
  PROVE  ForestMoves
<1>1. TreeInv' /\ Undisturbed  BY DuplicateFailsKeeps
<1>2. held' = held /\ lost' = lost  BY Zenon DEF DuplicateFails
<1>3. Roots' = Roots  BY <1>2 DEF Roots
<1> QED  BY <1>1, <1>3, SameMoves

LEMMA SetValueMoves ==
  ASSUME TreeInv, NEW i \in Live(heap), NEW leaf \in Leaves, SetValue(i, leaf)
  PROVE  ForestMoves
<1>1. TreeInv' /\ SameShape(heap', heap)  BY SetValueKeeps
<1>2. Roots' = Roots  BY DEF SetValue, Roots
<1> QED  BY <1>1, <1>2, ShapeMoves

\* A name is no part of the forest.
LEMMA NamedForest ==
  ASSUME TreeInv, NEW i \in Live(heap), NEW name \in Names \cup {NoName}, NEW constant \in BOOLEAN,
         NEW par, Linked(heap, Roots, par)
  PROVE  LET h == Named(heap, i, name, constant)
         IN  /\ Linked(h, Roots, par) /\ Live(h) = Live(heap) /\ ForestOf(h) = ForestOf(heap)
             /\ \A j \in Items : Owned(h, j) = Owned(heap, j)
             /\ \A j \in Items : "ref" \in h[j].flags <=> "ref" \in heap[j].flags
<1> DEFINE h == Named(heap, i, name, constant)
<1>1. /\ h \in [Items -> Item] /\ Live(h) = Live(heap) /\ SameShape(h, heap)
      /\ Linked(h, Roots, par)
      /\ \A j \in Items : Owned(h, j) = Owned(heap, j)
      /\ \A j \in Items : "ref" \in h[j].flags <=> "ref" \in heap[j].flags
  BY NamedKeeps
<1> HIDE DEF h
<1>2. ForestOf(h) = ForestOf(heap)  BY <1>1, ForestOfSameShape
<1> QED  BY <1>1, <1>2 DEF h

\* What the program gives away leaves its roots.
LEMMA GivenIs ==
  ASSUME TreeInv, NEW i \in held, held' = held \ {i}, lost' = lost
  PROVE  i \in Roots /\ Roots' = Without(Roots, i)
BY DEF TreeInv, Roots, Without

LEMMA AddItemToArrayMoves ==
  ASSUME TreeInv, NEW a \in Live(heap), NEW i \in held, AddItemToArray(a, i)
  PROVE  ForestMoves
<1>1. PICK par : Linked(heap, Roots, par)  BY InvLinked
<1>2. CASE a = i
  <2>1. heap' = heap /\ held' = held /\ lost' = lost  BY <1>2 DEF AddItemToArray, add_item_to_array
  <2>2. Roots' = Roots  BY <2>1 DEF Roots
  <2> QED  BY <2>1, <2>2 DEF ForestMoves
<1>3. CASE a # i
  <2>1. "ref" \notin heap[a].flags /\ a \notin Owned(heap, i)
    BY <1>3 DEF AddItemToArray, CanChange, CanGive
  <2>2. heap' = add_item_to_array(heap, a, i) /\ held' = held \ {i} /\ lost' = lost
    BY <1>3 DEF AddItemToArray
  <2>3. i \in Roots /\ Roots' = Without(Roots, i)  BY <2>2, GivenIs
  <2> QED  BY <1>1, <2>1, <2>2, <2>3, GiveMoves
<1> QED  BY <1>2, <1>3

LEMMA InsertItemInArrayMoves ==
  ASSUME TreeInv, NEW a \in Live(heap), NEW i \in held, NEW which \in Indices, InsertItemInArray(a, which, i)
  PROVE  ForestMoves
<1>1. PICK par : Linked(heap, Roots, par)  BY InvLinked
<1>2. PICK after : after = GetArrayItem(heap, a, which)  OBVIOUS
<1>3. "ref" \notin heap[a].flags /\ a \notin Owned(heap, i)  BY DEF InsertItemInArray, CanChange, CanGive
<1>4. held' = held \ {i} /\ lost' = lost  BY DEF InsertItemInArray
<1>5. i \in Roots /\ Roots' = Without(Roots, i)  BY <1>4, GivenIs
<1>6. CASE after = NoItem
  <2>1. heap' = add_item_to_array(heap, a, i)  BY <1>2, <1>6 DEF InsertItemInArray
  <2> QED  BY <1>1, <1>3, <1>5, <2>1, GiveMoves
<1>7. CASE after # NoItem
  <2>1. heap' = InsertBefore(heap, a, after, i)  BY <1>2, <1>7 DEF InsertItemInArray
  <2>2. which \in Int  BY CJsonTreeAssumption
  <2>3. after \in Live(heap) /\ par[after] = a  BY <1>1, <1>2, <1>3, <1>7, <2>2, Found
  <2> QED  BY <1>1, <1>3, <1>5, <2>1, <2>3, InsertMoves
<1> QED  BY <1>6, <1>7

LEMMA AddItemToObjectMoves ==
  ASSUME TreeInv, NEW o \in Live(heap), NEW i \in held, NEW name \in Names, NEW constant \in BOOLEAN,
         AddItemToObject(o, name, i, constant)
  PROVE  ForestMoves
<1>1. PICK par : Linked(heap, Roots, par)  BY InvLinked
<1>2. PICK h : h = Named(heap, i, name, constant)  OBVIOUS
<1>3. /\ heap' = add_item_to_array(h, o, i) /\ held' = held \ {i} /\ lost' = lost
      /\ "ref" \notin heap[o].flags /\ o \notin Owned(heap, i)
  BY <1>2 DEF AddItemToObject, CanChange, CanGive
<1>4. i \in Roots /\ Roots' = Without(Roots, i)  BY <1>3, GivenIs
<1>5. i \in Live(heap) /\ name \in Names \cup {NoName} /\ o \in Items /\ i \in Items  BY <1>4, InvLinked
<1>6. /\ Linked(h, Roots, par) /\ Live(h) = Live(heap) /\ ForestOf(h) = ForestOf(heap)
      /\ \A j \in Items : Owned(h, j) = Owned(heap, j)
      /\ \A j \in Items : "ref" \in h[j].flags <=> "ref" \in heap[j].flags
  BY <1>1, <1>2, <1>5, NamedForest
<1>7. o \in Live(h) /\ "ref" \notin h[o].flags /\ o \notin Owned(h, i)  BY <1>3, <1>5, <1>6
<1> QED  BY <1>3, <1>4, <1>6, <1>7, GiveMoves

LEMMA AddItemReferenceToArrayMoves ==
  ASSUME TreeInv, NEW a \in Live(heap), NEW i \in Live(heap), NEW r \in Unused, AddItemReferenceToArray(a, i, r)
  PROVE  ForestMoves
<1>1. PICK e : e = [heap EXCEPT ![r] = create_reference(i)]  OBVIOUS
<1>2. heap' = add_item_to_array(e, a, r) /\ held' = held /\ lost' = lost /\ "ref" \notin heap[a].flags
  BY <1>1 DEF AddItemReferenceToArray, CanChange
<1>3. IsFresh(e, heap, r)  BY <1>1, CopyFresh
<1>4. Roots' = Roots  BY <1>2 DEF Roots
<1> QED  BY <1>2, <1>3, <1>4, FreshMoves

LEMMA AddItemReferenceToObjectMoves ==
  ASSUME TreeInv, NEW o \in Live(heap), NEW i \in Live(heap), NEW r \in Unused, NEW name \in Names,
         AddItemReferenceToObject(o, name, i, r)
  PROVE  ForestMoves
<1>1. PICK e : e = [heap EXCEPT ![r] = create_reference(i)]  OBVIOUS
<1>2. PICK h : h = Named(e, r, name, FALSE)  OBVIOUS
<1>3. /\ held' = held /\ "ref" \notin heap[o].flags
      /\ \/ heap' = add_item_to_array(h, o, r) /\ lost' = lost
         \/ heap' = e /\ lost' = lost \cup {r}
  BY <1>1, <1>2 DEF AddItemReferenceToObject, CanChange
<1>4. IsFresh(e, heap, r)  BY <1>1, CopyFresh
<1>5. IsFresh(h, heap, r)  BY <1>2, <1>4, FreshOwnName
<1>6. CASE heap' = add_item_to_array(h, o, r) /\ lost' = lost
  <2>1. Roots' = Roots  BY <1>3, <1>6 DEF Roots
  <2> QED  BY <1>3, <1>5, <1>6, <2>1, FreshMoves
<1>7. CASE heap' = e /\ lost' = lost \cup {r}
  <2>1. TreeInv'  BY AddItemReferenceToObjectKeeps
  <2>2. r \notin Live(heap) /\ Live(heap) \subseteq Items  BY InvIs
  <2>3. Undisturbed  BY <1>4, <1>7, <2>2 DEF Undisturbed, IsFresh
  <2>4. Roots' = With(Roots, r)  BY <1>3, <1>7 DEF Roots, With
  <2> QED  BY <2>1, <2>2, <2>3, <2>4, MakeMoves
<1> QED  BY <1>3, <1>6, <1>7

LEMMA AddNewToObjectMoves ==
  ASSUME TreeInv, NEW o \in Live(heap), NEW i \in Unused, NEW name \in Names, NEW kind \in Kinds,
         AddNewToObject(o, name, i, kind)
  PROVE  ForestMoves
<1>1. PICK x : x = [New EXCEPT !.type = kind]  OBVIOUS
<1>2. PICK e : e = [heap EXCEPT ![i] = x]  OBVIOUS
<1>3. PICK h : h = Named(e, i, name, FALSE)  OBVIOUS
<1>4. heap' = add_item_to_array(h, o, i) /\ held' = held /\ lost' = lost /\ "ref" \notin heap[o].flags
  BY <1>1, <1>2, <1>3 DEF AddNewToObject, CanChange
<1>5. x \in Item /\ x.type # "free" /\ x.next = NoItem /\ x.prev = NoItem /\ x.child = NoItem  BY <1>1, NewIs
<1>6. IsFresh(e, heap, i)  BY <1>2, <1>5, NewFresh
<1>7. IsFresh(h, heap, i)  BY <1>3, <1>6, FreshOwnName
<1>8. Roots' = Roots  BY <1>4 DEF Roots
<1> QED  BY <1>4, <1>7, <1>8, FreshMoves

\* Taking an item out of a list, however it was found.
LEMMA TakingOutMoves ==
  ASSUME TreeInv, NEW p \in Live(heap), "ref" \notin heap[p].flags, NEW i, DetachAny(p, i) \/ DeleteItem(p, i),
         NEW par, Linked(heap, Roots, par), i \in Live(heap), par[i] = p
  PROVE  ForestMoves
<1>1. CASE DetachAny(p, i)
  <2>1. heap' = DetachItem(heap, p, i) /\ held' = held \cup {i} /\ lost' = lost  BY <1>1 DEF DetachAny
  <2>2. Roots' = With(Roots, i)  BY <2>1 DEF Roots, With
  <2> QED  BY <2>1, <2>2, DetachMoves
<1>2. CASE DeleteItem(p, i)
  <2>1. PICK h : h = DetachItem(heap, p, i)  OBVIOUS
  <2>2. Unreferenced(h, Owned(h, i)) /\ heap' = Free(h, Owned(h, i)) /\ held' = held /\ lost' = lost
    BY <1>2, <2>1 DEF DeleteItem, DeleteFrom
  <2>3. Roots' = Roots  BY <2>2 DEF Roots
  <2> QED  BY <2>1, <2>2, <2>3, DeleteItemMoves
<1> QED  BY <1>1, <1>2

LEMMA ByIndexMoves ==
  ASSUME TreeInv, NEW a \in Live(heap), NEW which \in Indices,
         DetachItemFromArray(a, which) \/ DeleteItemFromArray(a, which)
  PROVE  ForestMoves
<1>1. PICK i : i = GetArrayItem(heap, a, which)  OBVIOUS
<1>2. PICK par : Linked(heap, Roots, par)  BY InvLinked
<1>3. which \in Int  BY CJsonTreeAssumption
<1>4. DetachAny(a, i) \/ DeleteItem(a, i)  BY <1>1 DEF DetachItemFromArray, DeleteItemFromArray
<1>5. "ref" \notin heap[a].flags /\ i # NoItem  BY <1>4 DEF DetachAny, DeleteItem, CanChange
<1>6. i \in Live(heap) /\ par[i] = a  BY <1>1, <1>2, <1>3, <1>5, Found
<1> QED  BY <1>2, <1>4, <1>5, <1>6, TakingOutMoves

LEMMA ByNameMoves ==
  ASSUME TreeInv, NEW o \in Live(heap), NEW name, NEW sensitive,
         DetachItemFromObject(o, name, sensitive) \/ DeleteItemFromObject(o, name, sensitive)
  PROVE  ForestMoves
<1>1. PICK i : i = GetObjectItem(heap, o, name, sensitive)  OBVIOUS
<1>2. PICK par : Linked(heap, Roots, par)  BY InvLinked
<1>3. DetachAny(o, i) \/ DeleteItem(o, i)  BY <1>1 DEF DetachItemFromObject, DeleteItemFromObject
<1>4. "ref" \notin heap[o].flags /\ i # NoItem  BY <1>3 DEF DetachAny, DeleteItem, CanChange
<1>5. i \in Live(heap) /\ par[i] = o  BY <1>1, <1>2, <1>4, Found
<1> QED  BY <1>2, <1>3, <1>4, <1>5, TakingOutMoves

\* The item i of the list of p is replaced by r, which h has named, or there is none.
LEMMA ReplaceAnyMoves ==
  ASSUME TreeInv, NEW p, NEW r \in held, NEW h, NEW i, ReplaceAny(h, p, i, r), lost' = lost,
         NEW par, Linked(h, Roots, par), ForestOf(h) = ForestOf(heap),
         p \in Live(h), "ref" \notin h[p].flags, p \notin Owned(h, r),
         i # NoItem => i \in Live(h) /\ par[i] = p
  PROVE  ForestMoves
<1>1. CASE i # NoItem
  <2>1. PICK g : g = ReplaceItem(h, p, i, r)  OBVIOUS
  <2>2. Unreferenced(g, Owned(g, i)) /\ heap' = Free(g, Owned(g, i)) /\ held' = held \ {r}
    BY <1>1, <2>1 DEF ReplaceAny
  <2>3. r \in Roots /\ Roots' = Without(Roots, r)  BY <2>2, GivenIs
  <2>4. i \in Live(h) /\ par[i] = p  BY <1>1
  <2> QED  BY <2>1, <2>2, <2>3, <2>4, ReplaceMoves
<1>2. CASE i = NoItem
  <2>1. heap' = h /\ held' = held  BY <1>2 DEF ReplaceAny
  <2>2. Roots' = Roots  BY <2>1 DEF Roots
  <2> QED  BY <2>1, <2>2 DEF ForestMoves
<1> QED  BY <1>1, <1>2

LEMMA ReplaceItemInArrayMoves ==
  ASSUME TreeInv, NEW a \in Live(heap), NEW r \in held, NEW which \in Indices, ReplaceItemInArray(a, which, r)
  PROVE  ForestMoves
<1>1. PICK par : Linked(heap, Roots, par)  BY InvLinked
<1>2. PICK i : i = GetArrayItem(heap, a, which)  OBVIOUS
<1>3. "ref" \notin heap[a].flags /\ a \notin Owned(heap, r) /\ ReplaceAny(heap, a, i, r) /\ lost' = lost
  BY <1>2 DEF ReplaceItemInArray, CanChange, CanGive
<1>4. which \in Int  BY CJsonTreeAssumption
<1>5. i # NoItem => i \in Live(heap) /\ par[i] = a  BY <1>1, <1>2, <1>3, <1>4, Found
<1> QED  BY <1>1, <1>3, <1>5, ReplaceAnyMoves

LEMMA ReplaceItemInObjectMoves ==
  ASSUME TreeInv, NEW o \in Live(heap), NEW r \in held, NEW name \in Names, NEW sensitive \in BOOLEAN,
         ReplaceItemInObject(o, name, r, sensitive)
  PROVE  ForestMoves
<1>1. PICK par : Linked(heap, Roots, par)  BY InvLinked
<1>2. PICK constant \in BOOLEAN : constant = FALSE  OBVIOUS
<1>3. PICK new \in {name, NoName} :
        ReplaceAny(Named(heap, r, new, FALSE), o, GetObjectItem(Named(heap, r, new, FALSE), o, name, sensitive), r)
  BY DEF ReplaceItemInObject
<1>4. PICK h : h = Named(heap, r, new, constant)  OBVIOUS
<1>5. PICK i : i = GetObjectItem(h, o, name, sensitive)  OBVIOUS
<1>6. ReplaceAny(h, o, i, r)  BY <1>2, <1>3, <1>4, <1>5, Zenon
<1>7. "ref" \notin heap[o].flags /\ o \notin Owned(heap, r) /\ lost' = lost
  BY DEF ReplaceItemInObject, CanChange, CanGive
<1>8. r \in Live(heap) /\ r \in Items /\ o \in Items /\ new \in Names \cup {NoName}  BY InvLinked, RootsAre
<1>9. /\ Linked(h, Roots, par) /\ Live(h) = Live(heap) /\ ForestOf(h) = ForestOf(heap)
      /\ \A j \in Items : Owned(h, j) = Owned(heap, j)
      /\ \A j \in Items : "ref" \in h[j].flags <=> "ref" \in heap[j].flags
  BY <1>1, <1>4, <1>8, NamedForest
<1>10. o \in Live(h) /\ "ref" \notin h[o].flags /\ o \notin Owned(h, r)  BY <1>7, <1>8, <1>9
<1>11. i # NoItem => i \in Live(h) /\ par[i] = o  BY <1>5, <1>9, <1>10, Found
<1> QED  BY <1>6, <1>7, <1>9, <1>10, <1>11, ReplaceAnyMoves

LEMMA ForestStep ==
  ASSUME TreeInv, Call
  PROVE  ForestMoves
<1>1. CASE Making
  <2>1. PICK i \in Unused :
          \/ \E kind \in Kinds :
               \/ Create(i, kind) \/ CreateStringReference(i, kind)
               \/ \E child \in Live(heap) : CreateReference(i, kind, child)
          \/ \E n \in Counts : \E at \in [1..n -> Unused \ {i}], kind \in Leaves :
               IsInjective(at) /\ (CreateArrayOf(i, at, kind) \/ CreateArrayFails(i, at, kind))
    BY <1>1 DEF Making
  <2>2. ASSUME NEW kind \in Kinds, Create(i, kind)  PROVE ForestMoves  BY <2>2, CreateMoves
  <2>6. ASSUME NEW kind \in Kinds, CreateStringReference(i, kind)  PROVE ForestMoves  BY <2>6, CreateStringReferenceMoves
  <2>3. ASSUME NEW kind \in Kinds, NEW child \in Live(heap), CreateReference(i, kind, child)  PROVE ForestMoves
    BY <2>3, CreateReferenceMoves
  <2>4. ASSUME NEW n \in Counts, NEW at \in [1..n -> Unused \ {i}], NEW kind \in Leaves,
               IsInjective(at), CreateArrayOf(i, at, kind)
        PROVE  ForestMoves
    BY <2>4, CreateArrayOfMoves
  <2>5. ASSUME NEW n \in Counts, NEW at \in [1..n -> Unused \ {i}], NEW kind \in Leaves,
               IsInjective(at), CreateArrayFails(i, at, kind)
        PROVE  ForestMoves
    BY <2>5, CreateArrayFailsMoves
  <2> QED  BY <2>1, <2>2, <2>3, <2>4, <2>5, <2>6
<1>2. CASE Copying
  <2>1. PICK i \in Live(heap) :
          \/ \E copy \in Unused : Duplicate(i, [j \in {i} |-> copy])
          \/ IsTree(i) /\ \E S \in SUBSET Copied(heap, i) : \E f \in Injection(S, Unused) :
               \/ S = Copied(heap, i) /\ Duplicate(i, f)
               \/ MadeFirst(i, S) /\ \E l \in S : DuplicateFails(i, f, l)
    BY <1>2, Zenon DEF Copying
  <2>2. ASSUME NEW copy \in Unused, Duplicate(i, [j \in {i} |-> copy])  PROVE ForestMoves
    BY <2>2, DuplicateOneMoves
  <2>3. ASSUME IsTree(i), NEW f \in Injection(Copied(heap, i), Unused), Duplicate(i, f)  PROVE ForestMoves
    BY <2>3, DuplicateMoves
  <2>4. ASSUME NEW S \in SUBSET Copied(heap, i), NEW f \in Injection(S, Unused), MadeFirst(i, S),
               NEW l \in S, DuplicateFails(i, f, l)
        PROVE  ForestMoves
    BY <2>4, DuplicateFailsMoves
  <2> QED  BY <2>1, <2>2, <2>3, <2>4, Zenon
<1>3. CASE Giving
  <2>1. PICK a \in Live(heap) :
          \/ \E i \in held :
               \/ AddItemToArray(a, i)
               \/ \E which \in Indices : InsertItemInArray(a, which, i)
               \/ \E name \in Names, constant \in BOOLEAN : AddItemToObject(a, name, i, constant)
          \/ \E i \in Live(heap), r \in Unused :
               AddItemReferenceToArray(a, i, r) \/ \E name \in Names : AddItemReferenceToObject(a, name, i, r)
          \/ \E i \in Unused, name \in Names, kind \in Kinds : AddNewToObject(a, name, i, kind)
    BY <1>3 DEF Giving
  <2>2. ASSUME NEW i \in held, AddItemToArray(a, i)  PROVE ForestMoves  BY <2>2, AddItemToArrayMoves
  <2>3. ASSUME NEW i \in held, NEW which \in Indices, InsertItemInArray(a, which, i)  PROVE ForestMoves
    BY <2>3, InsertItemInArrayMoves
  <2>4. ASSUME NEW i \in held, NEW name \in Names, NEW constant \in BOOLEAN, AddItemToObject(a, name, i, constant)
        PROVE  ForestMoves
    BY <2>4, AddItemToObjectMoves
  <2>5. ASSUME NEW i \in Live(heap), NEW r \in Unused, AddItemReferenceToArray(a, i, r)  PROVE ForestMoves
    BY <2>5, AddItemReferenceToArrayMoves
  <2>6. ASSUME NEW i \in Live(heap), NEW r \in Unused, NEW name \in Names, AddItemReferenceToObject(a, name, i, r)
        PROVE  ForestMoves
    BY <2>6, AddItemReferenceToObjectMoves
  <2>7. ASSUME NEW i \in Unused, NEW name \in Names, NEW kind \in Kinds, AddNewToObject(a, name, i, kind)
        PROVE  ForestMoves
    BY <2>7, AddNewToObjectMoves
  <2> QED  BY <2>1, <2>2, <2>3, <2>4, <2>5, <2>6, <2>7
<1>4. CASE Taking
  <2>1. PICK a \in Live(heap) :
          \/ \E which \in Indices : DetachItemFromArray(a, which) \/ DeleteItemFromArray(a, which)
          \/ \E name \in DOMAIN Fold, sensitive \in BOOLEAN :
               DetachItemFromObject(a, name, sensitive) \/ DeleteItemFromObject(a, name, sensitive)
          \/ \E r \in held :
               \/ \E which \in Indices : ReplaceItemInArray(a, which, r)
               \/ \E name \in Names, sensitive \in BOOLEAN : ReplaceItemInObject(a, name, r, sensitive)
    BY <1>4 DEF Taking
  <2>2. ASSUME NEW which \in Indices, DetachItemFromArray(a, which) \/ DeleteItemFromArray(a, which)
        PROVE  ForestMoves
    BY <2>2, ByIndexMoves
  <2>3. ASSUME NEW name, NEW sensitive,
               DetachItemFromObject(a, name, sensitive) \/ DeleteItemFromObject(a, name, sensitive)
        PROVE  ForestMoves
    BY <2>3, ByNameMoves
  <2>4. ASSUME NEW r \in held, NEW which \in Indices, ReplaceItemInArray(a, which, r)  PROVE ForestMoves
    BY <2>4, ReplaceItemInArrayMoves
  <2>5. ASSUME NEW r \in held, NEW name \in Names, NEW sensitive \in BOOLEAN, ReplaceItemInObject(a, name, r, sensitive)
        PROVE  ForestMoves
    BY <2>5, ReplaceItemInObjectMoves
  <2> QED  BY <2>1, <2>2, <2>3, <2>4, <2>5
<1>5. ASSUME NEW i \in Live(heap), NEW leaf \in Leaves, SetValue(i, leaf)  PROVE ForestMoves
  BY <1>5, SetValueMoves
<1>6. ASSUME NEW i \in held, Delete(i)  PROVE ForestMoves
  <2>1. PICK par : Linked(heap, Roots, par)  BY InvLinked
  <2>2. /\ Unreferenced(heap, Owned(heap, i)) /\ heap' = Free(heap, Owned(heap, i))
        /\ held' = held \ {i} /\ lost' = lost
    BY <1>6 DEF Delete, DeleteFrom
  <2>3. i \in Roots /\ Roots' = Without(Roots, i)  BY <2>2, GivenIs
  <2> QED  BY <2>1, <2>2, <2>3, DeleteMoves
<1> QED  BY <1>1, <1>2, <1>3, <1>4, <1>5, <1>6 DEF Call

\* Whatever calls are made, the items are the forest that the program thinks of: a call adds
\* one subitem, takes one out or puts one in the place of another, in one list and at one
\* place, makes a tree or deletes one, and leaves every other list as it was, also where it
\* finds no memory, unless the process ends in it (CreateArrayCrashes): then the forest is seen
\* as the call found it.  The names and values are no part of it.
THEOREM ItemsAreTheForest == Spec => ImplementsForest
<1>1. Init => Forest!Init
  <2> SUFFICES ASSUME Init PROVE Forest!Init  OBVIOUS
  <2>1. Live(heap) = {} /\ held \cup lost = {}  BY DEF Init, Live, New
  <2> QED  BY <2>1 DEF Forest!Init
<1>2. TreeInv /\ [Next]_vars => [Forest!Next]_Forest!vars
  <2> SUFFICES ASSUME TreeInv, [Next]_vars PROVE [Forest!Next]_Forest!vars  OBVIOUS
  <2>1. CASE Call
    <3>1. ForestMoves  BY <2>1, ForestStep
    <3>2. CASE Forest!Step(ForestOf(heap), ForestOf(heap'))
      <4>1. Forest!Next  BY <3>2, Zenon DEF Forest!Next, ForestOf
      <4> QED  BY <4>1
    <3>3. CASE ForestOf(heap') = ForestOf(heap) /\ Roots' = Roots
      <4>1. UNCHANGED Forest!vars  BY <3>3, Zenon DEF Forest!vars, ForestOf, Roots
      <4> QED  BY <4>1
    <3> QED  BY <3>1, <3>2, <3>3 DEF ForestMoves
  <2>2. CASE Still
    <3>1. heap' = heap /\ held' = held /\ lost' = lost  BY <2>2 DEF Still
    <3>2. UNCHANGED Forest!vars  BY <3>1, Zenon DEF Forest!vars
    <3> QED  BY <3>2
  <2> QED  BY <2>1, <2>2, StepIs
<1> QED  BY <1>1, <1>2, ItemsStayLinked, PTL DEF Spec, ImplementsForest, Forest!Spec
===============================================================================
