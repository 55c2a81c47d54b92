----------------------------- MODULE CJsonCompare -----------------------------
(***************************************************************************)
(* xface/cJSON.c: cJSON_Compare on the trees that CJsonTree builds.        *)
(***************************************************************************)
EXTENDS CJsonTree

\* A new item, of these kinds: enough to build any two objects.  Compare changes nothing
\* and reads only the lists.
Building(i, kinds) ==
  \/ Cardinality(held) < 2 /\ Create(i, "object")
  \/ \E o \in Live(heap), name \in Names, kind \in kinds : AddNewToObject(o, name, i, kind)

\* Mutant of Compare: the members of b are not looked for in a.
CompareOneWay(h, a, b, sensitive) ==
  LET same[i, j \in Items] ==
        LET s == Kids(h, i)  t == Kids(h, j)
            Found(k, o) ==
              /\ h[k].string # NoName
              /\ LET m == GetObjectItem(h, o, h[k].string, sensitive)
                 IN  m # NoItem /\ same[k, m]
        IN  \/ i = j
            \/ /\ h[i].type = h[j].type
               /\ h[i].type = "array" => Len(s) = Len(t) /\ \A n \in DOMAIN s : same[s[n], t[n]]
               /\ h[i].type = "object" => \A n \in DOMAIN s : Found(s[n], j)
  IN  same[a, b]

\* Two numbers or texts are equal if they have the same value; members are looked up by
\* name, those of a in b and those of b in a.
Compare(h, a, b, sensitive) ==
  LET same[i, j \in Items] ==
        LET s == Kids(h, i)  t == Kids(h, j)
            Found(k, o) ==
              /\ h[k].string # NoName
              /\ LET m == GetObjectItem(h, o, h[k].string, sensitive)
                 IN  m # NoItem /\ same[k, m]
        IN  \/ i = j
            \/ /\ h[i].type = h[j].type
               /\ h[i].type = "array" => Len(s) = Len(t) /\ \A n \in DOMAIN s : same[s[n], t[n]]
               /\ h[i].type = "object" =>
                    /\ \A n \in DOMAIN s : Found(s[n], j)
                    /\ \A n \in DOMAIN t : Found(t[n], i)
  IN  same[a, b]
-----------------------------------------------------------------------------
\* What an item says: Read tells how the members of an object are read.
Meaning(i, Read(_, _)) ==
  LET value[j \in Items] ==
        LET s == Kids(heap, j)
        IN  CASE heap[j].type = "array"  -> <<"array", [n \in DOMAIN s |-> value[s[n]]]>>
              [] heap[j].type = "object" -> <<"object", Read(s, [n \in DOMAIN s |-> value[s[n]]])>>
              [] OTHER                   -> <<"leaf", heap[j].type>>
  IN  value[i]

InOrder(s, values) == [n \in DOMAIN s |-> <<heap[s[n]].string, values[n]>>]
ByName(s, values) == {<<heap[s[n]].string, values[n]>> : n \in DOMAIN s}
ByFoldedName(s, values) == {<<Fold[heap[s[n]].string], values[n]>> : n \in DOMAIN s}

\* Under i is a tree, all members have names, and no object has two members of a name,
\* compared as Key does.
NamesDiffer(i, Key(_)) ==
  /\ IsTree(i)
  /\ \A o \in Copied(heap, i) : LET s == Kids(heap, o) IN
       heap[o].type = "object" =>
         /\ \A n \in DOMAIN s : heap[s[n]].string # NoName
         /\ \A m, n \in DOMAIN s : m # n => Key(heap[s[m]].string) # Key(heap[s[n]].string)

\* cJSON.h: "Recursively compare two cJSON items for equality": of objects without
\* repeated names those with the same members are equal, in whatever order they were
\* added, replaced or copied, and no others, at every depth and for both ways to read case.
CompareIsEquality ==
  \A a, b \in held :
    /\ NamesDiffer(a, LAMBDA n : n) /\ NamesDiffer(b, LAMBDA n : n) =>
         (Compare(heap, a, b, TRUE) <=> Meaning(a, ByName) = Meaning(b, ByName))
    /\ NamesDiffer(a, LAMBDA n : Fold[n]) /\ NamesDiffer(b, LAMBDA n : Fold[n]) =>
         (Compare(heap, a, b, FALSE) <=> Meaning(a, ByFoldedName) = Meaning(b, ByFoldedName))
===============================================================================
