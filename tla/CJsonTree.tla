------------------------------- MODULE CJsonTree -------------------------------
(***************************************************************************)
(* xface/cJSON.c: the tree of items.  A list is doubly linked, its last    *)
(* next is NULL and its first prev is its last item.  An item owns its     *)
(* name unless StringIsConst, and its subitems and valuestring unless      *)
(* IsReference; cJSON_Delete frees what is owned.  Any allocation may      *)
(* fail.  A caller gives an item it holds to one list, gives a list away   *)
(* to nothing below it, changes no list through a reference, and deletes   *)
(* nothing a reference points at.  What it has copied with everything      *)
(* under it is a tree: cJSON_Duplicate copies an item twice that it comes  *)
(* to twice through references, and the model has no call for that.        *)
(***************************************************************************)
EXTENDS Integers, SequencesExt, FiniteSetsExt

CONSTANTS
  Items,      \* blocks an item may occupy
  NoItem,     \* NULL
  Leaves,     \* what an item that is not an array or object may hold
  Texts,      \* those of them that are a valuestring
  Containers, \* which of "array", "object" there are
  Names,      \* the names of members
  NoName,     \* a string that is NULL
  Fold,       \* a name, or another spelling of one, in lower case
  Counts,     \* sizes asked of cJSON_CreateIntArray and its likes
  Indices,    \* the which of calls
  MaxRefs     \* how many items may be references at a time

ASSUME CJsonTreeAssumption ==
  /\ IsFiniteSet(Items) /\ NoItem \notin Items /\ NoName \notin Names
  /\ Texts \subseteq Leaves /\ Leaves \cap {"free", "array", "object"} = {}
  /\ Names \subseteq DOMAIN Fold /\ Range(Fold) \subseteq DOMAIN Fold
  /\ Containers \subseteq {"array", "object"}
  /\ Counts \subseteq Nat /\ Indices \subseteq Int /\ MaxRefs \in Nat

Kinds == Leaves \cup Containers

\* cJSON; a leaf's type says what it holds.
Item == [type : Leaves \cup {"array", "object", "free"}, flags : SUBSET {"ref", "const"},
         next : Items \cup {NoItem}, prev : Items \cup {NoItem},
         child : Items \cup {NoItem}, string : Names \cup {NoName}]

VARIABLES
  heap,   \* the items
  strs,   \* how many blocks for names and valuestrings are allocated
  held,   \* the items the caller has been given and has not given away
  lost,   \* the items that a call has left with nobody
  crashed \* a call has written through NULL: the process is gone

vars == <<heap, strs, held, lost, crashed>>

New == [type |-> "free", flags |-> {}, next |-> NoItem, prev |-> NoItem,
        child |-> NoItem, string |-> NoName]

Init ==
  /\ heap = [i \in Items |-> New]
  /\ strs = 0
  /\ held = {}
  /\ lost = {}
  /\ crashed = FALSE
-----------------------------------------------------------------------------
(* Walking and changing the heap h *)

Live(h) == {i \in DOMAIN h : h[i].type # "free"}
Unused == DOMAIN heap \ Live(heap)

\* The blocks that items of S own.
OwnedStrings(h, S) ==
  {i \in S : h[i].string # NoName /\ "const" \notin h[i].flags} \X {"string"}
    \cup {i \in S : h[i].type \in Texts /\ "ref" \notin h[i].flags} \X {"valuestring"}

\* get_array_item: the NULL after the last item, and beyond it.
GetArrayItem(h, a, which) ==
  LET at[n \in 0..which] ==
        IF n = 0 THEN h[a].child
        ELSE IF at[n - 1] = NoItem THEN NoItem ELSE h[at[n - 1]].next
  IN  IF which < 0 THEN NoItem ELSE at[which]

GetArraySize(h, a) ==
  LET Ends == {n \in 0..Cardinality(DOMAIN h) : GetArrayItem(h, a, n) = NoItem}
  IN  IF Ends = {} THEN Cardinality(DOMAIN h) + 1 ELSE Min(Ends)

Kids(h, a) == [n \in 1..GetArraySize(h, a) |-> GetArrayItem(h, a, n - 1)]

Matches(name, string, sensitive) ==
  IF sensitive THEN name = string
  ELSE string # NoName /\ Fold[name] = Fold[string]

\* get_object_item: a case sensitive search ends at an item without a name.
GetObjectItem(h, o, name, sensitive) ==
  LET Kid(n) == GetArrayItem(h, o, n)
      Stops == {n \in 0..GetArraySize(h, o) - 1 :
                  \/ Matches(name, h[Kid(n)].string, sensitive)
                  \/ sensitive /\ h[Kid(n)].string = NoName}
  IN  IF Stops = {} \/ h[Kid(Min(Stops))].string = NoName THEN NoItem ELSE Kid(Min(Stops))

\* The least set with i in it that following pointers does not leave: to[j] are those of j.
Reach(i, to) ==
  LET Kept == {S \in SUBSET DOMAIN to : i \in S /\ \A j \in S : to[j] \subseteq S \cup {NoItem}}
  IN  {j \in DOMAIN to : \A S \in Kept : j \in S}

\* cJSON_Delete goes on to the items after i, and to what is not a reference's.
Owns(h) == [j \in DOMAIN h |-> {h[j].next, IF "ref" \in h[j].flags THEN NoItem ELSE h[j].child}]
Owned(h, i) == Reach(i, Owns(h))

\* cJSON_Duplicate copies what is under i, a reference's subitems too.
Copies(h, i) == [j \in DOMAIN h |-> {h[j].child, IF j = i THEN NoItem ELSE h[j].next}]
Copied(h, i) == Reach(i, Copies(h, i))

Follows(h) == [j \in DOMAIN h |-> {h[j].next}]

Free(h, S) == [i \in DOMAIN h |-> IF i \in S THEN New ELSE h[i]]

suffix_object(h, prev, item) == [h EXCEPT ![prev].next = item, ![item].prev = prev]

\* A first item that has no prev makes the call do nothing.
add_item_to_array(h, a, i) ==
  IF a = i THEN h
  ELSE IF h[a].child = NoItem THEN [h EXCEPT ![a].child = i, ![i].prev = i, ![i].next = NoItem]
  ELSE IF h[h[a].child].prev = NoItem THEN h
  ELSE [suffix_object(h, h[h[a].child].prev, i) EXCEPT ![h[a].child].prev = i]

Unlink(h, i) == [h EXCEPT ![i].prev = NoItem, ![i].next = NoItem]

\* cJSON_DetachItemViaPointer, in the order of its assignments.
PassForward(h, p, i) == IF i = h[p].child THEN h ELSE [h EXCEPT ![h[i].prev].next = h[i].next]
PassBack(h, i) == IF h[i].next = NoItem THEN h ELSE [h EXCEPT ![h[i].next].prev = h[i].prev]
PassEnds(h, p, i) ==
  IF i = h[p].child THEN [h EXCEPT ![p].child = h[i].next]
  ELSE IF h[i].next = NoItem THEN [h EXCEPT ![h[p].child].prev = h[i].prev]
  ELSE h

DetachItem(h, p, i) == Unlink(PassEnds(PassBack(PassForward(h, p, i), i), p, i), i)

\* Mutant of InsertBefore: the item before is not linked to the new one.
InsertUnlinked(h, a, after, i) ==
  LET h1 == [h EXCEPT ![i].next = after, ![i].prev = h[after].prev, ![after].prev = i]
  IN  IF after = h1[a].child THEN [h1 EXCEPT ![a].child = i] ELSE h1

\* cJSON_InsertItemInArray before the item after.
InsertBefore(h, a, after, i) ==
  LET h1 == [h EXCEPT ![i].next = after, ![i].prev = h[after].prev, ![after].prev = i]
  IN  IF after = h1[a].child THEN [h1 EXCEPT ![a].child = i]
      ELSE [h1 EXCEPT ![h1[i].prev].next = i]

\* cJSON_ReplaceItemViaPointer up to its cJSON_Delete, in the order of its assignments.
TakeLinks(h, i, r) == [h EXCEPT ![r].next = h[i].next, ![r].prev = h[i].prev]
LinkAfter(h, r) == IF h[r].next = NoItem THEN h ELSE [h EXCEPT ![h[r].next].prev = r]
LinkBefore(h, r) == IF h[r].prev = NoItem THEN h ELSE [h EXCEPT ![h[r].prev].next = r]
LinkLast(h, p, r) == IF h[r].next = NoItem THEN [h EXCEPT ![h[p].child].prev = r] ELSE h

\* Mutant of LinkFirst: a replacement of the only item points back at that item.
LinkOnly(h, p, i, r) == [h EXCEPT ![p].child = r]

LinkFirst(h, p, i, r) ==
  IF h[i].prev = i THEN [h EXCEPT ![r].prev = r, ![p].child = r] ELSE [h EXCEPT ![p].child = r]

ReplaceItem(h, p, i, r) ==
  LET linked == LinkAfter(TakeLinks(h, i, r), r)
  IN  Unlink(IF linked[p].child = i THEN LinkFirst(linked, p, i, r)
             ELSE LinkLast(LinkBefore(linked, r), p, r), i)
-----------------------------------------------------------------------------
(* What callers keep to *)

CanChange(a) == a \in Live(heap) /\ "ref" \notin heap[a].flags
CanGive(i, a) == i \in held /\ (i = a \/ a \notin Owned(heap, i))

CanRefer == Cardinality({i \in Live(heap) : "ref" \in heap[i].flags}) < MaxRefs

\* Nothing that stays points into what is freed.
Unreferenced(h, S) ==
  \A r \in Live(h) \ S : "ref" \in h[r].flags => h[r].child \notin S
-----------------------------------------------------------------------------
(* Making items *)

\* A call that finds no memory and leaves all as it was is a stuttering step.

\* cJSON_CreateNull to cJSON_CreateObject.  cJSON_CreateString and cJSON_CreateRaw free
\* their item when there is no memory for the text.
Create(i, kind) ==
  /\ heap' = [heap EXCEPT ![i] = [New EXCEPT !.type = kind]]
  /\ strs' = IF kind \in Texts THEN strs + 1 ELSE strs
  /\ held' = held \cup {i}
  /\ UNCHANGED lost

\* cJSON_CreateStringReference: the text stays the caller's.
CreateStringReference(i, text) ==
  /\ CanRefer /\ text \in Texts
  /\ heap' = [heap EXCEPT ![i] = [New EXCEPT !.type = text, !.flags = {"ref"}]]
  /\ held' = held \cup {i}
  /\ UNCHANGED <<strs, lost>>

\* cJSON_CreateArrayReference, cJSON_CreateObjectReference: child is in a list or in none.
CreateReference(i, kind, child) ==
  /\ CanRefer /\ kind \in Containers
  /\ heap' = [heap EXCEPT ![i] = [New EXCEPT !.type = kind, !.flags = {"ref"}, !.child = child]]
  /\ held' = held \cup {i}
  /\ UNCHANGED <<strs, lost>>

\* The heap after the first n items of the array a are made in the blocks of at.
Listed(h, a, at, n, kind) ==
  LET made == [h EXCEPT ![a] = [New EXCEPT !.type = "array"]]
      after[m \in 0..n] ==
        IF m = 0 THEN made
        ELSE LET fresh == [after[m - 1] EXCEPT ![at[m]] = [New EXCEPT !.type = kind]]
             IN  IF m = 1 THEN [fresh EXCEPT ![a].child = at[1]]
                 ELSE suffix_object(fresh, at[m - 1], at[m])
  IN  after[n]

\* cJSON_CreateIntArray, Float, Double, String, with at the blocks its items get: at least
\* one (CreateArrayCrashes).
CreateArrayOf(a, at, kind) ==
  LET h == Listed(heap, a, at, Len(at), kind)
  IN  /\ at # <<>>
      /\ heap' = [h EXCEPT ![h[a].child].prev = Last(at)]
      /\ held' = held \cup {a}
      /\ strs' = strs + Cardinality(OwnedStrings(h, ToSet(at)))
      /\ UNCHANGED lost

\* The same for a, what cJSON_CreateArray has returned: the loop ends at once when that is
\* NULL or count is 0, and a->child->prev is written through NULL.
CreateArrayCrashes(a, count) ==
  /\ a = NoItem \/ count = 0
  /\ crashed' = TRUE
  /\ UNCHANGED <<heap, strs, held, lost>>

\* There is memory for a, and none for the item after those of at: the array is deleted.
CreateArrayFails(a, at, kind) ==
  LET h == Listed(heap, a, at, Len(at), kind)
  IN  /\ heap' = Free(h, Owned(h, a))
      /\ strs' = strs + Cardinality(OwnedStrings(h, ToSet(at)))
                      - Cardinality(OwnedStrings(h, Owned(h, a)))
      /\ UNCHANGED <<held, lost>>

\* cJSON_SetNumberHelper, cJSON_SetValuestring: not through a reference's valuestring.
SetValue(i, leaf) ==
  /\ heap[i].type \in Leaves
  /\ heap[i].type \in Texts <=> leaf \in Texts
  /\ leaf \in Texts => "ref" \notin heap[i].flags
  /\ heap' = [heap EXCEPT ![i].type = leaf]
  /\ UNCHANGED <<strs, held, lost>>

\* The copies f[j] of the items j of S, the first that a copy of i comes to; nothing is
\* linked to those of begun, i and what else a call of cJSON_Duplicate has not returned.
CopyOf(i, begun, S, f) ==
  LET To(p) == IF p \in S \ begun THEN f[p] ELSE NoItem
      LastAfter(j) == CHOOSE k \in Reach(j, Follows(heap)) : heap[k].next = NoItem
      Before(j) == IF \E k \in S : heap[k].child = j THEN LastAfter(j)
                   ELSE CHOOSE k \in S : k # i /\ heap[k].next = j
      Copy(j) == [heap[j] EXCEPT !.flags = @ \ {"ref"}, !.child = To(@),
                    !.next = IF j \in begun THEN NoItem ELSE To(@),
                    !.prev = IF j \in begun THEN NoItem ELSE To(Before(j))]
  IN  [m \in DOMAIN heap |-> IF m \in Range(f) THEN Copy(CHOOSE j \in S : f[j] = m) ELSE heap[m]]

\* Nothing under i is come to twice, so that a copy of i ends and is a tree.
IsTree(i) ==
  LET S == Copied(heap, i)
      From(j) == {k \in S : heap[k].child = j} \X {"child"} \cup {k \in S \ {i} : heap[k].next = j} \X {"next"}
  IN  \A j \in S : Cardinality(From(j)) = IF j = i THEN 0 ELSE 1

\* S is made first: with an item, what its list has before it, and their subitems.
MadeFirst(i, S) ==
  /\ i \in S
  /\ \A j \in Copied(heap, i) : \A k \in S \ {i} :
       /\ heap[j].child = k => j \in S
       /\ j # i /\ heap[j].next = k => Copied(heap, j) \subseteq S

\* cJSON_Duplicate of i: with recurse, f copies all there is under it, otherwise i only.
Duplicate(i, f) ==
  LET S == DOMAIN f  h == CopyOf(i, {i}, S, f)
  IN  /\ heap' = h
      /\ strs' = strs + Cardinality(OwnedStrings(h, Range(f)))
      /\ held' = held \cup {f[i]}
      /\ UNCHANGED lost

\* While l is copied, so are the items it is under.
Begun(S, l) == {j \in S : l \in Copied(heap, j)}

\* Mutant of DuplicateFails: only the call for l deletes its copy.
DuplicateFailsShallowly(i, f, l) ==
  LET h == CopyOf(i, Begun(DOMAIN f, l), DOMAIN f, f)
  IN  /\ heap' = Free(h, Owned(h, f[l]))
      /\ strs' = strs + Cardinality(OwnedStrings(h, Range(f))) - Cardinality(OwnedStrings(h, Owned(h, f[l])))
      /\ UNCHANGED <<held, lost>>

\* There is no memory for the next subitem of l, or for its strings (the net count is the
\* same): the call for l, then the one that made it, up to that for i, deletes the copy it
\* has begun, to which the copies are linked of the calls that had returned.
DuplicateFails(i, f, l) ==
  LET begun == Begun(DOMAIN f, l)
      h == CopyOf(i, begun, DOMAIN f, f)
      deleted == UNION {Owned(h, f[j]) : j \in begun}
  IN  /\ \A j \in begun \ {i} : heap[j].next \notin DOMAIN f
      /\ heap' = Free(h, deleted)
      /\ strs' = strs + Cardinality(OwnedStrings(h, Range(f))) - Cardinality(OwnedStrings(h, deleted))
      /\ UNCHANGED <<held, lost>>
-----------------------------------------------------------------------------
(* Giving items to lists *)

AddItemToArray(a, i) ==
  /\ heap[a].type = "array" /\ CanChange(a) /\ CanGive(i, a)
  /\ heap' = add_item_to_array(heap, a, i)
  /\ held' = IF a = i THEN held ELSE held \ {i}
  /\ UNCHANGED <<strs, lost>>

\* The item i with the name it gets; constant says the caller keeps the name.
Named(h, i, name, constant) ==
  [h EXCEPT ![i].string = name,
            ![i].flags = IF constant THEN @ \cup {"const"} ELSE @ \ {"const"}]

\* cJSON_AddItemToObject, cJSON_AddItemToObjectCS: a name the item had and owned is
\* freed.  Without memory for the new one nothing is done.
AddItemToObject(o, name, i, constant) ==
  /\ heap[o].type = "object" /\ CanChange(o) /\ CanGive(i, o) /\ i # o
  /\ LET h == Named(heap, i, name, constant)
     IN  /\ heap' = add_item_to_array(h, o, i)
         /\ strs' = strs + Cardinality(OwnedStrings(h, {i})) - Cardinality(OwnedStrings(heap, {i}))
  /\ held' = held \ {i}
  /\ UNCHANGED lost

create_reference(i) ==
  [heap[i] EXCEPT !.string = NoName, !.flags = @ \cup {"ref"}, !.next = NoItem, !.prev = NoItem]

AddItemReferenceToArray(a, i, r) ==
  /\ CanRefer /\ heap[a].type = "array" /\ CanChange(a) /\ i \in Live(heap)
  /\ heap' = add_item_to_array([heap EXCEPT ![r] = create_reference(i)], a, r)
  /\ UNCHANGED <<strs, held, lost>>

\* When there is no memory for the name, nobody is left with the reference.
AddItemReferenceToObject(o, name, i, r) ==
  /\ CanRefer /\ heap[o].type = "object" /\ CanChange(o) /\ i \in Live(heap)
  /\ LET h == [heap EXCEPT ![r] = create_reference(i)]
     IN  \/ /\ heap' = add_item_to_array(Named(h, r, name, FALSE), o, r)
            /\ strs' = strs + 1
            /\ UNCHANGED lost
         \/ /\ heap' = h
            /\ lost' = lost \cup {r}
            /\ UNCHANGED strs
  /\ UNCHANGED held

\* cJSON_AddNullToObject to cJSON_AddArrayToObject: when the name cannot be copied, the
\* new item is deleted.
AddNewToObject(o, name, i, kind) ==
  /\ heap[o].type = "object" /\ CanChange(o)
  /\ LET h == Named([heap EXCEPT ![i] = [New EXCEPT !.type = kind]], i, name, FALSE)
     IN  /\ heap' = add_item_to_array(h, o, i)
         /\ strs' = strs + Cardinality(OwnedStrings(h, {i}))
  /\ UNCHANGED <<held, lost>>

\* Beyond the last item, the end of the list.
InsertItemInArray(a, which, i) ==
  /\ heap[a].type = "array" /\ CanChange(a) /\ CanGive(i, a) /\ i # a /\ which >= 0
  /\ LET after == GetArrayItem(heap, a, which)
     IN  heap' = IF after = NoItem THEN add_item_to_array(heap, a, i) ELSE InsertBefore(heap, a, after, i)
  /\ held' = held \ {i}
  /\ UNCHANGED <<strs, lost>>
-----------------------------------------------------------------------------
(* Taking items out, and deleting them *)

DetachAny(p, i) ==
  /\ CanChange(p) /\ i # NoItem
  /\ heap' = DetachItem(heap, p, i)
  /\ held' = held \cup {i}
  /\ UNCHANGED <<strs, lost>>

DetachItemFromArray(a, which) == heap[a].type = "array" /\ DetachAny(a, GetArrayItem(heap, a, which))

DetachItemFromObject(o, name, sensitive) ==
  heap[o].type = "object" /\ DetachAny(o, GetObjectItem(heap, o, name, sensitive))

\* cJSON_Delete(i) of an item that h has outside of all lists.
DeleteFrom(h, i) ==
  /\ Unreferenced(h, Owned(h, i))
  /\ heap' = Free(h, Owned(h, i))
  /\ strs' = strs - Cardinality(OwnedStrings(h, Owned(h, i)))

DeleteItem(p, i) ==
  /\ CanChange(p) /\ i # NoItem
  /\ DeleteFrom(DetachItem(heap, p, i), i)
  /\ UNCHANGED <<held, lost>>

DeleteItemFromArray(a, which) == heap[a].type = "array" /\ DeleteItem(a, GetArrayItem(heap, a, which))

DeleteItemFromObject(o, name, sensitive) ==
  heap[o].type = "object" /\ DeleteItem(o, GetObjectItem(heap, o, name, sensitive))

Delete(i) ==
  /\ i \in held
  /\ DeleteFrom(heap, i)
  /\ held' = held \ {i}
  /\ UNCHANGED lost

\* The item i of the list of p, if there is one, is replaced by r and deleted.
ReplaceAny(h, p, i, r) ==
  LET replaced == ReplaceItem(h, p, i, r)
  IN  \/ /\ i # NoItem
         /\ Unreferenced(replaced, Owned(replaced, i))
         /\ heap' = Free(replaced, Owned(replaced, i))
         /\ held' = held \ {r}
         /\ strs' = strs + Cardinality(OwnedStrings(h, {r})) - Cardinality(OwnedStrings(heap, {r}))
                         - Cardinality(OwnedStrings(replaced, Owned(replaced, i)))
      \/ /\ i = NoItem
         /\ heap' = h
         /\ strs' = strs + Cardinality(OwnedStrings(h, {r})) - Cardinality(OwnedStrings(heap, {r}))
         /\ UNCHANGED held

ReplaceItemInArray(a, which, r) ==
  /\ heap[a].type = "array" /\ CanChange(a) /\ CanGive(r, a) /\ r # a
  /\ ReplaceAny(heap, a, GetArrayItem(heap, a, which), r)
  /\ UNCHANGED lost

\* The replacement is named first.  Without memory for the name it has none, and goes on
\* to take the place.
ReplaceItemInObject(o, name, r, sensitive) ==
  /\ heap[o].type = "object" /\ CanChange(o) /\ CanGive(r, o) /\ r # o
  /\ \E new \in {name, NoName} : LET h == Named(heap, r, new, FALSE) IN
       ReplaceAny(h, o, GetObjectItem(h, o, name, sensitive), r)
  /\ UNCHANGED lost
-----------------------------------------------------------------------------
Making ==
  \E i \in Unused :
    \/ \E kind \in Kinds :
         \/ Create(i, kind) \/ CreateStringReference(i, kind)
         \/ \E child \in Live(heap) : CreateReference(i, kind, child)
    \/ \E n \in Counts : \E at \in [1..n -> Unused \ {i}], kind \in Leaves :
         IsInjective(at) /\ (CreateArrayOf(i, at, kind) \/ CreateArrayFails(i, at, kind))

Copying ==
  \E i \in Live(heap) :
    \/ \E copy \in Unused : Duplicate(i, [j \in {i} |-> copy])
    \/ IsTree(i) /\ \E S \in SUBSET Copied(heap, i) : \E f \in Injection(S, Unused) :
         \/ S = Copied(heap, i) /\ Duplicate(i, f)
         \/ MadeFirst(i, S) /\ \E l \in S : DuplicateFails(i, f, l)

Giving ==
  \E a \in Live(heap) :
    \/ \E i \in held :
         \/ AddItemToArray(a, i)
         \/ \E which \in Indices : InsertItemInArray(a, which, i)
         \/ \E name \in Names, constant \in BOOLEAN : AddItemToObject(a, name, i, constant)
    \/ \E i \in Live(heap), r \in Unused :
         AddItemReferenceToArray(a, i, r) \/ \E name \in Names : AddItemReferenceToObject(a, name, i, r)
    \/ \E i \in Unused, name \in Names, kind \in Kinds : AddNewToObject(a, name, i, kind)

Taking ==
  \E a \in Live(heap) :
    \/ \E which \in Indices : DetachItemFromArray(a, which) \/ DeleteItemFromArray(a, which)
    \/ \E name \in DOMAIN Fold, sensitive \in BOOLEAN :
         DetachItemFromObject(a, name, sensitive) \/ DeleteItemFromObject(a, name, sensitive)
    \/ \E r \in held :
         \/ \E which \in Indices : ReplaceItemInArray(a, which, r)
         \/ \E name \in Names, sensitive \in BOOLEAN : ReplaceItemInObject(a, name, r, sensitive)

Call ==
  \/ Making \/ Copying \/ Giving \/ Taking
  \/ \E i \in Live(heap), leaf \in Leaves : SetValue(i, leaf)
  \/ \E i \in held : Delete(i)

Next ==
  /\ ~crashed
  /\ \/ Call /\ UNCHANGED crashed
     \/ \E a \in Unused \cup {NoItem}, count \in Counts : CreateArrayCrashes(a, count)

Spec == Init /\ [][Next]_vars
-----------------------------------------------------------------------------
TypeOK ==
  /\ heap \in [Items -> Item]
  /\ strs \in Nat
  /\ held \subseteq Live(heap)
  /\ lost \subseteq Live(heap) \ held
  /\ crashed \in BOOLEAN

Lists == {a \in Live(heap) : heap[a].type \in {"array", "object"} /\ "ref" \notin heap[a].flags}

\* cJSON.h: "next/prev allow you to walk array/object chains", and add_item_to_array:
\* "To find the last item in array quickly, we use prev in array": every list ends, its
\* items point back at one another, the first at the last, and no other item is linked
\* to anything ("->next and ->prev pointers are always zero on return from Duplicate").
WellLinked ==
  /\ \A a \in Lists : LET s == Kids(heap, a) IN
       /\ Len(s) <= Cardinality(Items)
       /\ \A n \in DOMAIN s : heap[s[n]].prev = s[IF n = 1 THEN Len(s) ELSE n - 1]
  /\ \A i \in held : heap[i].next = NoItem /\ heap[i].prev = NoItem

\* Every block of an item or of a string has one owner, and pointers lead to blocks that
\* are allocated ("cJSON_Delete: Delete a cJSON entity and all subentities"), also after a
\* call that found no memory and came back (CreateArrayCrashes does not): every item is
\* under one the program holds, or is the one kind of reference a call forgets; a name or
\* text has one item that will free it, and not one that only refers to it; nothing points
\* into a block that was freed with an array, a member, a copy given up.
EveryBlockOwned ==
  /\ Live(heap) = UNION {Owned(heap, i) : i \in held \cup lost}
  /\ strs = Cardinality(OwnedStrings(heap, Live(heap)))
  /\ \A i \in Live(heap) : {heap[i].next, heap[i].prev, heap[i].child} \subseteq Live(heap) \cup {NoItem}

Forest == INSTANCE JsonForest WITH
  kids <- [i \in Live(heap) |-> IF "ref" \in heap[i].flags THEN <<>> ELSE Kids(heap, i)],
  roots <- held \cup lost

\* Through all pointers the items are the forest that the program thinks of: an
\* operation changes one list, in one place.
ImplementsForest == Forest!Spec
===============================================================================
