------------------------------ MODULE CJsonBuffer ------------------------------
(***************************************************************************)
(* xface/cJSON.c: the print buffer.  Everything that is printed is put     *)
(* into it in pieces: ensure() room for a number of characters, write some *)
(* at the offset, move the offset by some; a piece that leaves the offset  *)
(* in front of what it wrote is passed over later by update_offset().  The *)
(* buffer grows, or is given by the caller and does not.                   *)
(***************************************************************************)
EXTENDS Integers, Sequences

CONSTANTS
  Pieces,       \* [need, put, adv] of the calls of ensure and the writes behind them
  Sizes,        \* what callers give as prebuffer or length
  DefaultSize,  \* default_buffer_size: 256
  IntMax        \* INT_MAX

ASSUME CJsonBufferAssumption ==
  /\ Sizes \subseteq Nat /\ DefaultSize \in Nat \ {0} /\ IntMax \in Nat \ {0}
  /\ \A p \in Pieces :
       /\ p.need \in Nat /\ p.adv \in Nat /\ p.put \in Seq(STRING)
       /\ Len(p.put) <= p.need /\ p.adv <= Len(p.put)

VARIABLES
  call,    \* "print", "buffered" (cJSON_PrintBuffered) or "preallocated"
  hooks,   \* "realloc", or "malloc" where hooks.reallocate is NULL
  memory,  \* "short" if an allocation may fail, "enough" if none does
  pc,      \* where the call is
  buffer,  \* "null" or "held"
  length,  \* how many characters the buffer has
  cells,   \* those of them that were written
  offset,
  blocks   \* how many blocks are allocated

given == <<call, hooks, memory>>
vars == <<given, pc, buffer, length, cells, offset, blocks>>

\* Nothing is written.
Nothing == [n \in {} |-> "NUL"]

Init ==
  /\ call \in {"print", "buffered", "preallocated"}
  /\ hooks \in {"realloc", "malloc"} /\ memory \in {"enough", "short"}
  /\ pc = "begin" /\ buffer = "null"
  /\ length \in IF call = "print" THEN {DefaultSize} ELSE Sizes
  /\ cells = Nothing /\ offset = 0 /\ blocks = 0

\* cells with s written from o on; its first n.
Write(c, o, s) ==
  [n \in DOMAIN c \cup o..o + Len(s) - 1 |-> IF n \in o..o + Len(s) - 1 THEN s[n - o + 1] ELSE c[n]]
First(c, n) == [m \in DOMAIN c \cap 0..n - 1 |-> c[m]]

\* strlen from the offset on: where the string ends.
Ends == {n \in DOMAIN cells : n >= offset /\ cells[n] = "NUL"}
End(n) == n \in Ends /\ \A m \in Ends : n <= m

\* ensure, the sizes.
Total(p) == p.need + offset + 1
Valid(p) == (length = 0 \/ offset < length) /\ p.need <= IntMax
Fits(p) == Valid(p) /\ Total(p) <= length
CanGrow(p) == Valid(p) /\ Total(p) > length /\ call # "preallocated" /\ Total(p) <= IntMax
-----------------------------------------------------------------------------
\* print, cJSON_PrintBuffered and cJSON_PrintPreallocated up to print_value.
Start ==
  /\ pc = "begin"
  /\ \/ /\ pc' = "printing" /\ buffer' = "held"
        /\ blocks' = IF call = "preallocated" THEN 0 ELSE 1
     \/ /\ call # "preallocated" /\ memory = "short"
        /\ pc' = "failed"
        /\ UNCHANGED <<buffer, blocks>>
  /\ UNCHANGED <<given, length, cells, offset>>

\* Mutant of AppendFits: the offset is forgotten.
AppendFromStart(p) ==
  /\ Valid(p) /\ p.need <= length
  /\ cells' = Write(cells, offset, p.put)
  /\ offset' = offset + p.adv
  /\ UNCHANGED <<given, pc, buffer, length, blocks>>

\* ensure finds room.
AppendFits(p) ==
  /\ Fits(p)
  /\ cells' = Write(cells, offset, p.put)
  /\ offset' = offset + p.adv
  /\ UNCHANGED <<given, pc, buffer, length, blocks>>

NewSize(total) == IF total > IntMax \div 2 THEN IntMax ELSE total * 2

\* ensure makes room: by realloc, or by a copy up to the offset.
AppendGrows(p) ==
  /\ CanGrow(p)
  /\ length' = NewSize(Total(p))
  /\ cells' = Write(IF hooks = "realloc" THEN cells ELSE First(cells, offset + 1), offset, p.put)
  /\ offset' = offset + p.adv
  /\ UNCHANGED <<given, pc, buffer, blocks>>

\* ensure has no memory: it frees the buffer.
AppendFails(p) ==
  /\ CanGrow(p) /\ memory = "short"
  /\ pc' = "failing" /\ buffer' = "null" /\ length' = 0 /\ cells' = Nothing /\ blocks' = blocks - 1
  /\ UNCHANGED <<given, offset>>

\* ensure refuses: a size beyond INT_MAX, or a buffer that may not grow.
AppendRefused(p) ==
  /\ ~Fits(p) /\ ~CanGrow(p)
  /\ pc' = "failing"
  /\ UNCHANGED <<given, buffer, length, cells, offset, blocks>>

PutPiece(p) ==
  /\ pc = "printing"
  /\ AppendFits(p) \/ AppendGrows(p) \/ AppendFails(p) \/ AppendRefused(p)

\* Something else that print_value returns false for.
Refuse ==
  /\ pc = "printing"
  /\ pc' = "failing"
  /\ UNCHANGED <<given, buffer, length, cells, offset, blocks>>

update_offset ==
  /\ pc = "printing"
  /\ \E n \in Ends : End(n) /\ offset' = n
  /\ UNCHANGED <<given, pc, buffer, length, cells, blocks>>

\* print_value returns true to print: the text is moved to a block of its size.
Shrink ==
  /\ pc = "printing" /\ call = "print"
  /\ \E n \in Ends : End(n) /\ offset' = n
  /\ \/ /\ pc' = "done"
        /\ length' = offset' + 1
        /\ cells' = First(cells, offset' + 1)
        /\ UNCHANGED <<buffer, blocks>>
     \/ /\ memory = "short" /\ pc' = "failing"
        /\ UNCHANGED <<buffer, length, cells, blocks>>
  /\ UNCHANGED given

\* To the others: the buffer is the result.
Return ==
  /\ pc = "printing" /\ call # "print"
  /\ pc' = "done"
  /\ UNCHANGED <<given, buffer, length, cells, offset, blocks>>

\* Mutant of Fail: the caller's buffer is freed, too.
FailFreesAny ==
  /\ pc = "failing"
  /\ pc' = "failed"
  /\ blocks' = IF buffer = "held" THEN blocks - 1 ELSE blocks
  /\ UNCHANGED <<given, buffer, length, cells, offset>>

\* fail: a buffer of its own is freed.
Fail ==
  /\ pc = "failing"
  /\ pc' = "failed"
  /\ blocks' = IF buffer = "held" /\ call # "preallocated" THEN blocks - 1 ELSE blocks
  /\ UNCHANGED <<given, buffer, length, cells, offset>>

Over == pc \in {"done", "failed"} /\ UNCHANGED vars

Next ==
  \/ Start \/ (\E p \in Pieces : PutPiece(p)) \/ Refuse \/ update_offset
  \/ Shrink \/ Return \/ Fail \/ Over

Spec == Init /\ [][Next]_vars
-----------------------------------------------------------------------------
TypeOK ==
  /\ call \in {"print", "buffered", "preallocated"}
  /\ hooks \in {"realloc", "malloc"} /\ memory \in {"enough", "short"}
  /\ pc \in {"begin", "printing", "failing", "done", "failed"}
  /\ buffer \in {"null", "held"}
  /\ length \in Nat /\ offset \in Nat
  /\ DOMAIN cells \subseteq Nat /\ blocks \in 0..1

\* Nothing is written outside the buffer, however it grew, and never so much that the
\* offset is behind it: the first test of ensure never refuses.
WritesFit ==
  /\ \A n \in DOMAIN cells : n < length
  /\ buffer = "held" => offset < length \/ offset = 0

\* The buffer is freed once on every way that fails, and is the one block left else.
OneBuffer ==
  blocks = IF call = "preallocated" \/ pc \in {"begin", "failed"} \/ buffer = "null" THEN 0 ELSE 1

\* Sizes stay in an int, whatever they are asked for.
SizesStayInts ==
  \/ length <= IntMax
  \/ IF call = "print" THEN length <= DefaultSize ELSE length \in Sizes

\* A buffer of the caller's is never freed and never replaced by another.
CallersBuffer == [][call = "preallocated" => length' = length /\ blocks' = blocks]_vars
===============================================================================
