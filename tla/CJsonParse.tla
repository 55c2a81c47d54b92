------------------------------- MODULE CJsonParse -------------------------------
(***************************************************************************)
(* xface/cJSON.c: cJSON_ParseWithOpts and the functions it calls, one step *)
(* for each of them that can return.  The calls that are not over are the  *)
(* frames: each has the list of items it has made and will delete if it    *)
(* fails.  A text is a sequence of characters with its NUL; one character  *)
(* stands for a literal (n), a string (s), a string with a bad escape (b), *)
(* a quote that no other follows (q).                                     *)
(***************************************************************************)
EXTENDS Integers, SequencesExt

CONSTANTS
  Texts,         \* what may be parsed
  NestingLimit,  \* CJSON_NESTING_LIMIT
  NumberLimit,   \* the characters of a number that are looked at: 63
  NoError        \* global_error.json is NULL

CJsonParseAssumption ==
  /\ NestingLimit \in Nat /\ NumberLimit \in Nat \ {0}
  /\ NoError \notin Nat
  /\ \A t \in Texts : t \in Seq(STRING) /\ t # <<>> /\ t[Len(t)] = "NUL"

VARIABLES
  text,    \* value
  strict,  \* require_null_terminated: "yes" or "no"
  memory,  \* "short" if an allocation may fail, "enough" if none does
  pc,      \* where the call is
  offset,  \* input_buffer.offset
  frames,  \* the calls of parse_array and parse_object, below them cJSON_Parse's own
  blocks,  \* how many blocks are allocated
  error    \* global_error: its position

vars == <<text, strict, memory, pc, offset, frames, blocks, error>>

\* kids: the values parsed; own: the blocks of the list; name: of the member at hand.
Frame(kind, kids, own, name) == [kind |-> kind, kids |-> kids, own |-> own, name |-> name]
Top == frames[Len(frames)]

Init ==
  /\ text \in Texts /\ strict \in {"yes", "no"} /\ memory \in {"enough", "short"}
  /\ pc = "begin" /\ offset = 0 /\ frames = <<>> /\ blocks = 0
  /\ error \in {NoError, 0}

Length == Len(text)
At(o) == IF o < Length THEN text[o + 1] ELSE "outside"

\* buffer_skip_whitespace from o: all characters up to 32, so that NUL is one; if there
\* is nothing else the last of them.
Skip(o) ==
  LET Solid == {p \in o..Length - 1 : At(p) \notin {" ", "NUL"}}
  IN  IF o >= Length THEN o
      ELSE IF Solid = {} THEN Length - 1
      ELSE CHOOSE p \in Solid : \A q \in Solid : p <= q

Goto(there) == pc' = there
Fail == Goto("fail")
Keep == UNCHANGED <<text, strict, memory, error>>

\* parse_number at o: how many characters strtod takes of those copied.
NumberLength(o) ==
  LET Copied == {n \in 0..NumberLimit : \A m \in 0..n - 1 : At(o + m) \in {"1", "-"}}
      Valid(n) == /\ n > (IF At(o) = "-" THEN 1 ELSE 0)
                  /\ \A m \in 1..n - 1 : At(o + m) = "1"
      Taken == {n \in Copied : Valid(n)}
  IN  IF Taken = {} THEN 0 ELSE CHOOSE n \in Taken : \A m \in Taken : m <= n

\* The call at the top has these kids, so many blocks more, and this name at hand.
WithTop(fs, kids, made, name) ==
  LET f == fs[Len(fs)]
  IN  [fs EXCEPT ![Len(fs)] = Frame(f.kind, kids, f.own + made, name)]

\* The value v is the last item of the list at the top; made: the blocks it has.
Put(fs, v, made) ==
  LET f == fs[Len(fs)]
      item == IF f.kind = "object" THEN <<f.name, v>> ELSE v
  IN  WithTop(fs, Append(f.kids, item), made, f.name)
-----------------------------------------------------------------------------
\* cJSON_ParseWithLengthOpts: the root item; a byte order mark and blanks are skipped.
Begin ==
  /\ pc = "begin"
  /\ error' = NoError
  /\ \/ /\ offset' = Skip(IF At(0) = "BOM" /\ Length > 2 THEN 1 ELSE 0)
        /\ frames' = <<Frame("root", <<>>, 1, "none")>>
        /\ blocks' = 1
        /\ Goto("value")
     \/ /\ memory = "short" /\ Fail
        /\ UNCHANGED <<offset, frames, blocks>>
  /\ UNCHANGED <<text, strict, memory>>

\* parse_value: null, true, false.
ParseLiteral ==
  /\ pc = "value" /\ At(offset) = "n"
  /\ offset' = offset + 1
  /\ frames' = Put(frames, <<"leaf", "n">>, 0)
  /\ Goto("after")
  /\ Keep /\ UNCHANGED blocks

\* parse_number.
ParseNumber ==
  /\ pc = "value" /\ At(offset) \in {"1", "-"}
  /\ \/ /\ NumberLength(offset) > 0
        /\ offset' = offset + NumberLength(offset)
        /\ frames' = Put(frames, <<"leaf", "1">>, 0)
        /\ Goto("after")
     \/ /\ NumberLength(offset) = 0
        /\ Fail
        /\ UNCHANGED <<offset, frames>>
  /\ Keep /\ UNCHANGED blocks

\* parse_string, called for a value or for a name.  It fails on a bad escape, or without
\* memory, inside the literal; without a literal the offset is set to the next character.
ParseString ==
  /\ pc = "name" \/ (pc = "value" /\ At(offset) \in {"s", "b", "q"})
  /\ \/ /\ At(offset) = "s"
        /\ offset' = offset + 1
        /\ blocks' = blocks + 1
        /\ \/ pc = "value" /\ frames' = Put(frames, <<"leaf", "s">>, 1) /\ Goto("after")
           \/ /\ pc = "name" /\ Goto("colon")
              /\ frames' = WithTop(frames, Top.kids, 1, "s")
     \/ /\ memory = "short" \/ At(offset) # "s"
        /\ Fail
        /\ offset' = IF At(offset) \in {"s", "b"} THEN offset ELSE offset + 1
        /\ UNCHANGED <<blocks, frames>>
  /\ Keep

\* parse_value: nothing that begins a value.
NoValue ==
  /\ pc = "value" /\ At(offset) \notin {"n", "1", "-", "s", "b", "q", "[", "{"}
  /\ Fail
  /\ Keep /\ UNCHANGED <<offset, frames, blocks>>

\* parse_array, parse_object, up to the first blanks.
Open ==
  /\ pc = "value" /\ At(offset) \in {"[", "{"}
  /\ \/ /\ Len(frames) - 1 < NestingLimit
        /\ LET kind == IF At(offset) = "[" THEN "array" ELSE "object"
           IN  frames' = Append(frames, Frame(kind, <<>>, 0, "none"))
        /\ offset' = Skip(offset + 1)
        /\ Goto("first")
     \/ /\ Len(frames) - 1 >= NestingLimit
        /\ Fail
        /\ UNCHANGED <<offset, frames>>
  /\ Keep /\ UNCHANGED blocks

Closing == IF Top.kind = "array" THEN "]" ELSE "}"

\* The array or object is over: it is the value of the item below.
Success ==
  /\ frames' = Put(Front(frames), <<Top.kind, Top.kids>>, Top.own)
  /\ offset' = offset + 1
  /\ Goto("after")

\* Right after the bracket: empty, or the offset steps back for the loop to begin.
OpenNext ==
  /\ pc = "first"
  /\ \/ At(offset) = Closing /\ Success
     \/ At(offset) # Closing /\ offset' = offset - 1 /\ Goto("item") /\ UNCHANGED frames
  /\ Keep /\ UNCHANGED blocks

\* The loop: a new item, then a name or a value behind the bracket or comma.
NextItem ==
  /\ pc = "item"
  /\ \/ /\ blocks' = blocks + 1
        /\ frames' = WithTop(frames, Top.kids, 1, Top.name)
        /\ offset' = Skip(offset + 1)
        /\ Goto(IF Top.kind = "array" THEN "value" ELSE "name")
     \/ /\ memory = "short" /\ Fail
        /\ UNCHANGED <<offset, frames, blocks>>
  /\ Keep

Colon ==
  /\ pc = "colon"
  /\ \/ At(Skip(offset)) = ":" /\ offset' = Skip(Skip(offset) + 1) /\ Goto("value")
     \/ At(Skip(offset)) # ":" /\ offset' = Skip(offset) /\ Fail
  /\ Keep /\ UNCHANGED <<frames, blocks>>

\* Mutant of After: what is not a comma ends the list.
AfterAnything ==
  /\ pc = "after" /\ Len(frames) > 1
  /\ \/ At(Skip(offset)) = "," /\ offset' = Skip(offset) /\ Goto("item") /\ UNCHANGED frames
     \/ /\ At(Skip(offset)) # ","
        /\ frames' = Put(Front(frames), <<Top.kind, Top.kids>>, Top.own)
        /\ offset' = Skip(offset) + 1
        /\ Goto("after")
  /\ Keep /\ UNCHANGED blocks

\* parse_value has returned to parse_array or parse_object: a comma goes on, the
\* closing bracket ends.
After ==
  /\ pc = "after" /\ Len(frames) > 1
  /\ \/ At(Skip(offset)) = "," /\ offset' = Skip(offset) /\ Goto("item") /\ UNCHANGED frames
     \/ /\ At(Skip(offset)) = Closing
        /\ frames' = Put(Front(frames), <<Top.kind, Top.kids>>, Top.own)
        /\ offset' = Skip(offset) + 1
        /\ Goto("after")
     \/ /\ At(Skip(offset)) \notin {",", Closing}
        /\ offset' = Skip(offset) /\ Fail /\ UNCHANGED frames
  /\ Keep /\ UNCHANGED blocks

\* parse_value has returned to cJSON_ParseWithLengthOpts.
End ==
  /\ pc = "after" /\ Len(frames) = 1
  /\ \/ strict = "no" /\ Goto("done") /\ UNCHANGED offset
     \/ /\ strict = "yes"
        /\ offset' = Skip(offset)
        /\ Goto(IF At(Skip(offset)) = "NUL" THEN "done" ELSE "fail")
  /\ Keep /\ UNCHANGED <<frames, blocks>>

\* Mutant of Unwind: the list of an object is not deleted.
UnwindArrays ==
  /\ pc = "fail" /\ frames # <<>>
  /\ frames' = Front(frames)
  /\ blocks' = IF Top.kind = "object" THEN blocks ELSE blocks - Top.own
  /\ Keep /\ UNCHANGED <<pc, offset>>

\* fail: of parse_array, parse_object and, at last, cJSON_ParseWithLengthOpts.
Unwind ==
  /\ pc = "fail" /\ frames # <<>>
  /\ frames' = Front(frames)
  /\ blocks' = blocks - Top.own
  /\ Keep /\ UNCHANGED <<pc, offset>>

SetError ==
  /\ pc = "fail" /\ frames = <<>>
  /\ error' = IF offset < Length THEN offset ELSE Length - 1
  /\ Goto("failed")
  /\ UNCHANGED <<text, strict, memory, offset, frames, blocks>>

\* The caller has its answer.
Over == pc \in {"done", "failed"} /\ UNCHANGED vars

Next ==
  \/ Begin \/ ParseLiteral \/ ParseNumber \/ ParseString \/ NoValue
  \/ Open \/ OpenNext \/ NextItem \/ Colon \/ After
  \/ End \/ Unwind \/ SetError \/ Over

Spec == Init /\ [][Next]_vars
-----------------------------------------------------------------------------
TypeOK ==
  /\ strict \in {"yes", "no"} /\ memory \in {"enough", "short"}
  /\ pc \in {"begin", "value", "name", "colon", "first", "item", "after", "fail", "done", "failed"}
  /\ offset \in 0..Length
  /\ \A n \in DOMAIN frames :
       /\ frames[n].kind \in IF n = 1 THEN {"root"} ELSE {"array", "object"}
       /\ frames[n].own \in Nat
  /\ Len(frames) <= NestingLimit + 1
  /\ blocks \in Nat
  /\ error \in Nat \cup {NoError}

\* No character is looked at, without asking whether there is one, behind the NUL.
LooksInsideText ==
  pc \in {"value", "name", "first", "colon", "after"} => Skip(offset) < Length /\ offset < Length

\* Every block belongs to a list of a call that is not over: after a failure at any
\* place, memory included, none is left, and none is freed twice.
BlocksHaveOwners ==
  LET owned[n \in 0..Len(frames)] == IF n = 0 THEN 0 ELSE owned[n - 1] + frames[n].own
  IN  blocks = owned[Len(frames)]
===============================================================================
