------------------------------- MODULE CJsonPrint -------------------------------
(***************************************************************************)
(* xface/cJSON.c: print_value, print_array, print_object and print_string  *)
(* as the pieces they put into the buffer of CJsonBuffer for an item, one  *)
(* after the other.  A literal, a string with its quotes, a tab, a newline *)
(* are one character (the last two are blank); a number has Digits of them. *)
(***************************************************************************)
EXTENDS CJsonBuffer, SequencesExt, FiniteSetsExt

CONSTANTS
  Items,   \* the items that may be printed
  Digits   \* how many characters a number is printed with

VARIABLES
  value,   \* item
  format,  \* "yes" or "no"
  script   \* what is left to do

pvars == <<vars, value, format, script>>

Piece(need, put, adv) == [op |-> "put", need |-> need, put |-> put, adv |-> adv]
Update == [op |-> "update"]
Wrong == [op |-> "refuse"]

Blank(n) == [m \in 1..n |-> " "]

\* print_number: it moves the offset itself.
print_number == Piece(Digits + 1, [m \in 1..Digits |-> "1"] \o <<"NUL">>, Digits)

\* The literals of print_value, a raw text, print_string_ptr: ensure counts the NUL.
print_text(x) == Piece(2, <<x, "NUL">>, 0)

\* Mutant of Comma: behind the last element, too.
CommaAlways(fmt, more) ==
  LET len == IF fmt = "yes" THEN 2 ELSE 1
  IN  <<Piece(len + 1, <<",">> \o Blank(len - 1) \o <<"NUL">>, len)>>

\* Between the elements of an array.
Comma(fmt, more) ==
  LET len == IF fmt = "yes" THEN 2 ELSE 1
  IN  IF more THEN <<Piece(len + 1, <<",">> \o Blank(len - 1) \o <<"NUL">>, len)>> ELSE <<>>

CloseArray == Piece(2, <<"]", "NUL">>, 0)

\* The parts of an object depth deep: before the members, before a name, after it, after
\* a member, at the end.
OpenObject(fmt) ==
  LET len == IF fmt = "yes" THEN 2 ELSE 1
  IN  Piece(len + 1, <<"{">> \o Blank(len - 1), len)
Indent(fmt, depth) == IF fmt = "yes" THEN <<Piece(depth, Blank(depth), depth)>> ELSE <<>>
Between(fmt) ==
  LET len == IF fmt = "yes" THEN 2 ELSE 1
  IN  Piece(len, <<":">> \o Blank(len - 1), len)
Behind(fmt, more) ==
  LET put == (IF more THEN <<",">> ELSE <<>>) \o (IF fmt = "yes" THEN <<" ">> ELSE <<>>)
  IN  Piece(Len(put) + 1, put \o <<"NUL">>, Len(put))

\* Mutant of CloseObject: room for a line of its own.
CloseObjectGenerously(fmt, depth) ==
  Piece(depth + 9, Blank(IF fmt = "yes" THEN depth - 1 ELSE 0) \o <<"}", "NUL">>, 0)

CloseObject(fmt, depth) ==
  Piece(IF fmt = "yes" THEN depth + 1 ELSE 2,
        Blank(IF fmt = "yes" THEN depth - 1 ELSE 0) \o <<"}", "NUL">>, 0)

\* print_value, the item depth deep: no type of its own is refused.
RECURSIVE print_value(_, _, _)
print_value(v, fmt, depth) ==
  LET Element(n) == print_value(v[2][n], fmt, depth + 1) \o <<Update>> \o Comma(fmt, n < Len(v[2]))
      Member(n) ==
        Indent(fmt, depth + 1)
          \o <<print_text(v[2][n][1]), Update, Between(fmt)>>
          \o print_value(v[2][n][2], fmt, depth + 1)
          \o <<Update, Behind(fmt, n < Len(v[2]))>>
  IN  CASE v[1] = "array" ->
             <<Piece(1, <<"[">>, 1)>> \o FlattenSeq([n \in DOMAIN v[2] |-> Element(n)]) \o <<CloseArray>>
        [] v[1] = "object" ->
             <<OpenObject(fmt)>> \o FlattenSeq([n \in DOMAIN v[2] |-> Member(n)])
               \o <<CloseObject(fmt, depth + 1)>>
        [] v = <<"leaf", "1">> -> <<print_number>>
        [] v = <<"leaf", "none">> -> <<Wrong>>
        [] OTHER -> <<print_text(v[2])>>

PInit ==
  /\ Init
  /\ value \in Items /\ format \in {"yes", "no"}
  /\ script = print_value(value, format, 0)
-----------------------------------------------------------------------------
\* A piece is put; what fails ends all of it.
Put ==
  /\ pc = "printing" /\ script # <<>> /\ Head(script).op = "put"
  /\ PutPiece(Head(script))
  /\ script' = IF pc' = "failing" THEN <<>> ELSE Tail(script)
  /\ UNCHANGED <<value, format>>

PassOver ==
  /\ script # <<>> /\ Head(script).op = "update"
  /\ update_offset
  /\ script' = Tail(script)
  /\ UNCHANGED <<value, format>>

\* print_value, print_array or print_object return false.
GiveUp ==
  /\ script # <<>> /\ Head(script).op = "refuse"
  /\ Refuse
  /\ script' = <<>>
  /\ UNCHANGED <<value, format>>

Printed ==
  /\ script = <<>>
  /\ Shrink \/ Return
  /\ UNCHANGED <<value, format, script>>

PNext ==
  \/ (Start /\ UNCHANGED <<value, format, script>>)
  \/ Put \/ PassOver \/ GiveUp \/ Printed
  \/ (Fail /\ UNCHANGED <<value, format, script>>)
  \/ (Over /\ UNCHANGED <<value, format, script>>)

PSpec == PInit /\ [][PNext]_pvars
-----------------------------------------------------------------------------
\* What the caller reads: up to the first NUL.
Text ==
  LET size == Min({n \in DOMAIN cells : cells[n] = "NUL"})
  IN  [n \in 1..size |-> cells[n - 1]]

\* update_offset and the reader of the result find the end of what was written: between
\* the offset and a NUL every character was written by this call.
FindsTheEnd ==
  \/ pc \notin {"printing", "done"}
  \/ pc = "printing" /\ script # <<>> /\ Head(script).op # "update"
  \/ \E n \in Ends : offset..n \subseteq DOMAIN cells
===============================================================================
