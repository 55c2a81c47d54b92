--------------------------- MODULE CJsonPrintString ---------------------------
(***************************************************************************)
(* xface/cJSON.c: print_string_ptr, as the bytes it prints for the bytes   *)
(* of a string and as the size it asks of ensure() before.                 *)
(***************************************************************************)
EXTENDS Integers, SequencesExt, FiniteSetsExt

Quote == 34
Backslash == 92

\* The bytes behind a backslash for those that cannot stand alone.
Short == 34 :> 34 @@ 92 :> 92 @@ 8 :> 98 @@ 12 :> 102 @@ 10 :> 110 @@ 13 :> 114 @@ 9 :> 116
HexDigit(d) == IF d < 10 THEN 48 + d ELSE 87 + d

Escaped(b) ==
  IF b \in DOMAIN Short THEN <<Backslash, Short[b]>>
  ELSE IF b < 32 THEN <<Backslash, 117, 48, 48, HexDigit(b \div 16), HexDigit(b % 16)>>
  ELSE <<b>>

print_string_ptr(s) == <<Quote>> \o FlattenSeq([n \in DOMAIN s |-> Escaped(s[n])]) \o <<Quote>>

\* Mutant of Ensured: an escape counts for its backslash only.
EnsuredShort(s) ==
  Len(s) + Cardinality({n \in DOMAIN s : s[n] \in DOMAIN Short \/ s[n] < 32}) + 3

\* The size, its escape_characters counted by another rule than Escaped.
Ensured(s) ==
  LET once == {n \in DOMAIN s : s[n] \in DOMAIN Short}
      codes == {n \in DOMAIN s : s[n] \notin DOMAIN Short /\ s[n] < 32}
  IN  Len(s) + Cardinality(once) + 5 * Cardinality(codes) + 3
===============================================================================
