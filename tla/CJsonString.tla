------------------------------ MODULE CJsonString ------------------------------
(***************************************************************************)
(* xface/cJSON.c: parse_string, with utf16_literal_to_utf8 and parse_hex4,  *)
(* over the bytes of a text that begins at the quote.  Positions count from *)
(* 0.                                                                       *)
(***************************************************************************)
EXTENDS CJsonPrintString

CONSTANT Texts  \* sequences of bytes, from a quote on

CJsonStringAssumption ==
  \A t \in Texts : t \in Seq(0..255) /\ t # <<>> /\ t[1] = Quote

VARIABLES
  text,           \* the buffer from its offset on
  memory,         \* "short" if the allocation may fail, "enough" if it does not
  pc,
  input_pointer,
  input_end,
  skipped_bytes,
  output,         \* the bytes written
  room,           \* how many were allocated; 0: none are
  offset          \* where the caller goes on

vars == <<text, memory, pc, input_pointer, input_end, skipped_bytes, output, room, offset>>

At(n) == text[n + 1]

Init ==
  /\ text \in Texts /\ memory \in {"enough", "short"}
  /\ pc = "measure" /\ input_pointer = 1 /\ input_end = 1 /\ skipped_bytes = 0
  /\ output = <<>> /\ room = 0 /\ offset = 0

\* b, f, n, r, t, quote, backslash, slash and what they stand for.
Escapes ==
  [c \in {98, 102, 110, 114, 116, 34, 92, 47} |->
     IF c = 98 THEN 8 ELSE IF c = 102 THEN 12 ELSE IF c = 110 THEN 10
     ELSE IF c = 114 THEN 13 ELSE IF c = 116 THEN 9 ELSE c]

\* parse_hex4 at n: 0 if a digit is none (the end of the text is none).
Digit(c) ==
  IF c \in 48..57 THEN c - 48
  ELSE IF c \in 65..70 THEN c - 55
  ELSE IF c \in 97..102 THEN c - 87
  ELSE -1
parse_hex4(n) ==
  IF \E k \in 0..3 : n + k >= Len(text) \/ Digit(At(n + k)) = -1 THEN 0
  ELSE Digit(At(n)) * 4096 + Digit(At(n + 1)) * 256 + Digit(At(n + 2)) * 16 + Digit(At(n + 3))

\* The second half of a surrogate pair stands behind the first at n.
Paired(n) ==
  /\ input_end - n >= 12
  /\ At(n + 6) = Backslash /\ At(n + 7) = 117
  /\ parse_hex4(n + 8) \in 56320..57343

\* Mutant of SequenceLength: the end of the literal is not asked for.
SequenceLengthAnywhere(n) ==
  IF parse_hex4(n + 2) \in 56320..57343 THEN 0
  ELSE IF parse_hex4(n + 2) \in 55296..56319 THEN (IF Paired(n) THEN 12 ELSE 0)
  ELSE 6

\* utf16_literal_to_utf8: how many bytes are read (0: it fails); the code point.
SequenceLength(n) ==
  IF input_end - n < 6 \/ parse_hex4(n + 2) \in 56320..57343 THEN 0
  ELSE IF parse_hex4(n + 2) \in 55296..56319 THEN (IF Paired(n) THEN 12 ELSE 0)
  ELSE 6

Codepoint(n) ==
  IF SequenceLength(n) = 12
  THEN 65536 + (parse_hex4(n + 2) % 1024) * 1024 + (parse_hex4(n + 8) % 1024)
  ELSE parse_hex4(n + 2)

\* Mutant of Utf8: two bytes reach one code too far.
Utf8TwoBytes(c) ==
  IF c < 128 THEN <<c>>
  ELSE IF c <= 2048 THEN <<(192 + (c \div 64)) % 256, 128 + (c % 64)>>
  ELSE IF c < 65536 THEN <<224 + (c \div 4096), 128 + ((c \div 64) % 64), 128 + (c % 64)>>
  ELSE <<240 + (c \div 262144), 128 + ((c \div 4096) % 64), 128 + ((c \div 64) % 64), 128 + (c % 64)>>

Utf8(c) ==
  IF c < 128 THEN <<c>>
  ELSE IF c < 2048 THEN <<192 + (c \div 64), 128 + (c % 64)>>
  ELSE IF c < 65536 THEN <<224 + (c \div 4096), 128 + ((c \div 64) % 64), 128 + (c % 64)>>
  ELSE <<240 + (c \div 262144), 128 + ((c \div 4096) % 64), 128 + ((c \div 64) % 64), 128 + (c % 64)>>
-----------------------------------------------------------------------------
Inside(n) == n < Len(text)

\* The first loop: to the quote that ends the literal; an escape is two bytes.
Measure ==
  /\ pc = "measure" /\ Inside(input_end) /\ At(input_end) # Quote
  /\ \/ /\ At(input_end) # Backslash
        /\ input_end' = input_end + 1
        /\ UNCHANGED <<pc, skipped_bytes>>
     \/ /\ At(input_end) = Backslash /\ Inside(input_end + 1)
        /\ input_end' = input_end + 2
        /\ skipped_bytes' = skipped_bytes + 1
        /\ UNCHANGED pc
     \/ /\ At(input_end) = Backslash /\ ~Inside(input_end + 1)
        /\ pc' = "fail"
        /\ UNCHANGED <<input_end, skipped_bytes>>
  /\ UNCHANGED <<text, memory, input_pointer, output, room, offset>>

\* The literal does not end.
Endless ==
  /\ pc = "measure" /\ ~Inside(input_end)
  /\ pc' = "fail"
  /\ UNCHANGED <<text, memory, input_pointer, input_end, skipped_bytes, output, room, offset>>

Allocate ==
  /\ pc = "measure" /\ Inside(input_end) /\ At(input_end) = Quote
  /\ \/ pc' = "copy" /\ room' = input_end - skipped_bytes + 1
     \/ memory = "short" /\ pc' = "fail" /\ UNCHANGED room
  /\ UNCHANGED <<text, memory, input_pointer, input_end, skipped_bytes, output, offset>>

\* The second loop: a byte as it is, an escape of one byte, a code.
Copy ==
  /\ pc = "copy" /\ input_pointer < input_end
  /\ \/ /\ At(input_pointer) # Backslash
        /\ output' = Append(output, At(input_pointer))
        /\ input_pointer' = input_pointer + 1
     \/ /\ At(input_pointer) = Backslash /\ At(input_pointer + 1) \in DOMAIN Escapes
        /\ output' = Append(output, Escapes[At(input_pointer + 1)])
        /\ input_pointer' = input_pointer + 2
     \/ /\ At(input_pointer) = Backslash /\ At(input_pointer + 1) = 117
        /\ SequenceLength(input_pointer) > 0
        /\ output' = output \o Utf8(Codepoint(input_pointer))
        /\ input_pointer' = input_pointer + SequenceLength(input_pointer)
  /\ UNCHANGED <<text, memory, pc, input_end, skipped_bytes, room, offset>>

BadEscape ==
  /\ pc = "copy" /\ input_pointer < input_end /\ At(input_pointer) = Backslash
  /\ \/ At(input_pointer + 1) \notin DOMAIN Escapes \cup {117}
     \/ At(input_pointer + 1) = 117 /\ SequenceLength(input_pointer) = 0
  /\ pc' = "fail"
  /\ UNCHANGED <<text, memory, input_pointer, input_end, skipped_bytes, output, room, offset>>

Terminate ==
  /\ pc = "copy" /\ input_pointer >= input_end
  /\ output' = Append(output, 0)
  /\ offset' = input_end + 1
  /\ pc' = "done"
  /\ UNCHANGED <<text, memory, input_pointer, input_end, skipped_bytes, room>>

Fail ==
  /\ pc = "fail"
  /\ room' = 0 /\ output' = <<>> /\ offset' = input_pointer
  /\ pc' = "failed"
  /\ UNCHANGED <<text, memory, input_pointer, input_end, skipped_bytes>>

Over == pc \in {"done", "failed"} /\ UNCHANGED vars

Next == Measure \/ Endless \/ Allocate \/ Copy \/ BadEscape \/ Terminate \/ Fail \/ Over

Spec == Init /\ [][Next]_vars
-----------------------------------------------------------------------------
TypeOK ==
  /\ pc \in {"measure", "copy", "fail", "done", "failed"}
  /\ input_pointer \in Nat /\ input_end \in 1..Len(text)
  /\ skipped_bytes \in Nat /\ room \in Nat /\ offset \in 0..Len(text)
  /\ \A n \in DOMAIN output : output[n] \in 0..255

\* \"This is at most how much we need for the output\": whatever escapes there are, the
\* bytes written, with their NUL, fit into those allocated before; and what was
\* allocated is freed unless it is the result.
OutputFits ==
  /\ pc \in {"copy", "fail", "done"} /\ room > 0 => Len(output) + (IF pc = "done" THEN 0 ELSE 1) <= room
  /\ pc = "failed" => room = 0

\* Whatever the digits of a code and whatever follows: the quote that ends the literal is
\* the last byte read.  (It may be read: a code with a digit that is none can end right
\* behind the first of two backslashes, and the second one then escapes the quote.)
StaysInLiteral == input_pointer <= input_end + 1
===============================================================================
