------------------------------ MODULE MCCJsonText ------------------------------
(***************************************************************************)
(* Instances for TLC of CJsonPrint and of the three parts of CJsonReaders,  *)
(* in one run: a behaviour is of one of the four, and part says of which.  *)
(* What is printed is read by JsonGrammar, as is what is parsed; JsonTexts *)
(* has the items and texts.                                                *)
(***************************************************************************)
EXTENDS CJsonPrint, CJsonReaders, JsonGrammar, JsonTexts

NoPrint == Init /\ call = "print" /\ hooks = "malloc" /\ memory = "enough"
           /\ value = <<>> /\ format = "no" /\ script = <<>>

MCInit ==
  \/ part = "print" /\ PInit /\ NoText /\ NoParse /\ NoString /\ NoMinify
  \/ ReadInit /\ NoPrint

MCNext ==
  \/ part = "print" /\ PNext /\ UNCHANGED readVars
  \/ ReadNext /\ UNCHANGED pvars

MCSpec == MCInit /\ [][MCNext]_<<pvars, readVars>>
-----------------------------------------------------------------------------
(* Printing *)

\* The text of v, as the pieces make it one after the other.
Concat(v, fmt) ==
  LET pieces == print_value(v, fmt, 0)
      Shown(n) == SelectSeq(pieces[n].put, LAMBDA c : c # "NUL")
  IN  FlattenSeq([n \in DOMAIN pieces |-> IF pieces[n].op = "put" THEN Shown(n) ELSE <<>>])

MCSizes == 0..20
MCPieces ==
  UNION {{p \in ToSet(print_value(v, fmt, 0)) : p.op = "put"} : v \in MCItems, fmt \in {"yes", "no"}}

\* cJSON.h: "Render a cJSON entity to text", by whichever of the calls, formatted or
\* not, through a buffer that grew at any place or did not: update_offset finds the end
\* of what this call has written, the text is read back as the item, and it is the same
\* whatever the buffer did.
PrintsTheItem == FindsTheEnd /\ (pc = "done" => Values(Trim(Text), 4) = {value})

\* "to be safe allocate 5 bytes more than you actually need": with so many the
\* preallocated buffer always suffices, and a call fails for no other reason than
\* memory, an item without a type or a text beyond INT_MAX.
FiveMoreSuffice ==
  LET Needs(v) == Len(Concat(v, format))
      Refused(v) == \E n \in DOMAIN print_value(v, format, 0) : print_value(v, format, 0)[n].op = "refuse"
  IN  pc = "failed" /\ memory = "enough" /\ ~Refused(value) =>
        IF call = "preallocated" THEN length < Needs(value) + 1 + 5
        ELSE Needs(value) + 2 > IntMax
-----------------------------------------------------------------------------
(* Parsing *)

Plain(t) == SelectSeq(t, LAMBDA c : c # "NUL")
Body == IF Head(text) = "BOM" THEN Tail(Plain(text)) ELSE Plain(text)
Said == IF strict = "yes" THEN Says(Body, NestingLimit) ELSE BeginsWith(Body, NestingLimit)

\* What is returned is what the text says, and nothing is returned for a text that says
\* nothing.
ReturnsWhatTextSays == step = "done" => frames[1].kids # <<>> /\ frames[1].kids[1] \in Said

\* A text that says something is refused only if memory ran out.
RefusesOnlyNonsense == step = "failed" /\ supply = "enough" => Said = {}

\* The error points into the text; what comes before it, but one character, could go on
\* to a text that says something, and unless memory or nesting is the reason what comes
\* up to it could not; there is none after a success, whatever an earlier call has left.
ErrorPointsNearby ==
  LET skipped == IF Head(text) = "BOM" THEN 1 ELSE 0
      Before(n) == SubSeq(text, 1 + skipped, n)
      Nested == CanContinue(Before(error + 1), NestingLimit + 1)
  IN  /\ step = "done" => error = NoError
      /\ step = "failed" =>
           /\ error \in 0..Len(text) - 1
           /\ CanContinue(Before(error - 1), NestingLimit)
           /\ supply = "enough" /\ ~Nested =>
                error + 1 >= Len(text) \/ ~CanContinue(Before(error + 1), NestingLimit)

\* cJSON.h: "Supply a block of JSON, and this returns a cJSON object you can
\* interrogate", "check that the JSON is null terminated", "This returns a pointer to the
\* parse error. You'll probably need to look a few chars back": commas, colons and
\* brackets in any wrong place at any depth, nesting at its limit, what follows the value
\* lead to a refusal there, and nothing else does (no number here is as long as the
\* 63 characters parse_number takes of one).
ParsesTheText ==
  part = "parse" => ReturnsWhatTextSays /\ RefusesOnlyNonsense /\ ErrorPointsNearby
-----------------------------------------------------------------------------
(* Strings *)

\* What parse_string returns is what the literal means, code point by code point:
\* surrogate pairs, both cases of digits, codes at every boundary of UTF-8; the caller
\* goes on behind it.  Halves of pairs, a second half with a digit that is none, letters
\* that escape nothing and literals without an end are refused, and nothing else is unless
\* there is no memory.  A code with a digit that is none stands for no character and is
\* not refused, whatever "check that the code is valid" says (cJSON.c:665): it adds the one
\* byte 0, and what is around it is decoded as ever.
DecodesTheLiteral ==
  part = "string" =>
    /\ step = "done" => text \notin Broken
    /\ step = "done" /\ text \in DOMAIN LiteralOf =>
         /\ ~LiteralOf[text].bad
         /\ Codepoints(Front(output)) = LiteralOf[text].means
         /\ position = Len(LiteralOf[text].bytes) + 2
    /\ step = "failed" /\ supply = "enough" =>
         text \notin DOMAIN StringOf /\ (text \in DOMAIN LiteralOf => LiteralOf[text].bad)

\* A string that print_string_ptr printed is parsed back byte by byte, and ensure() was
\* asked for exactly the bytes that were printed.
PrintedIsReadBack ==
  part = "string" /\ text \in DOMAIN StringOf =>
    /\ Ensured(StringOf[text]) = Len(text)
    /\ step = "done" => Front(output) = StringOf[text]
-----------------------------------------------------------------------------
(* Minifying *)

\* Blanks and comments are left out between tokens and nowhere else: not in strings,
\* whatever quotes, escaped quotes, slashes or stars they have; this up to the end of the
\* first string that ends with an escaped backslash, whose end minify_string misses.
MinifiesTheText ==
  part = "minify" /\ step = "done" /\ original \in DOMAIN Whole => IsPrefix(WellRead(original), text)
===============================================================================
