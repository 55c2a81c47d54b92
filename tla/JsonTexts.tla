------------------------------- MODULE JsonTexts -------------------------------
(***************************************************************************)
(* What MCCJsonText gives to xface/cJSON.c: items to print, texts to parse *)
(* and to minify, string literals, each with what it means.                *)
(***************************************************************************)
EXTENDS CJsonPrintString

CONSTANTS
  Alphabet,    \* the characters of texts to parse
  MaxText,     \* all texts of so many of them
  Brackets,    \* those of
  MaxList,     \* all texts of so many of these
  LiteralParts,\* parts of a literal
  StringBytes, \* bytes of a string that is printed
  TornBytes,   \* bytes behind the u of a code whose digits may be none
  TextParts    \* parts of a text to minify
-----------------------------------------------------------------------------
(* Items, as JsonGrammar writes them *)

Leaves == {<<"leaf", x>> : x \in {"n", "s", "1", "none"}}
Arrays(kids) == {<<"array", s>> : s \in BoundedSeq(kids, 2)}
Objects(kids) == {<<"object", s>> : s \in BoundedSeq({<<"s", k>> : k \in kids}, 2)}
Inner ==
  LET one == <<"leaf", "1">>  IN
  Leaves \cup { <<"array", <<>>>>, <<"object", <<>>>>, <<"array", <<one, one>>>>,
                <<"object", <<<<"s", one>>>>>>, <<"object", <<<<"s", <<"array", <<>>>>>>, <<"s", one>>>>>> }

MCItems == Leaves \cup Arrays(Inner) \cup Objects(Inner)
-----------------------------------------------------------------------------
(* Texts to parse: all short ones, and longer ones, right and wrong in one place *)

\* A lone quote (q) is one that no other quote follows.
LoneQuotes(t) == \A m, n \in DOMAIN t : t[m] = "q" /\ m < n => t[n] \notin {"q", "s", "b"}

Samples == {
  <<"[", "[", "1", "]", ",", " ", "{", "}", " ", "]">>,
  <<"{", "s", ":", "[", "]", ",", "s", " ", ":", "{", "s", ":", "1", "}", "}">>,
  <<"BOM", " ", "{", " ", "s", ":", " ", "-", "1", "}", " ">>,
  <<"[", "s", ",", "[", "n", "]", ",", "1", "1", "]", "x">> }

\* A sample with one character put in, left out or changed.
Edits(t) ==
  {t} \cup {RemoveAt(t, n) : n \in DOMAIN t}
      \cup {ReplaceAt(t, n, c) : n \in DOMAIN t, c \in Alphabet}
      \cup {InsertAt(t, n, c) : n \in DOMAIN t, c \in Alphabet}

MCParseTexts ==
  LET Few == BoundedSeq(Alphabet, MaxText) \cup UNION {Edits(t) : t \in Samples}
  IN  {Append(t, "NUL") : t \in {u \in Few : LoneQuotes(u)} \cup BoundedSeq(Brackets, MaxList)}
-----------------------------------------------------------------------------
(* String literals *)

\* The meaning of UTF-8: the code points in b, no byte too many.
Codepoints(b) ==
  LET Low6(k) == b[k] - 128
      at[n \in 1..Len(b) + 4] ==
        IF n > Len(b) THEN <<>>
        ELSE CASE b[n] < 128 -> <<b[n]>> \o at[n + 1]
               [] b[n] \in 194..223 /\ n + 1 <= Len(b) -> <<(b[n] - 192) * 64 + Low6(n + 1)>> \o at[n + 2]
               [] b[n] \in 224..239 /\ n + 2 <= Len(b) ->
                    <<(b[n] - 224) * 4096 + Low6(n + 1) * 64 + Low6(n + 2)>> \o at[n + 3]
               [] b[n] \in 240..244 /\ n + 3 <= Len(b) ->
                    <<(b[n] - 240) * 262144 + Low6(n + 1) * 4096 + Low6(n + 2) * 64 + Low6(n + 3)>> \o at[n + 4]
               [] OTHER -> <<-1>>
  IN  at[1]

Hex(c, ten) ==
  LET D(d) == IF d < 10 THEN 48 + d ELSE ten - 10 + d
  IN  <<Backslash, 117, D(c \div 4096), D((c \div 256) % 16), D((c \div 16) % 16), D(c % 16)>>

\* A part of a literal: its bytes, the code points it means; bad if it means nothing and
\* is refused.  A code with a digit that is none is not: parse_hex4 takes it for the code 0.
Part(bytes, means) == [bytes |-> bytes, means |-> means, bad |-> FALSE]
Bad(bytes) == [bytes |-> bytes, means |-> <<>>, bad |-> TRUE]
Zero(digits) == Part(<<Backslash, 117>> \o digits, <<0>>)

\* Codes at every boundary of UTF-8 and of the surrogates.
Codes == {1, 127, 128, 2047, 2048, 55295, 57344, 65535}
Highs == {55296, 56319}
Lows == {56320, 57343}

\* Four digits of which one is none.
NoCodes == {<<103, 48, 48, 49>>, <<68, 56, 71, 48>>, <<48, 48, 54, 32>>}

Parts ==
  {Part(<<97>>, <<97>>), Part(<<Backslash, 110>>, <<10>>), Part(<<Backslash, 34>>, <<34>>), Part(<<Backslash, Backslash>>, <<92>>)}
    \cup {Part(Hex(c, ten), <<c>>) : c \in Codes, ten \in {65, 97}}
    \cup {Part(Hex(h, 65) \o Hex(l, 97), <<65536 + (h - 55296) * 1024 + l - 56320>>) : h \in Highs, l \in Lows}
    \cup {Bad(Hex(l, 65)) : l \in Lows} \cup {Bad(Hex(h, 97) \o <<97, 98, 99, 100, 101, 102>>) : h \in Highs}
    \cup {Bad(Hex(h, 65) \o Hex(c, 65)) : h \in Highs, c \in {97, 55296, 57344}}
    \cup {Bad(Hex(h, 65) \o <<Backslash, 117>> \o d) : h \in Highs, d \in NoCodes}
    \cup {Zero(d) : d \in NoCodes} \cup {Bad(<<Backslash, 120>>)}

Quoted(bytes) == <<Quote>> \o bytes \o <<Quote, 48, 48, 48, 48, 0>>

Literals ==
  {[bytes |-> FlattenSeq([n \in DOMAIN ps |-> ps[n].bytes]),
    means |-> FlattenSeq([n \in DOMAIN ps |-> ps[n].means]),
    bad |-> \E n \in DOMAIN ps : ps[n].bad] : ps \in BoundedSeq(Parts, LiteralParts)}
LiteralOf == [t \in {Quoted(l.bytes) : l \in Literals} |-> CHOOSE l \in Literals : t = Quoted(l.bytes)]

\* Ends that cut the last part off: with a quote behind it or with nothing.
CutParts == {<<Backslash, 117>>, <<Backslash, 117, 48, 48, 52>>, Hex(55296, 65), Hex(55296, 65) \o <<Backslash, 117>>}
Broken ==
  UNION {{Quoted(<<97>> \o c), <<Quote>> \o c \o <<0>>, <<Quote>> \o c, <<Quote, 97, Backslash>>} : c \in CutParts}

Strings == BoundedSeq({97, 34, 92, 47, 10, 1, 31, 127, 200}, StringBytes)
StringOf == [t \in {print_string_ptr(s) \o <<0>> : s \in Strings} |->
               CHOOSE s \in Strings : t = print_string_ptr(s) \o <<0>>]

\* Codes whose digits may be none, and may be what ends a literal.  parse_hex4 takes such
\* a code for 0, and its six bytes may end between a backslash and what it escapes - the last of which is the quote.
Torn == {Quoted(<<Backslash, 117>> \o s) : s \in BoundedSeq({Backslash, 117, 97}, TornBytes)}

MCLiterals == DOMAIN LiteralOf \cup Broken \cup Torn \cup DOMAIN StringOf
-----------------------------------------------------------------------------
(* Texts to minify, of parts that are kept or left out *)

\* A string that ends with an escaped backslash: minify_string takes its quote for an
\* escaped one.
Misread == {<<"q", "bs", "bs", "q">>}
Kept == {<<"[">>, <<",">>, <<"q", "q">>, <<"q", " ", "a", "q">>, <<"q", "bs", "q", " ", "q">>,
         <<"q", "/", "/", "bs", "q", "nl", "q">>, <<"q", "/", "*", "q">>} \cup Misread
LeftOut == {<<" ">>, <<"nl">>, <<"/", "/", "q", "nl">>, <<"/", "/", "*", "a", "nl">>,
            <<"/", "*", "q", " ", "*", "*", "/">>, <<"/", "*", "/", "/", "nl", "*", "/">>}

Wholes == BoundedSeq(Kept \cup LeftOut, TextParts)
TextOf(parts) == FlattenSeq(parts) \o <<"NUL">>
PartsOf == [t \in {TextOf(ps) : ps \in Wholes} |-> CHOOSE ps \in Wholes : TextOf(ps) = t]

\* What should stay of a text; and of its parts up to the first that is misread.
Whole == [t \in DOMAIN PartsOf |-> FlattenSeq(SelectSeq(PartsOf[t], LAMBDA p : p \in Kept)) \o <<"NUL">>]
WellRead(t) ==
  LET ps == PartsOf[t]
      Ends == {n \in DOMAIN ps : ps[n] \in Misread}
  IN  IF Ends = {} THEN Whole[t]
      ELSE FlattenSeq(SelectSeq(SubSeq(ps, 1, Min(Ends)), LAMBDA p : p \in Kept))

\* Cut off anywhere.
Cuts == UNION {{Append(SubSeq(FlattenSeq(ps), 1, n), "NUL") : n \in 0..Len(FlattenSeq(ps))} : ps \in BoundedSeq(Kept \cup LeftOut, 2)}
MCMinifyTexts == DOMAIN Whole \cup Cuts
===============================================================================
