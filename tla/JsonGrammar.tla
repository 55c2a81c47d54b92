------------------------------ MODULE JsonGrammar ------------------------------
(***************************************************************************)
(* JSON as a grammar over tokens, for xface/cJSON.c to be compared with:   *)
(* what a text says, whatever way it is read.                              *)
(***************************************************************************)
EXTENDS Integers, SequencesExt

\* "s" is a string literal, "n" one of null, true and false, "1" a digit.
Blanks == {" ", "NUL"}

Trim(t) ==
  LET Solid == {n \in DOMAIN t : t[n] \notin Blanks}
  IN  IF Solid = {} THEN <<>>
      ELSE SubSeq(t, CHOOSE n \in Solid : \A m \in Solid : n <= m,
                     CHOOSE n \in Solid : \A m \in Solid : m <= n)

IsNumber(t) ==
  LET digits == IF t # <<>> /\ Head(t) = "-" THEN Tail(t) ELSE t
  IN  digits # <<>> /\ ToSet(digits) = {"1"}

RECURSIVE Values(_, _), Lists(_, _, _)

\* What the whole of t says as a value, in an array or object of which d more may be
\* nested; a text without meaning says nothing.
Values(t, d) ==
  LET inner == Trim(SubSeq(t, 2, Len(t) - 1))
      Enclosed(open, close) == d > 0 /\ Len(t) >= 2 /\ Head(t) = open /\ Last(t) = close
      Elements(member) == (IF inner = <<>> THEN {<<>>} ELSE {}) \cup Lists(inner, d - 1, member)
  IN  {<<"leaf", x>> : x \in IF Len(t) = 1 THEN {Head(t)} \cap {"s", "n"} ELSE {}}
        \cup (IF IsNumber(t) THEN {<<"leaf", "1">>} ELSE {})
        \cup (IF Enclosed("[", "]") THEN {<<"array", s>> : s \in Elements("value")} ELSE {})
        \cup (IF Enclosed("{", "}") THEN {<<"object", s>> : s \in Elements("pair")} ELSE {})

\* What t says as one value, or one name and value, or several with commas between them.
Lists(t, d, member) ==
  LET First(u) ==
        IF member = "value" THEN Values(Trim(u), d)
        ELSE UNION {IF u[k] = ":" /\ Trim(SubSeq(u, 1, k - 1)) = <<"s">>
                    THEN {<<"s", v>> : v \in Values(Trim(SubSeq(u, k + 1, Len(u))), d)}
                    ELSE {} : k \in DOMAIN u}
  IN  {<<v>> : v \in First(t)}
        \cup UNION {IF t[k] = ","
                    THEN {<<v>> \o s : v \in First(SubSeq(t, 1, k - 1)),
                                       s \in Lists(SubSeq(t, k + 1, Len(t)), d, member)}
                    ELSE {} : k \in DOMAIN t}

\* A value with blanks around it; what a text says that begins with one; t can be
\* continued to one: by a value, a member or the rest of one, then closing brackets.
Says(t, d) == Values(Trim(t), d)
BeginsWith(t, d) ==
  LET Ends == {n \in DOMAIN t : Says(SubSeq(t, 1, n), d) # {}}
  IN  IF Ends = {} THEN {}
      ELSE Says(SubSeq(t, 1, CHOOSE n \in Ends : \A m \in Ends : m <= n), d)
CanContinue(t, d) ==
  \E rest \in {<<>>, <<"1">>, <<":", "1">>, <<"s", ":", "1">>}, close \in BoundedSeq({"]", "}"}, d) :
    Says(t \o rest \o close, d) # {}
===============================================================================
