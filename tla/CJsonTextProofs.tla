---------------------------- MODULE CJsonTextProofs ----------------------------
(***************************************************************************)
(* What is proved of xface/cJSON.c where it works on a text.  The print     *)
(* buffer: for any pieces whose size ensure() is told truly, any sizes and *)
(* any INT_MAX, what is written fits, and the buffer is freed once.         *)
(* cJSON_Minify: for every text with a NUL at its end, it works inside it  *)
(* and never writes over what it has not read.  The parser: for every text *)
(* with a NUL at its end and any nesting limit, it looks at no character   *)
(* behind the text, and every block is owned once until it is freed.       *)
(* parse_string: for every text that is whole bytes, whatever its escapes, *)
(* it reads no further than the closing quote and writes no more than it   *)
(* has measured.  CJsonReaders: the last three, as they are run together.  *)
(***************************************************************************)
EXTENDS CJsonBuffer, CJsonReaders, SequencesExt, SequenceTheorems, WellFoundedInduction, TLAPS
-----------------------------------------------------------------------------
(* The print buffer *)

USE DEF given

\* What holds of the buffer before and after every step: while it is held it is there.
Kept ==
  /\ pc \in {"printing", "done"} => buffer = "held"
  /\ pc = "begin" => buffer = "null" /\ offset = 0
  /\ call = "print" /\ pc \in {"begin", "printing"} => length > 0
  /\ buffer = "null" /\ pc \in {"failing", "failed"} => call # "preallocated"

Inv == TypeOK /\ WritesFit /\ OneBuffer /\ SizesStayInts /\ Kept

\* A piece written where ensure has made room for it stays inside the buffer, and the
\* offset behind it, too.
LEMMA WriteInside ==
  ASSUME NEW p \in Pieces, offset \in Nat, NEW c, DOMAIN c \subseteq Nat,
         NEW size \in Nat, Total(p) <= size, \A n \in DOMAIN c : n < size
  PROVE  LET w == Write(c, offset, p.put)
         IN  /\ DOMAIN w \subseteq Nat
             /\ \A n \in DOMAIN w : n < size
             /\ offset + p.adv \in Nat /\ offset + p.adv < size
<1>1. p.need \in Nat /\ p.adv \in Nat /\ p.put \in Seq(STRING)
  BY CJsonBufferAssumption
<1>2. Len(p.put) \in Nat /\ Len(p.put) <= p.need /\ p.adv <= Len(p.put)
  BY <1>1, CJsonBufferAssumption
<1>3. DOMAIN Write(c, offset, p.put) = DOMAIN c \cup offset..offset + Len(p.put) - 1
  BY DEF Write
<1>4. offset + p.need + 1 <= size
  BY <1>1 DEF Total
<1>5. \A n \in offset..offset + Len(p.put) - 1 : n \in Nat /\ n < size
  BY <1>1, <1>2, <1>4
<1>6. offset + p.adv \in Nat /\ offset + p.adv < size
  BY <1>1, <1>2, <1>4
<1> QED
  BY <1>3, <1>5, <1>6

\* The size that ensure asks for holds what is needed and is an int.
LEMMA NewSizeFits ==
  ASSUME NEW total \in Nat, total <= IntMax
  PROVE  NewSize(total) \in Nat /\ total <= NewSize(total) /\ NewSize(total) <= IntMax
<1>1. IntMax \in Nat
  BY CJsonBufferAssumption
<1>2. CASE total > IntMax \div 2
  BY <1>1, <1>2 DEF NewSize
<1>3. CASE ~(total > IntMax \div 2)
  <2>1. total * 2 <= IntMax /\ total * 2 \in Nat
    BY <1>1, <1>3
  <2> QED
    BY <1>3, <2>1 DEF NewSize
<1> QED
  BY <1>2, <1>3

LEMMA InitInv == Init => Inv
<1> SUFFICES ASSUME Init PROVE Inv
  OBVIOUS
<1>1. length \in Nat /\ IF call = "print" THEN length <= DefaultSize ELSE length \in Sizes
  BY CJsonBufferAssumption DEF Init
<1>2. DOMAIN cells = {}
  BY DEF Init, Nothing
<1>3. call = "print" => length > 0
  BY CJsonBufferAssumption DEF Init
<1> QED
  BY <1>1, <1>2, <1>3 DEF Init, Inv, TypeOK, WritesFit, OneBuffer, SizesStayInts, Kept

\* Every step keeps the invariant; the sizes of the three ways ensure may end.
LEMMA StepInv == Inv /\ [Next]_vars => Inv'
<1> SUFFICES ASSUME Inv, [Next]_vars PROVE Inv'
  OBVIOUS
<1> USE DEF Inv
<1>1. CASE Start
  BY <1>1 DEF Start, TypeOK, WritesFit, OneBuffer, SizesStayInts, Kept
<1>2. ASSUME NEW p \in Pieces, PutPiece(p) PROVE Inv'
  <2>0. /\ pc = "printing" /\ buffer = "held"
        /\ offset \in Nat /\ length \in Nat /\ DOMAIN cells \subseteq Nat
    BY <1>2 DEF PutPiece, TypeOK, Kept
  <2>1. CASE AppendFits(p)
    <3>1. Total(p) <= length
      BY <2>1 DEF AppendFits, Fits
    <3>2. /\ DOMAIN cells' \subseteq Nat
          /\ \A n \in DOMAIN cells' : n < length
          /\ offset' \in Nat /\ offset' < length
      BY <2>0, <2>1, <3>1, WriteInside DEF AppendFits, WritesFit
    <3> QED
      BY <2>0, <2>1, <3>2 DEF AppendFits, TypeOK, WritesFit, OneBuffer, SizesStayInts, Kept
  <2>2. CASE AppendGrows(p)
    <3>1. Total(p) \in Nat /\ Total(p) <= IntMax /\ length < Total(p)
      BY <2>0, <2>2, CJsonBufferAssumption DEF AppendGrows, CanGrow, Total
    <3>2. length' \in Nat /\ Total(p) <= length' /\ length' <= IntMax
      BY <2>2, <3>1, NewSizeFits DEF AppendGrows
    <3> DEFINE old == IF hooks = "realloc" THEN cells ELSE First(cells, offset + 1)
    <3>3. DOMAIN old \subseteq Nat /\ \A n \in DOMAIN old : n < length'
      <4>1. DOMAIN old \subseteq DOMAIN cells
        BY DEF First
      <4>2. length < length'
        BY <2>0, <3>1, <3>2
      <4> QED
        BY <2>0, <3>2, <4>1, <4>2 DEF WritesFit
    <3>4. cells' = Write(old, offset, p.put) /\ offset' = offset + p.adv
      BY <2>2 DEF AppendGrows
    <3> HIDE DEF old
    <3>5. /\ DOMAIN cells' \subseteq Nat
          /\ \A n \in DOMAIN cells' : n < length'
          /\ offset' \in Nat /\ offset' < length'
      BY <2>0, <3>2, <3>3, <3>4, WriteInside
    <3> QED
      BY <2>0, <2>2, <3>2, <3>5 DEF AppendGrows, TypeOK, WritesFit, OneBuffer, SizesStayInts, Kept
  <2>3. CASE AppendFails(p)
    <3>1. DOMAIN cells' = {} /\ blocks = 1 /\ blocks' = 0 /\ call # "preallocated"
      BY <2>0, <2>3 DEF AppendFails, Nothing, OneBuffer, CanGrow
    <3>2. length' = 0 /\ (0 <= IntMax)
      BY <2>3, CJsonBufferAssumption DEF AppendFails
    <3> QED
      BY <2>0, <2>3, <3>1, <3>2 DEF AppendFails, TypeOK, WritesFit, OneBuffer, SizesStayInts, Kept
  <2>4. CASE AppendRefused(p)
    BY <2>0, <2>4 DEF AppendRefused, TypeOK, WritesFit, OneBuffer, SizesStayInts, Kept
  <2> QED
    BY <1>2, <2>1, <2>2, <2>3, <2>4 DEF PutPiece
<1>3. CASE Refuse
  BY <1>3 DEF Refuse, TypeOK, WritesFit, OneBuffer, SizesStayInts, Kept
<1>4. CASE update_offset
  <2>1. PICK n \in Ends : offset' = n
    BY <1>4 DEF update_offset
  <2>2. n \in Nat /\ n < length
    BY <2>1 DEF Ends, TypeOK, WritesFit
  <2> QED
    BY <1>4, <2>1, <2>2 DEF update_offset, TypeOK, WritesFit, OneBuffer, SizesStayInts, Kept
<1>5. CASE Shrink
  <2>1. PICK n \in Ends : offset' = n
    BY <1>5 DEF Shrink
  <2>2. n \in Nat /\ n < length /\ length \in Nat
    BY <2>1 DEF Ends, TypeOK, WritesFit
  <2>3. CASE pc' = "done"
    <3>1. length' = n + 1 /\ cells' = First(cells, n + 1) /\ UNCHANGED <<given, buffer, blocks>>
      BY <1>5, <2>1, <2>3 DEF Shrink
    <3>2. DOMAIN cells' \subseteq Nat /\ \A m \in DOMAIN cells' : m < length'
      BY <2>2, <3>1 DEF First
    <3>3. length' <= IntMax \/ length' <= DefaultSize
      BY <1>5, <2>2, <3>1, CJsonBufferAssumption DEF Shrink, SizesStayInts
    <3> QED
      BY <1>5, <2>1, <2>2, <2>3, <3>1, <3>2, <3>3 DEF Shrink, TypeOK, WritesFit, OneBuffer, SizesStayInts, Kept
  <2>4. CASE pc' = "failing"
    BY <1>5, <2>1, <2>2, <2>4 DEF Shrink, TypeOK, WritesFit, OneBuffer, SizesStayInts, Kept
  <2> QED
    BY <1>5, <2>3, <2>4 DEF Shrink
<1>6. CASE Return
  BY <1>6 DEF Return, TypeOK, WritesFit, OneBuffer, SizesStayInts, Kept
<1>7. CASE Fail
  BY <1>7 DEF Fail, TypeOK, WritesFit, OneBuffer, SizesStayInts, Kept
<1>8. CASE Over \/ UNCHANGED vars
  BY <1>8 DEF Over, vars, TypeOK, WritesFit, OneBuffer, SizesStayInts, Kept
<1> QED
  BY <1>1, <1>2, <1>3, <1>4, <1>5, <1>6, <1>7, <1>8 DEF Next
-----------------------------------------------------------------------------
\* For the theorems: the invariant holds of every state.
LEMMA Invariance == Spec => []Inv
  BY InitInv, StepInv, PTL DEF Spec

\* The types of what the print buffer keeps.
THEOREM BufferTypes == Spec => []TypeOK
  BY Invariance, PTL DEF Inv

\* Whatever is printed in pieces whose size ensure is told, and however the buffer grows:
\* no character is written behind it, and its offset is inside.
THEOREM NothingWrittenOutside == Spec => []WritesFit
  BY Invariance, PTL DEF Inv

\* On every way out, memory included, the buffer is freed once or is the result.
THEOREM BufferFreedOnce == Spec => []OneBuffer
  BY Invariance, PTL DEF Inv

\* For every INT_MAX, no size computed by ensure is beyond it.
THEOREM SizesAreInts == Spec => []SizesStayInts
  BY Invariance, PTL DEF Inv

\* A buffer of the caller's is never freed and never replaced by another: its length is
\* what was given for as long as the call lasts.
THEOREM CallersBufferIsLeft == Spec => CallersBuffer
<1>1. Inv /\ [Next]_vars => [call = "preallocated" => length' = length /\ blocks' = blocks]_vars
  <2> SUFFICES ASSUME Inv, Next, call = "preallocated"
               PROVE  length' = length /\ blocks' = blocks
    OBVIOUS
  <2>1. CASE Start
    BY <2>1 DEF Start, Inv, OneBuffer
  <2>2. ASSUME NEW p \in Pieces, PutPiece(p) PROVE length' = length /\ blocks' = blocks
    BY <2>2 DEF PutPiece, AppendFits, AppendGrows, AppendFails, AppendRefused, CanGrow
  <2>3. CASE Refuse \/ update_offset \/ Shrink \/ Return \/ Fail \/ Over
    BY <2>3 DEF Refuse, update_offset, Shrink, Return, Fail, Over, vars
  <2> QED
    BY <2>1, <2>2, <2>3 DEF Next
<1> QED
  BY <1>1, Invariance, PTL DEF Spec, CallersBuffer
-----------------------------------------------------------------------------
(* cJSON_Minify *)

\* What texts consist of, and what is written into them.
Characters == {"q", "bs", "NUL"} \cup UNION {{t[n] : n \in DOMAIN t} : t \in MinifyTexts}

\* The text keeps its length, what is still to be read is as given and ends with the NUL,
\* and the writing is behind: this is what each step relies on.
MinifyInv ==
  /\ original \in MinifyTexts /\ original # <<>> /\ original[Len(original)] = "NUL"
  /\ text \in Seq(Characters) /\ Len(text) = Len(original) /\ Len(text) \in Nat \ {0}
  /\ json \in Nat \ {0} /\ into \in Nat \ {0}
  /\ step \in {"cJSON_Minify", "skip_oneline_comment", "skip_multiline_comment", "minify_string", "done"}
  /\ Minify!StaysInText
  /\ Minify!ReadsWhatWasGiven

LEMMA MinifyInitInv == Minify!CJsonMinifyAssumption /\ Minify!Init => MinifyInv
<1> SUFFICES ASSUME Minify!CJsonMinifyAssumption, Minify!Init PROVE MinifyInv
  OBVIOUS
<1>0. text \in Seq(STRING) /\ text # <<>> /\ text[Len(text)] = "NUL" /\ original = text /\ original \in MinifyTexts
  BY DEF Minify!CJsonMinifyAssumption, Minify!Init
<1>1. text \in Seq(Characters)
  <2>1. text \in [1..Len(text) -> STRING] /\ Len(text) \in Nat
    BY <1>0
  <2>2. \A n \in 1..Len(text) : text[n] \in Characters
    BY <1>0, <2>1 DEF Characters
  <2> QED
    BY <2>1, <2>2
<1>2. Len(text) \in Nat \ {0}
  BY <1>0
<1> QED
  BY <1>0, <1>1, <1>2 DEF Minify!Init, MinifyInv, Minify!StaysInText, Minify!ReadsWhatWasGiven

\* A character that is not the NUL has one behind it.
LEMMA NotTheLast ==
  ASSUME MinifyInv, step # "done", NEW n \in Nat \ {0}, n >= json, Minify!At(n) # "NUL", n <= Len(text)
  PROVE  n + 1 <= Len(text)
<1>1. n \in json..Len(text)
  BY DEF MinifyInv
<1>2. text[n] = original[n] /\ text[n] # "NUL"
  BY <1>1 DEF MinifyInv, Minify!ReadsWhatWasGiven, Minify!At
<1>3. n # Len(text)
  BY <1>2 DEF MinifyInv
<1> QED
  BY <1>3 DEF MinifyInv

\* Writing one character, where it is read or before, disturbs nothing that follows.
LEMMA WriteBehind ==
  ASSUME MinifyInv, step # "done", NEW c \in Characters
  PROVE  LET w == [text EXCEPT ![into] = c]
         IN  /\ w \in Seq(Characters) /\ Len(w) = Len(text)
             /\ \A n \in json + 1..Len(text) : w[n] = original[n]
<1> DEFINE w == [text EXCEPT ![into] = c]
<1>1. text \in Seq(Characters) /\ into \in 1..Len(text) /\ into < json + 1 /\ json \in Nat /\ Len(text) \in Nat
  BY DEF MinifyInv, Minify!StaysInText
<1>2. w \in Seq(Characters) /\ Len(w) = Len(text) /\ DOMAIN w = DOMAIN text
  BY <1>1
<1>3. ASSUME NEW n \in json + 1..Len(text) PROVE w[n] = original[n]
  <2>1. n \in json..Len(text) /\ n \in 1..Len(text) /\ n # into
    BY <1>1 DEF MinifyInv
  <2>2. w[n] = text[n]
    BY <1>1, <2>1
  <2>3. text[n] = original[n]
    BY <2>1 DEF MinifyInv, Minify!ReadsWhatWasGiven
  <2> QED
    BY <2>2, <2>3
<1> QED
  BY <1>2, <1>3

\* The step that copies one character keeps the invariant.
LEMMA CopyStep ==
  ASSUME MinifyInv, step \in {"cJSON_Minify", "minify_string"}, Minify!At(json) # "NUL",
         text' = [text EXCEPT ![into] = Minify!At(json)],
         json' = json + 1, into' = into + 1, step' \in {step, "cJSON_Minify", "minify_string"}, original' = original
  PROVE  MinifyInv'
<1>1. /\ json \in 1..Len(text) /\ Len(text) \in Nat /\ text \in Seq(Characters) /\ json \in Nat \ {0}
      /\ into \in Nat \ {0} /\ into <= json
  BY DEF MinifyInv, Minify!StaysInText
<1>2. Minify!At(json) \in Characters
  BY <1>1 DEF Minify!At
<1>3. json + 1 <= Len(text)
  BY <1>1, NotTheLast
<1>4. /\ text' \in Seq(Characters) /\ Len(text') = Len(text)
      /\ \A n \in json + 1..Len(text) : text'[n] = original[n]
  BY <1>2, WriteBehind
<1>5. Minify!StaysInText' /\ Minify!ReadsWhatWasGiven'
  BY <1>1, <1>3, <1>4 DEF Minify!StaysInText, Minify!ReadsWhatWasGiven
<1> QED
  BY <1>1, <1>4, <1>5 DEF MinifyInv

LEMMA MinifyStepInv == MinifyInv /\ [Minify!Next]_Minify!vars => MinifyInv'
<1> SUFFICES ASSUME MinifyInv, [Minify!Next]_Minify!vars PROVE MinifyInv'
  OBVIOUS
<1>0. /\ json \in 1..Len(text) /\ into \in 1..Len(text) /\ Len(text) \in Nat
      /\ text \in Seq(Characters) /\ text[json] \in Characters /\ Minify!At(json) = text[json]
  BY DEF MinifyInv, Minify!StaysInText, Minify!At
<1>1. CASE Minify!Blank
  <2>0. step = "cJSON_Minify" /\ Minify!At(json) # "NUL" /\ json' = json + 1 /\ UNCHANGED <<text, original, step, into>>
    BY <1>1 DEF Minify!Blank
  <2>1. json + 1 <= Len(text)
    BY <1>0, <2>0, NotTheLast
  <2> QED
    BY <1>0, <2>0, <2>1 DEF MinifyInv, Minify!StaysInText, Minify!ReadsWhatWasGiven
<1>2. CASE Minify!Slash
  <2>0. step = "cJSON_Minify" /\ Minify!At(json) # "NUL"
    BY <1>2 DEF Minify!Slash
  <2>1. json + 1 <= Len(text)
    BY <1>0, <2>0, NotTheLast
  <2>2. ASSUME Minify!At(json + 1) # "NUL" PROVE json + 2 <= Len(text)
    BY <1>0, <2>0, <2>1, <2>2, NotTheLast
  <2>3. /\ step' \in {"cJSON_Minify", "skip_oneline_comment", "skip_multiline_comment"}
        /\ json' \in {json + 1, json + 2} /\ json' <= Len(text)
        /\ UNCHANGED <<text, original, into>>
    BY <1>0, <1>2, <2>1, <2>2 DEF Minify!Slash, Minify!Goto
  <2> QED
    BY <1>0, <2>0, <2>3 DEF MinifyInv, Minify!StaysInText, Minify!ReadsWhatWasGiven
<1>3. CASE Minify!skip_oneline_comment
  <2>0. step = "skip_oneline_comment"
    BY <1>3 DEF Minify!skip_oneline_comment
  <2>1. ASSUME Minify!At(json) # "NUL" PROVE json + 1 <= Len(text)
    BY <1>0, <2>0, <2>1, NotTheLast
  <2> QED
    BY <1>0, <1>3, <2>1 DEF Minify!skip_oneline_comment, Minify!Goto, MinifyInv, Minify!StaysInText, Minify!ReadsWhatWasGiven
<1>4. CASE Minify!skip_multiline_comment
  <2>0. step = "skip_multiline_comment"
    BY <1>4 DEF Minify!skip_multiline_comment
  <2>1. ASSUME Minify!At(json) # "NUL" PROVE json + 1 <= Len(text)
    BY <1>0, <2>0, <2>1, NotTheLast
  <2>2. ASSUME Minify!At(json) = "*", Minify!At(json + 1) = "/" PROVE json + 2 <= Len(text)
    BY <1>0, <2>0, <2>1, <2>2, NotTheLast
  <2> QED
    BY <1>0, <1>4, <2>1, <2>2 DEF Minify!skip_multiline_comment, Minify!Goto, MinifyInv, Minify!StaysInText, Minify!ReadsWhatWasGiven
<1>5. CASE Minify!Quote
  <2>0. /\ step = "cJSON_Minify" /\ Minify!At(json) # "NUL"
        /\ text' = [text EXCEPT ![into] = Minify!At(json)]
        /\ json' = json + 1 /\ into' = into + 1 /\ step' = "minify_string" /\ original' = original
    BY <1>5 DEF Minify!Quote, Minify!Goto
  <2> QED
    BY <2>0, CopyStep
<1>6. CASE Minify!minify_string
  <2>0. step = "minify_string" /\ UNCHANGED original
    BY <1>6 DEF Minify!minify_string
  <2>1. CASE Minify!At(json) = "NUL" /\ Minify!Goto("cJSON_Minify") /\ UNCHANGED <<text, json, into>>
    BY <1>0, <1>6, <2>1 DEF Minify!minify_string, Minify!Goto, MinifyInv, Minify!StaysInText, Minify!ReadsWhatWasGiven
  <2>2. CASE /\ Minify!At(json) = "bs" /\ Minify!At(json + 1) = "q"
             /\ text' = [text EXCEPT ![into] = "bs", ![into + 1] = "q"]
             /\ json' = json + 2 /\ into' = into + 2 /\ UNCHANGED step
    <3>0. step = "minify_string" /\ json + 1 <= Len(text)
      BY <1>0, <1>6, <2>2, NotTheLast DEF Minify!minify_string
    <3>1. json + 2 <= Len(text)
      BY <1>0, <2>2, <3>0, NotTheLast
    <3>2. into + 1 \in 1..Len(text) /\ into + 1 < json + 2 /\ into <= json
      BY <1>0, <3>1 DEF MinifyInv, Minify!StaysInText
    <3> DEFINE once == [text EXCEPT ![into] = "bs"]
    <3>a. "bs" \in Characters /\ "q" \in Characters
      BY DEF Characters
    <3>c. once \in Seq(Characters) /\ Len(once) = Len(text) /\ DOMAIN once = 1..Len(text)
      BY <1>0, <3>a
    <3>b. text' = [once EXCEPT ![into + 1] = "q"]
      BY <2>2
    <3>3. text' \in Seq(Characters) /\ Len(text') = Len(text)
      BY <3>2, <3>a, <3>b, <3>c
    <3>4. ASSUME NEW n \in json + 2..Len(text) PROVE text'[n] = original[n]
      <4>1. n \in json..Len(text) /\ n \in 1..Len(text) /\ n # into /\ n # into + 1
        BY <1>0, <3>2
      <4>2. text'[n] = text[n]
        BY <1>0, <2>2, <4>1
      <4> QED
        BY <3>0, <4>1, <4>2 DEF MinifyInv, Minify!ReadsWhatWasGiven
    <3>5. json' = json + 2 /\ into' = into + 2 /\ step' = step /\ original' = original
      BY <1>6, <2>2 DEF Minify!minify_string
    <3> QED
      BY <1>0, <3>0, <3>1, <3>2, <3>3, <3>4, <3>5 DEF MinifyInv, Minify!StaysInText, Minify!ReadsWhatWasGiven
  <2>3. CASE /\ Minify!At(json) # "NUL" /\ text' = [text EXCEPT ![into] = Minify!At(json)]
             /\ json' = json + 1 /\ into' = into + 1 /\ step' \in {step, "cJSON_Minify"}
    BY <2>0, <2>3, CopyStep
  <2>4. CASE Minify!At(json) = "q" /\ text' = [text EXCEPT ![into] = "q"]
             /\ json' = json + 1 /\ into' = into + 1 /\ Minify!Goto("cJSON_Minify")
    BY <2>3, <2>4 DEF Minify!Goto
  <2>5. CASE /\ Minify!At(json) \notin {"q", "NUL"} /\ text' = [text EXCEPT ![into] = Minify!At(json)]
             /\ json' = json + 1 /\ into' = into + 1 /\ UNCHANGED step
    BY <2>3, <2>5
  <2> QED
    BY <1>6, <2>1, <2>2, <2>4, <2>5 DEF Minify!minify_string
<1>7. CASE Minify!Copy
  <2>0. /\ step = "cJSON_Minify" /\ Minify!At(json) # "NUL"
        /\ text' = [text EXCEPT ![into] = Minify!At(json)]
        /\ json' = json + 1 /\ into' = into + 1 /\ step' = step /\ original' = original
    BY <1>7 DEF Minify!Copy
  <2> QED
    BY <2>0, CopyStep
<1>8. CASE Minify!Terminate
  <2>0. /\ step = "cJSON_Minify" /\ text' = [text EXCEPT ![into] = "NUL"]
        /\ step' = "done" /\ UNCHANGED <<original, json, into>>
    BY <1>8 DEF Minify!Terminate, Minify!Goto
  <2>1. "NUL" \in Characters
    BY DEF Characters
  <2>2. text' \in Seq(Characters) /\ Len(text') = Len(text)
    BY <2>0, <2>1, WriteBehind
  <2> QED
    BY <1>0, <2>0, <2>2 DEF MinifyInv, Minify!StaysInText, Minify!ReadsWhatWasGiven
<1>9. CASE Minify!Over \/ UNCHANGED Minify!vars
  BY <1>9 DEF Minify!Over, Minify!vars, MinifyInv, Minify!StaysInText, Minify!ReadsWhatWasGiven
<1> QED
  BY <1>1, <1>2, <1>3, <1>4, <1>5, <1>6, <1>7, <1>8, <1>9 DEF Minify!Next
-----------------------------------------------------------------------------
\* Every character is read and written inside the text, and none is written before it is
\* read, comments and strings without an end included.
THEOREM WorksInPlace == Minify!CJsonMinifyAssumption => (Minify!Spec => []Minify!StaysInText)
<1>1. MinifyInv => Minify!StaysInText
  BY DEF MinifyInv
<1> QED
  BY <1>1, MinifyInitInv, MinifyStepInv, PTL DEF Minify!Spec

\* What has not been read yet is the text that was given.
THEOREM NothingIsOverwritten == Minify!CJsonMinifyAssumption => (Minify!Spec => []Minify!ReadsWhatWasGiven)
<1>1. MinifyInv => Minify!ReadsWhatWasGiven
  BY DEF MinifyInv
<1> QED
  BY <1>1, MinifyInitInv, MinifyStepInv, PTL DEF Minify!Spec
-----------------------------------------------------------------------------
(* The parser *)

\* A set of naturals that is not empty has a least element; a bounded one a greatest.
LEMMA LeastIsThere ==
  ASSUME NEW S \in SUBSET Nat, S # {}
  PROVE  \E p \in S : \A q \in S : p <= q
<1> DEFINE R == {ss \in Nat \X Nat : ss[1] < ss[2]}
<1>1. IsWellFoundedOn(R, Nat)  BY NatLessThanWellFounded DEF OpToRel
<1> HIDE DEF R
<1>2. PICK p \in S : \A q \in S : ~(<<q, p>> \in R)  BY <1>1, WFMin
<1>3. \A q \in S : ~(q < p)
  <2> SUFFICES ASSUME NEW q \in S, q < p  PROVE FALSE  OBVIOUS
  <2>1. <<q, p>> \in Nat \X Nat  OBVIOUS
  <2>2. <<q, p>> \in R  BY <2>1 DEF R
  <2> QED  BY <1>2, <2>2
<1> QED  BY <1>2, <1>3

LEMMA GreatestIsThere ==
  ASSUME NEW S \in SUBSET Nat, S # {}, NEW b \in Nat, \A n \in S : n <= b
  PROVE  \E n \in S : \A m \in S : m <= n
<1> DEFINE T == {b - n : n \in S}
<1>1. T \in SUBSET Nat /\ T # {}
  <2>1. \A n \in S : b - n \in Nat  OBVIOUS
  <2> QED  BY <2>1
<1>2. PICK p \in T : \A q \in T : p <= q  BY <1>1, LeastIsThere
<1>3. PICK n \in S : p = b - n  BY <1>2
<1>4. \A m \in S : b - m \in T  OBVIOUS
<1> QED
  <2> SUFFICES ASSUME NEW m \in S  PROVE m <= n  BY <1>3
  <2>1. p <= b - m  BY <1>2, <1>4
  <2> QED  BY <1>3, <2>1
-----------------------------------------------------------------------------
ParsedText == text \in Seq(STRING) /\ Parse!Length \in Nat \ {0} /\ Parse!At(Parse!Length - 1) = "NUL"

\* buffer_skip_whitespace never leaves the text.
LEMMA SkipInside ==
  ASSUME ParsedText, NEW o \in Nat, o < Parse!Length
  PROVE  Parse!Skip(o) \in o..(Parse!Length - 1)
<1> DEFINE Solid == {p \in o..Parse!Length - 1 : Parse!At(p) \notin {" ", "NUL"}}
<1>0. Parse!Length \in Nat /\ ~(o >= Parse!Length)  BY DEF ParsedText
<1>1. Parse!Skip(o) = IF Solid = {} THEN Parse!Length - 1
                ELSE CHOOSE p \in Solid : \A q \in Solid : p <= q
  BY <1>0, Zenon DEF Parse!Skip
<1>2. Solid \subseteq o..Parse!Length - 1  BY Zenon
<1> HIDE DEF Solid
<1>3. CASE Solid = {}  BY <1>0, <1>1, <1>3
<1>4. CASE Solid # {}
  <2>1. Solid \in SUBSET Nat  BY <1>0, <1>2
  <2>2. \E p \in Solid : \A q \in Solid : p <= q  BY <1>4, <2>1, LeastIsThere
  <2>3. Parse!Skip(o) \in Solid  BY <1>1, <1>4, <2>2
  <2> QED  BY <1>2, <2>3
<1> QED  BY <1>3, <1>4

\* A character that is not a NUL is not the last.
LEMMA NotTheNul ==
  ASSUME ParsedText, NEW o \in Nat, o < Parse!Length, Parse!At(o) # "NUL"
  PROVE  o + 1 < Parse!Length
BY DEF ParsedText

\* A number ends before the text does.
LEMMA NumberInside ==
  ASSUME ParsedText, NEW o \in Nat, o < Parse!Length, NumberLimit \in Nat
  PROVE  Parse!NumberLength(o) \in Nat /\ o + Parse!NumberLength(o) < Parse!Length
<1> DEFINE Copied == {n \in 0..NumberLimit : \A m \in 0..n - 1 : Parse!At(o + m) \in {"1", "-"}}
           Valued(n) == /\ n > (IF Parse!At(o) = "-" THEN 1 ELSE 0)
                       /\ \A m \in 1..n - 1 : Parse!At(o + m) = "1"
           Taken == {n \in Copied : Valued(n)}
<1>0. Parse!Length \in Nat  BY DEF ParsedText
<1>1. Parse!NumberLength(o) = IF Taken = {} THEN 0 ELSE CHOOSE n \in Taken : \A m \in Taken : m <= n
  BY DEF Parse!NumberLength
<1>2. CASE Taken = {}  BY <1>0, <1>1, <1>2
<1>3. CASE Taken # {}
  <2>1. Taken \in SUBSET Nat /\ \A n \in Taken : n <= NumberLimit  OBVIOUS
  <2>2. \E n \in Taken : \A m \in Taken : m <= n  BY <1>3, <2>1, GreatestIsThere
  <2>3. \A n \in Taken : n \in Nat /\ \A m \in 0..n - 1 : Parse!At(o + m) \in {"1", "-"}  OBVIOUS
  <2> HIDE DEF Taken
  <2>4. Parse!NumberLength(o) \in Taken  BY <1>1, <1>3, <2>2
  <2> DEFINE n == Parse!NumberLength(o)
  <2>5. n \in Nat /\ \A m \in 0..n - 1 : Parse!At(o + m) \in {"1", "-"}  BY <2>3, <2>4
  <2> HIDE DEF n
  <2>6. ASSUME o + n >= Parse!Length  PROVE FALSE
    <3>1. Parse!Length - 1 - o \in 0..n - 1 /\ o + (Parse!Length - 1 - o) = Parse!Length - 1  BY <1>0, <2>5, <2>6
    <3>2. Parse!At(Parse!Length - 1) \in {"1", "-"}  BY <2>5, <3>1
    <3> QED  BY <3>2 DEF ParsedText
  <2> QED  BY <1>0, <2>5, <2>6 DEF n
<1> QED  BY <1>2, <1>3
-----------------------------------------------------------------------------
(* The blocks of the frames *)

\* The blocks that belong to frames fs, as BlocksHaveOwners adds them up.
Owns(fs) ==
  LET owned[n \in 0..Len(fs)] == IF n = 0 THEN 0 ELSE owned[n - 1] + fs[n].own
  IN  owned[Len(fs)]

\* f adds up the blocks of the first k frames.
AddsUp(f, fs, k) == f = [n \in 0..k |-> IF n = 0 THEN 0 ELSE f[n - 1] + fs[n].own]

\* There is such a sum, however many frames there are.
LEMMA SumIsThere ==
  ASSUME NEW fs, NEW N \in Nat
  PROVE  \E f : AddsUp(f, fs, N)
<1> DEFINE Bad == {k \in 0..N : ~\E f : AddsUp(f, fs, k)}
<1>1. Bad \subseteq 0..N  OBVIOUS
<1>2. \A k \in 0..N : k \notin Bad => \E f : AddsUp(f, fs, k)  OBVIOUS
<1>3. \A k \in Bad : ~\E f : AddsUp(f, fs, k)  OBVIOUS
<1> HIDE DEF Bad
<1>4. CASE Bad = {}  BY <1>2, <1>4
<1>5. CASE Bad # {}
  <2>1. PICK k \in Bad : \A q \in Bad : k <= q  BY <1>1, <1>5, LeastIsThere
  <2>2. k # 0
    <3> DEFINE f == [n \in 0..0 |-> 0]
    <3>1. AddsUp(f, fs, 0)  BY DEF AddsUp
    <3> QED  BY <1>3, <2>1, <3>1
  <2>3. k - 1 \in 0..N /\ k - 1 \notin Bad /\ k \in Nat  BY <1>1, <2>1, <2>2
  <2>4. PICK f : AddsUp(f, fs, k - 1)  BY <1>2, <2>3
  <2> DEFINE g == [n \in 0..k |-> IF n = k THEN f[k - 1] + fs[k].own ELSE f[n]]
  <2>5. AddsUp(g, fs, k)
    <3>1. \A n \in 0..k - 1 : f[n] = IF n = 0 THEN 0 ELSE f[n - 1] + fs[n].own
      BY <2>4 DEF AddsUp
    <3>2. \A n \in 0..k : g[n] = IF n = 0 THEN 0 ELSE g[n - 1] + fs[n].own
      BY <2>2, <2>3, <3>1
    <3> QED  BY <3>2 DEF AddsUp
  <2> QED  BY <1>3, <2>1, <2>5
<1> QED  BY <1>4, <1>5

LEMMA OwnsAddsUp ==
  ASSUME NEW fs, Len(fs) \in Nat
  PROVE  \E f : AddsUp(f, fs, Len(fs)) /\ Owns(fs) = f[Len(fs)]
<1>1. \E f : AddsUp(f, fs, Len(fs))  BY SumIsThere
<1> DEFINE owned == CHOOSE f : AddsUp(f, fs, Len(fs))
<1>2. AddsUp(owned, fs, Len(fs))  BY <1>1
<1>3. Owns(fs) = owned[Len(fs)]  BY DEF Owns, AddsUp
<1> QED  BY <1>2, <1>3

LEMMA OwnsNothing ==
  ASSUME NEW fs, Len(fs) = 0
  PROVE  Owns(fs) = 0
BY OwnsAddsUp DEF AddsUp

\* The frames fs own what those before the last do, and the last.
LEMMA OwnsTheLast ==
  ASSUME NEW fs, NEW gs, Len(gs) \in Nat, Len(fs) = Len(gs) + 1,
         \A n \in 1..Len(gs) : fs[n].own = gs[n].own
  PROVE  Owns(fs) = Owns(gs) + fs[Len(fs)].own
<1>1. PICK f : AddsUp(f, fs, Len(fs)) /\ Owns(fs) = f[Len(fs)]  BY OwnsAddsUp
<1>2. PICK g : AddsUp(g, gs, Len(gs)) /\ Owns(gs) = g[Len(gs)]  BY OwnsAddsUp
<1>3. /\ \A n \in 0..Len(fs) : f[n] = IF n = 0 THEN 0 ELSE f[n - 1] + fs[n].own
      /\ \A n \in 0..Len(gs) : g[n] = IF n = 0 THEN 0 ELSE g[n - 1] + gs[n].own
  BY <1>1, <1>2 DEF AddsUp
<1>4. f[Len(gs)] = g[Len(gs)]
  <2> DEFINE Bad == {n \in 0..Len(gs) : f[n] # g[n]}
  <2> SUFFICES ASSUME Bad # {}  PROVE FALSE  OBVIOUS
  <2>1. Bad \in SUBSET Nat  OBVIOUS
  <2>2. PICK k \in Bad : \A q \in Bad : k <= q  BY <2>1, LeastIsThere
  <2>3. k # 0 /\ k \in 0..Len(fs)  BY <1>3, <2>2
  <2>4. k - 1 \in 0..Len(gs) /\ k - 1 \notin Bad  BY <2>2, <2>3
  <2>5. f[k - 1] = g[k - 1] /\ k \in 1..Len(gs)  BY <2>3, <2>4
  <2> QED  BY <1>3, <2>2, <2>3, <2>5
<1>5. f[Len(fs)] = f[Len(fs) - 1] + fs[Len(fs)].own  BY <1>3
<1> QED  BY <1>1, <1>2, <1>4, <1>5

LEMMA OwnsIsNat ==
  ASSUME NEW fs, Len(fs) \in Nat, \A n \in 1..Len(fs) : fs[n].own \in Nat
  PROVE  Owns(fs) \in Nat
<1>1. PICK f : AddsUp(f, fs, Len(fs)) /\ Owns(fs) = f[Len(fs)]  BY OwnsAddsUp
<1>2. \A n \in 0..Len(fs) : f[n] = IF n = 0 THEN 0 ELSE f[n - 1] + fs[n].own
  BY <1>1 DEF AddsUp
<1> DEFINE Bad == {n \in 0..Len(fs) : f[n] \notin Nat}
<1>3. ASSUME Bad # {}  PROVE FALSE
  <2>1. Bad \in SUBSET Nat  OBVIOUS
  <2>2. PICK k \in Bad : \A q \in Bad : k <= q  BY <1>3, <2>1, LeastIsThere
  <2>3. k # 0  BY <1>2, <2>2
  <2>4. k - 1 \in 0..Len(fs) /\ k - 1 \notin Bad /\ k \in 1..Len(fs)  BY <2>2, <2>3
  <2>5. f[k - 1] \in Nat /\ fs[k].own \in Nat  BY <2>4
  <2> QED  BY <1>2, <2>2, <2>3, <2>5
<1> QED  BY <1>1, <1>3

\* The frames are a sequence of calls, each with its blocks; the first is cJSON_Parse's.
AreFrames(fs) ==
  /\ \E S : fs \in Seq(S)
  /\ \A n \in 1..Len(fs) :
       /\ fs[n].own \in Nat
       /\ fs[n].kind \in IF n = 1 THEN {"root"} ELSE {"array", "object"}

\* Every call that is not over owns some blocks, and each block is owned once.
FramesOK ==
  /\ AreFrames(frames)
  /\ made \in Nat /\ made = Owns(frames)
  /\ Len(frames) <= NestingLimit + 1

LEMMA PrefixIsSeq ==
  ASSUME NEW S, NEW fs \in Seq(S), NEW n \in Nat, n < Len(fs)
  PROVE  /\ SubSeq(fs, 1, n) \in Seq(S) /\ Len(SubSeq(fs, 1, n)) = n
         /\ \A m \in 1..n : SubSeq(fs, 1, n)[m] = fs[m]
<1>1. SubSeq(fs, 1, n) \in Seq(S)  OBVIOUS
<1>2. Len(SubSeq(fs, 1, n)) = n  OBVIOUS
<1>3. \A m \in 1..n : SubSeq(fs, 1, n)[m] = fs[m]  OBVIOUS
<1> QED  BY <1>1, <1>2, <1>3

\* Without the last frame there are its blocks less.
LEMMA FrontOwns ==
  ASSUME NEW fs, AreFrames(fs), Len(fs) > 0
  PROVE  /\ AreFrames(Parse!Front(fs))
         /\ Len(fs) \in Nat /\ Len(Parse!Front(fs)) = Len(fs) - 1
         /\ \A n \in 1..Len(fs) - 1 : Parse!Front(fs)[n] = fs[n]
         /\ Owns(Parse!Front(fs)) \in Nat /\ fs[Len(fs)].own \in Nat
         /\ Owns(fs) = Owns(Parse!Front(fs)) + fs[Len(fs)].own
<1>1. PICK S : fs \in Seq(S)  BY DEF AreFrames
<1>2. Len(fs) - 1 \in Nat /\ Len(fs) - 1 < Len(fs) /\ Len(fs) \in Nat  BY <1>1
<1>3. /\ Parse!Front(fs) \in Seq(S) /\ Len(Parse!Front(fs)) = Len(fs) - 1
      /\ \A n \in 1..Len(fs) - 1 : Parse!Front(fs)[n] = fs[n]
  BY <1>1, <1>2, PrefixIsSeq DEF Parse!Front
<1>4. AreFrames(Parse!Front(fs))  BY <1>2, <1>3 DEF AreFrames
<1>5. \A n \in 1..Len(fs) : fs[n].own \in Nat  BY DEF AreFrames
<1>6. Owns(Parse!Front(fs)) \in Nat  BY <1>2, <1>3, <1>5, OwnsIsNat
<1>7. Owns(fs) = Owns(Parse!Front(fs)) + fs[Len(fs)].own  BY <1>2, <1>3, OwnsTheLast
<1> QED  BY <1>2, <1>3, <1>4, <1>5, <1>6, <1>7

\* The last frame may change, but not its kind.
LEMMA LastOwns ==
  ASSUME NEW fs, AreFrames(fs), Len(fs) > 0,
         NEW last, last.own \in Nat, last.kind = fs[Len(fs)].kind
  PROVE  /\ AreFrames([fs EXCEPT ![Len(fs)] = last])
         /\ Len([fs EXCEPT ![Len(fs)] = last]) = Len(fs)
         /\ Owns([fs EXCEPT ![Len(fs)] = last]) = Owns(fs) - fs[Len(fs)].own + last.own
<1> DEFINE gs == [fs EXCEPT ![Len(fs)] = last]
<1>1. PICK S : fs \in Seq(S)  BY DEF AreFrames
<1>2. gs \in Seq(S \cup {last})
  <2>1. fs \in Seq(S \cup {last})  BY <1>1
  <2> QED  BY <2>1
<1>3. Len(gs) = Len(fs) /\ Len(fs) \in 1..Len(fs) /\ Len(fs) \in Nat  BY <1>1
<1>4. \A n \in 1..Len(fs) : gs[n] = IF n = Len(fs) THEN last ELSE fs[n]  BY <1>1
<1> HIDE DEF gs
<1>5. AreFrames(gs)  BY <1>2, <1>3, <1>4 DEF AreFrames
<1>6. /\ Len(Parse!Front(fs)) = Len(fs) - 1 /\ Len(Parse!Front(fs)) \in Nat
      /\ Owns(Parse!Front(fs)) \in Nat /\ fs[Len(fs)].own \in Nat
      /\ Owns(fs) = Owns(Parse!Front(fs)) + fs[Len(fs)].own
      /\ \A n \in 1..Len(fs) - 1 : Parse!Front(fs)[n] = fs[n]
  BY <1>3, FrontOwns
<1>7. \A n \in 1..Len(Parse!Front(fs)) : gs[n].own = Parse!Front(fs)[n].own  BY <1>3, <1>4, <1>6
<1>8. Owns(gs) = Owns(Parse!Front(fs)) + gs[Len(gs)].own  BY <1>3, <1>6, <1>7, OwnsTheLast
<1>9. Owns(gs) = Owns(fs) - fs[Len(fs)].own + last.own  BY <1>3, <1>4, <1>6, <1>8
<1> QED  BY <1>3, <1>5, <1>9 DEF gs

\* The last of fs has other values, some blocks more, perhaps another name.
LEMMA TopOwns ==
  ASSUME NEW fs, AreFrames(fs), Len(fs) > 0, NEW kids, NEW more \in Nat, NEW name
  PROVE  /\ AreFrames(Parse!WithTop(fs, kids, more, name))
         /\ Len(Parse!WithTop(fs, kids, more, name)) = Len(fs)
         /\ Owns(Parse!WithTop(fs, kids, more, name)) = Owns(fs) + more
<1> DEFINE last == Parse!Frame(fs[Len(fs)].kind, kids, fs[Len(fs)].own + more, name)
           gs == Parse!WithTop(fs, kids, more, name)
<1>1. fs[Len(fs)].own \in Nat /\ Owns(fs) \in Nat  BY FrontOwns
<1>2. last.own = fs[Len(fs)].own + more /\ last.kind = fs[Len(fs)].kind  BY DEF Parse!Frame
<1>3. gs = [fs EXCEPT ![Len(fs)] = last]  BY Zenon DEF Parse!WithTop
<1> HIDE DEF last, gs
<1>4. last.own \in Nat  BY <1>1, <1>2
<1>5. /\ AreFrames([fs EXCEPT ![Len(fs)] = last])
      /\ Len([fs EXCEPT ![Len(fs)] = last]) = Len(fs)
      /\ Owns([fs EXCEPT ![Len(fs)] = last]) = Owns(fs) - fs[Len(fs)].own + last.own
  BY <1>2, <1>4, LastOwns
<1>6. /\ AreFrames(gs) /\ Len(gs) = Len(fs)
      /\ Owns(gs) = Owns(fs) - fs[Len(fs)].own + last.own
  BY <1>3, <1>5, Zenon
<1>7. Owns(gs) = Owns(fs) + more  BY <1>1, <1>2, <1>6
<1> QED  BY <1>6, <1>7 DEF gs

LEMMA PutOwns ==
  ASSUME NEW fs, AreFrames(fs), Len(fs) > 0, NEW v, NEW more \in Nat
  PROVE  /\ AreFrames(Parse!Put(fs, v, more)) /\ Len(Parse!Put(fs, v, more)) = Len(fs)
         /\ Owns(Parse!Put(fs, v, more)) = Owns(fs) + more
BY TopOwns DEF Parse!Put

\* The call of parse_array or parse_object begins.
LEMMA AppendOwns ==
  ASSUME AreFrames(frames), Len(frames) > 0, NEW kind \in {"array", "object"}, NEW name, NEW kids
  PROVE  LET fs == Append(frames, Parse!Frame(kind, kids, 0, name))
         IN  AreFrames(fs) /\ Len(fs) = Len(frames) + 1 /\ Owns(fs) = Owns(frames)
<1> DEFINE last == Parse!Frame(kind, kids, 0, name)
           fs == Append(frames, last)
<1>1. PICK S : frames \in Seq(S)  BY DEF AreFrames
<1>2. last.own = 0 /\ last.kind = kind  BY DEF Parse!Frame
<1> HIDE DEF last
<1>3. /\ fs \in Seq(S \cup {last}) /\ Len(fs) = Len(frames) + 1 /\ Len(frames) \in Nat
      /\ \A n \in 1..Len(fs) : fs[n] = IF n = Len(fs) THEN last ELSE frames[n]
  <2>1. frames \in Seq(S \cup {last})  BY <1>1
  <2> QED  BY <2>1
<1> HIDE DEF fs
<1>4. AreFrames(fs)  BY <1>2, <1>3 DEF AreFrames
<1>5. Owns(frames) \in Nat  BY FrontOwns
<1>6. Owns(fs) = Owns(frames) + fs[Len(fs)].own  BY <1>3, OwnsTheLast
<1> QED  BY <1>2, <1>3, <1>4, <1>5, <1>6 DEF fs, last
-----------------------------------------------------------------------------
Reading == {"value", "name", "colon", "first", "item", "after"}

\* Where the parser may stand while it reads: before the NUL has been passed.
ParserPlaces ==
  /\ step \in Reading \cup {"begin", "fail", "done", "failed"}
  /\ position \in 0..Parse!Length
  /\ step \in {"value", "name", "first", "colon", "after"} => position < Parse!Length
  /\ step = "first" => position >= 1
  /\ step = "item" => position + 1 < Parse!Length
  /\ step \in Reading => Len(frames) >= 1
  /\ step = "first" => Len(frames) >= 2

ParserKinds ==
  /\ strict \in {"yes", "no"} /\ supply \in {"enough", "short"}
  /\ error \in Nat \cup {NoError}

ParseInv == Parse!CJsonParseAssumption /\ ParsedText /\ ParserKinds /\ ParserPlaces /\ FramesOK

LEMMA ParseInitInv == Parse!CJsonParseAssumption /\ Parse!Init => ParseInv
<1> SUFFICES ASSUME Parse!CJsonParseAssumption, Parse!Init PROVE ParseInv
  OBVIOUS
<1>1. ParsedText /\ Parse!Length \in Nat
  <2>1. text \in Seq(STRING) /\ text # <<>> /\ text[Len(text)] = "NUL"
    BY DEF Parse!CJsonParseAssumption, Parse!Init
  <2> QED  BY <2>1 DEF ParsedText, Parse!Length, Parse!At
<1>2. AreFrames(frames) /\ Len(frames) = 0
  <2>1. frames \in Seq({})  BY DEF Parse!Init
  <2> QED  BY <2>1 DEF AreFrames, Parse!Init
<1>3. FramesOK  BY <1>2, OwnsNothing DEF FramesOK, Parse!CJsonParseAssumption, Parse!Init
<1> QED  BY <1>1, <1>2, <1>3 DEF ParseInv, ParserKinds, ParserPlaces, Reading, Parse!Init

\* The top of the frames is there while the parser reads.
LEMMA TopIsThere ==
  ASSUME ParseInv, step \in Reading
  PROVE  /\ AreFrames(frames) /\ Len(frames) > 0 /\ Len(frames) \in Nat
         /\ Owns(frames) = made /\ made \in Nat
         /\ Parse!Top.kind \in {"root", "array", "object"} /\ Parse!Top.own \in Nat
<1>1. AreFrames(frames) /\ Owns(frames) = made /\ made \in Nat  BY DEF ParseInv, FramesOK
<1>2. Len(frames) \in Nat  BY <1>1 DEF AreFrames
<1>3. Len(frames) >= 1  BY DEF ParseInv, ParserPlaces
<1>4. Len(frames) \in 1..Len(frames)  BY <1>2, <1>3
<1> QED  BY <1>1, <1>2, <1>3, <1>4 DEF AreFrames, Parse!Top

\* An array or object that is over becomes a value of the call below, with its blocks.
LEMMA PopOwns ==
  ASSUME ParseInv, step \in Reading, Len(frames) >= 2, NEW v
  PROVE  /\ AreFrames(Parse!Put(Parse!Front(frames), v, Parse!Top.own))
         /\ Len(Parse!Put(Parse!Front(frames), v, Parse!Top.own)) = Len(frames) - 1
         /\ Owns(Parse!Put(Parse!Front(frames), v, Parse!Top.own)) = made
<1>1. /\ AreFrames(frames) /\ Len(frames) > 0 /\ Len(frames) \in Nat
      /\ Owns(frames) = made /\ Parse!Top.own \in Nat
  BY TopIsThere
<1>2. /\ AreFrames(Parse!Front(frames)) /\ Len(Parse!Front(frames)) = Len(frames) - 1
      /\ Owns(Parse!Front(frames)) \in Nat /\ made = Owns(Parse!Front(frames)) + Parse!Top.own
  BY <1>1, FrontOwns DEF Parse!Top
<1>3. Len(Parse!Front(frames)) > 0  BY <1>1, <1>2
<1>4. /\ AreFrames(Parse!Put(Parse!Front(frames), v, Parse!Top.own))
      /\ Len(Parse!Put(Parse!Front(frames), v, Parse!Top.own)) = Len(Parse!Front(frames))
      /\ Owns(Parse!Put(Parse!Front(frames), v, Parse!Top.own)) = Owns(Parse!Front(frames)) + Parse!Top.own
  BY <1>1, <1>2, <1>3, PutOwns
<1> QED  BY <1>2, <1>4

\* What a step may do to the frames: nothing but the blocks they own changes hands.
Owning(fs, n) == /\ AreFrames(fs) /\ n \in Nat /\ n = Owns(fs)
                 /\ Len(fs) >= 1 /\ Len(fs) <= NestingLimit + 1

\* Where a step may lead, with n calls that are not over.
LandsAt(there, o, n) ==
  /\ there \in Reading \cup {"fail", "done"}
  /\ o \in 0..Parse!Length
  /\ there \in {"value", "name", "first", "colon", "after"} => o < Parse!Length
  /\ there = "first" => o >= 1 /\ n >= 2
  /\ there = "item" => o + 1 < Parse!Length

\* A step that leaves the text alone, stands at a place inside it, and accounts for all blocks.
LEMMA ParserSteps ==
  ASSUME ParseInv, text' = text, strict' = strict, supply' = supply,
         error' \in Nat \cup {NoError},
         Owning(frames', made'),
         LandsAt(step', position', Len(frames'))
  PROVE  ParseInv'
<1>1. ParsedText' /\ Parse!Length' = Parse!Length  BY DEF ParseInv, ParsedText, Parse!Length, Parse!At
<1>2. ParserKinds'  BY DEF ParseInv, ParserKinds
<1>3. ParserPlaces'  BY <1>1 DEF ParserPlaces, Owning, LandsAt, Reading
<1>4. FramesOK'
  <2>1. AreFrames(frames)' /\ Owns(frames)' = Owns(frames')  BY DEF Owning, AreFrames, Owns
  <2> QED  BY <2>1 DEF Owning, FramesOK
<1> QED  BY <1>1, <1>2, <1>3, <1>4 DEF ParseInv

LEMMA ParseStepInv == ParseInv /\ [Parse!Next]_Parse!vars => ParseInv'
<1> SUFFICES ASSUME ParseInv, [Parse!Next]_Parse!vars PROVE ParseInv'
  OBVIOUS
<1>0. /\ ParsedText /\ Parse!Length \in Nat \ {0} /\ position \in Nat /\ position <= Parse!Length
      /\ error \in Nat \cup {NoError} /\ NestingLimit \in Nat /\ NumberLimit \in Nat
  BY DEF ParseInv, ParsedText, ParserPlaces, ParserKinds, Parse!CJsonParseAssumption
<1>a. ASSUME step \in Reading
      PROVE  /\ Owning(frames, made) /\ Len(frames) >= 1 /\ Len(frames) \in Nat
             /\ Parse!Top.kind \in {"root", "array", "object"}
  BY <1>a, TopIsThere DEF ParseInv, FramesOK, Owning
<1>b. ASSUME step \in Reading, NEW kids, NEW name
      PROVE  Owning(Parse!WithTop(frames, kids, 1, name), made + 1)
  <2>1. /\ AreFrames(frames) /\ Len(frames) > 0 /\ Owns(frames) = made /\ made \in Nat
        /\ Len(frames) >= 1 /\ Len(frames) <= NestingLimit + 1
    BY <1>a, <1>b DEF Owning
  <2>2. /\ AreFrames(Parse!WithTop(frames, kids, 1, name))
        /\ Len(Parse!WithTop(frames, kids, 1, name)) = Len(frames)
        /\ Owns(Parse!WithTop(frames, kids, 1, name)) = Owns(frames) + 1
    BY <2>1, TopOwns
  <2> QED  BY <2>1, <2>2 DEF Owning
<1>c. ASSUME step \in Reading, NEW v, NEW more \in Nat
      PROVE  Owning(Parse!Put(frames, v, more), made + more)
  <2>1. /\ AreFrames(frames) /\ Len(frames) > 0 /\ Owns(frames) = made /\ made \in Nat
        /\ Len(frames) >= 1 /\ Len(frames) <= NestingLimit + 1
    BY <1>a, <1>c DEF Owning
  <2>2. /\ AreFrames(Parse!Put(frames, v, more)) /\ Len(Parse!Put(frames, v, more)) = Len(frames)
        /\ Owns(Parse!Put(frames, v, more)) = Owns(frames) + more
    BY <2>1, PutOwns
  <2> QED  BY <2>1, <2>2 DEF Owning
<1>d. ASSUME step \in Reading, Len(frames) >= 2
      PROVE  Owning(Parse!Put(Parse!Front(frames), <<Parse!Top.kind, Parse!Top.kids>>, Parse!Top.own), made)
  <2>1. /\ made \in Nat /\ Len(frames) \in Nat /\ Len(frames) <= NestingLimit + 1
    BY <1>a, <1>d DEF Owning
  <2> DEFINE gs == Parse!Put(Parse!Front(frames), <<Parse!Top.kind, Parse!Top.kids>>, Parse!Top.own)
  <2>2. AreFrames(gs) /\ Len(gs) = Len(frames) - 1 /\ Owns(gs) = made
    BY <1>d, PopOwns
  <2> HIDE DEF gs
  <2>3. Owning(gs, made)  BY <1>0, <1>d, <2>1, <2>2 DEF Owning
  <2> QED  BY <2>3 DEF gs
<1>e. ASSUME step \in Reading  PROVE made \in Nat /\ made + 0 = made
  BY <1>a, <1>e DEF Owning
<1>f. ASSUME step \in Reading, UNCHANGED <<frames, made>>  PROVE Owning(frames', made')
  <2>1. frames' = frames /\ made' = made  BY <1>f
  <2> QED  BY <1>a, <1>f, <2>1
<1>1. CASE Parse!Begin
  <2>1. step = "begin" /\ UNCHANGED <<text, strict, supply>> /\ error' = NoError
    BY <1>1 DEF Parse!Begin
  <2>2. CASE /\ position' = Parse!Skip(IF Parse!At(0) = "BOM" /\ Parse!Length > 2 THEN 1 ELSE 0)
             /\ frames' = <<Parse!Frame("root", <<>>, 1, "none")>>
             /\ made' = 1 /\ step' = "value"
    <3> DEFINE o == IF Parse!At(0) = "BOM" /\ Parse!Length > 2 THEN 1 ELSE 0
    <3>1. o \in Nat /\ o < Parse!Length  BY <1>0
    <3>2. position' \in 0..Parse!Length /\ position' < Parse!Length
      <4> HIDE DEF o
      <4>1. Parse!Skip(o) \in o..(Parse!Length - 1)  BY <1>0, <3>1, SkipInside
      <4>2. position' = Parse!Skip(o)  BY <2>2 DEF o
      <4> QED  BY <1>0, <3>1, <4>1, <4>2
    <3>3. Owning(frames', made')
      <4> DEFINE f == Parse!Frame("root", <<>>, 1, "none")
      <4>1. f.kind = "root" /\ f.own = 1  BY DEF Parse!Frame
      <4>2. frames' = <<f>>  BY <2>2
      <4> HIDE DEF f
      <4>3. /\ frames' \in Seq({f}) /\ Len(frames') = 1 /\ frames'[1] = f
        BY <4>2
      <4>4. AreFrames(frames')  BY <4>1, <4>3 DEF AreFrames
      <4> DEFINE none == <<>>
      <4>a. Len(none) = 0  OBVIOUS
      <4> HIDE DEF none
      <4>5. Owns(none) = 0  BY <4>a, OwnsNothing
      <4> DEFINE fs == frames'
      <4>b. Len(fs) = Len(none) + 1 /\ Len(none) \in Nat  BY <4>a, <4>3
      <4>d. \A n \in 1..Len(none) : fs[n].own = none[n].own  BY <4>a
      <4> HIDE DEF fs
      <4>c. Owns(fs) = Owns(none) + fs[Len(fs)].own
        BY <4>b, <4>d, OwnsTheLast
      <4>6. Owns(frames') = Owns(none) + frames'[Len(frames')].own  BY <4>c DEF fs
      <4>7. Owns(frames') = 1  BY <4>1, <4>3, <4>5, <4>6
      <4> QED  BY <1>0, <2>2, <4>3, <4>4, <4>7 DEF Owning
    <3>z. LandsAt(step', position', Len(frames'))  BY <1>0, <2>1, <2>2, <3>2, <3>3 DEF LandsAt, Reading
    <3> QED  BY <1>0, <2>1, <2>2, <3>2, <3>3, <3>z, ParserSteps
  <2>3. CASE step' = "fail" /\ UNCHANGED <<position, frames, made>>
    <3>1. ParsedText' /\ Parse!Length' = Parse!Length  BY <2>1, <2>3, <1>0 DEF ParsedText, Parse!Length, Parse!At
    <3> QED  BY <2>1, <2>3, <3>1 DEF ParseInv, ParserKinds, ParserPlaces, FramesOK, AreFrames, Owns, Reading
  <2> QED  BY <1>1, <2>2, <2>3 DEF Parse!Begin, Parse!Goto, Parse!Fail
<1>2. CASE Parse!ParseLiteral
  <2>1. /\ step = "value" /\ step \in Reading /\ position < Parse!Length /\ Parse!At(position) = "n"
        /\ position' = position + 1 /\ step' = "after" /\ made' = made
        /\ UNCHANGED <<text, strict, supply, error>>
        /\ frames' = Parse!Put(frames, <<"leaf", "n">>, 0)
    BY <1>2 DEF Parse!ParseLiteral, Parse!Goto, Parse!Keep, Reading, ParseInv, ParserPlaces
  <2>2. position + 1 < Parse!Length  BY <1>0, <2>1, NotTheNul
  <2>3. Owning(frames', made')
    <3>1. Owning(Parse!Put(frames, <<"leaf", "n">>, 0), made + 0)  BY <1>c, <2>1
    <3> QED  BY <1>e, <2>1, <3>1
  <2>z. LandsAt(step', position', Len(frames'))  BY <1>0, <2>1, <2>2, <2>3 DEF LandsAt, Reading
  <2> QED  BY <1>0, <2>1, <2>2, <2>3, <2>z, ParserSteps
<1>3. CASE Parse!ParseNumber
  <2>1. /\ step = "value" /\ step \in Reading /\ position < Parse!Length
        /\ made' = made /\ UNCHANGED <<text, strict, supply, error>>
    BY <1>3 DEF Parse!ParseNumber, Parse!Keep, Reading, ParseInv, ParserPlaces
  <2>2. CASE /\ position' = position + Parse!NumberLength(position) /\ step' = "after"
             /\ frames' = Parse!Put(frames, <<"leaf", "1">>, 0)
    <3>1. position' \in 0..Parse!Length /\ position' < Parse!Length  BY <1>0, <2>1, <2>2, NumberInside
    <3>2. Owning(frames', made')
      <4>1. Owning(Parse!Put(frames, <<"leaf", "1">>, 0), made + 0)  BY <1>c, <2>1
      <4> QED  BY <1>e, <2>1, <2>2, <4>1
    <3>z. LandsAt(step', position', Len(frames'))  BY <1>0, <2>1, <2>2, <3>1, <3>2 DEF LandsAt, Reading
    <3> QED  BY <1>0, <2>1, <2>2, <3>1, <3>2, <3>z, ParserSteps
  <2>3. CASE step' = "fail" /\ UNCHANGED <<position, frames>>
    <3>1. Owning(frames', made')  BY <1>f, <2>1, <2>3
    <3>z. LandsAt(step', position', Len(frames'))  BY <1>0, <2>1, <2>3, <3>1 DEF LandsAt, Reading
    <3> QED  BY <1>0, <2>1, <2>3, <3>1, <3>z, ParserSteps
  <2> QED  BY <1>3, <2>2, <2>3 DEF Parse!ParseNumber, Parse!Goto, Parse!Fail
<1>4. CASE Parse!ParseString
  <2>1. /\ step \in {"name", "value"} /\ step \in Reading /\ position < Parse!Length
        /\ UNCHANGED <<text, strict, supply, error>>
    BY <1>4 DEF Parse!ParseString, Parse!Keep, Reading, ParseInv, ParserPlaces
  <2>2. CASE Parse!At(position) = "s" /\ position' = position + 1 /\ made' = made + 1 /\ step' = "after"
             /\ frames' = Parse!Put(frames, <<"leaf", "s">>, 1)
    <3>1. position + 1 < Parse!Length  BY <1>0, <2>1, <2>2, NotTheNul
    <3>2. Owning(frames', made')  BY <1>c, <2>1, <2>2
    <3>z. LandsAt(step', position', Len(frames'))  BY <1>0, <2>1, <2>2, <3>1, <3>2 DEF LandsAt, Reading
    <3> QED  BY <1>0, <2>1, <2>2, <3>1, <3>2, <3>z, ParserSteps
  <2>3. CASE Parse!At(position) = "s" /\ position' = position + 1 /\ made' = made + 1 /\ step' = "colon"
             /\ frames' = Parse!WithTop(frames, Parse!Top.kids, 1, "s")
    <3>1. position + 1 < Parse!Length  BY <1>0, <2>1, <2>3, NotTheNul
    <3>2. Owning(frames', made')  BY <1>b, <2>1, <2>3
    <3>z. LandsAt(step', position', Len(frames'))  BY <1>0, <2>1, <2>3, <3>1, <3>2 DEF LandsAt, Reading
    <3> QED  BY <1>0, <2>1, <2>3, <3>1, <3>2, <3>z, ParserSteps
  <2>4. CASE /\ step' = "fail" /\ UNCHANGED <<made, frames>>
             /\ position' = IF Parse!At(position) \in {"s", "b"} THEN position ELSE position + 1
    <3>1. Owning(frames', made')  BY <1>f, <2>1, <2>4
    <3>z. LandsAt(step', position', Len(frames'))  BY <1>0, <2>1, <2>4, <3>1 DEF LandsAt, Reading
    <3> QED  BY <1>0, <2>1, <2>4, <3>1, <3>z, ParserSteps
  <2> QED  BY <1>4, <2>2, <2>3, <2>4 DEF Parse!ParseString, Parse!Goto, Parse!Fail
<1>5. CASE Parse!NoValue
  <2>1. /\ step = "value" /\ step \in Reading /\ step' = "fail"
        /\ UNCHANGED <<text, strict, supply, error, position, frames, made>>
    BY <1>5 DEF Parse!NoValue, Parse!Keep, Parse!Fail, Parse!Goto, Reading
  <2>2. Owning(frames', made')  BY <1>f, <2>1
  <2>z. LandsAt(step', position', Len(frames'))  BY <1>0, <2>1, <2>2 DEF LandsAt, Reading
  <2> QED  BY <1>0, <2>1, <2>2, <2>z, ParserSteps
<1>6. CASE Parse!Open
  <2>1. /\ step = "value" /\ step \in Reading /\ position < Parse!Length /\ Parse!At(position) \in {"[", "{"}
        /\ made' = made /\ UNCHANGED <<text, strict, supply, error>>
    BY <1>6 DEF Parse!Open, Parse!Keep, Reading, ParseInv, ParserPlaces
  <2>2. ASSUME NEW kind \in {"array", "object"}, Len(frames) - 1 < NestingLimit, step' = "first",
               frames' = Append(frames, Parse!Frame(kind, <<>>, 0, "none")), position' = Parse!Skip(position + 1)
        PROVE  ParseInv'
    <3>1. position + 1 < Parse!Length  BY <1>0, <2>1, NotTheNul
    <3>2. Parse!Skip(position + 1) \in position + 1..(Parse!Length - 1)  BY <1>0, <3>1, SkipInside
    <3>3. Owning(frames', made') /\ Len(frames') >= 2
      <4>1. /\ AreFrames(frames) /\ Len(frames) > 0 /\ Len(frames) \in Nat
            /\ Owns(frames) = made /\ made \in Nat /\ Len(frames) <= NestingLimit + 1
        BY <2>1, TopIsThere DEF ParseInv, FramesOK
      <4> DEFINE fs == Append(frames, Parse!Frame(kind, <<>>, 0, "none"))
      <4>2. AreFrames(fs) /\ Len(fs) = Len(frames) + 1 /\ Owns(fs) = Owns(frames)
        BY <4>1, AppendOwns
      <4>3. frames' = fs  BY <2>2
      <4> HIDE DEF fs
      <4>4. Owns(fs) = made /\ Len(fs) >= 2 /\ Len(fs) <= NestingLimit + 1
        BY <1>0, <2>2, <4>1, <4>2
      <4>5. Owning(fs, made)  BY <4>1, <4>2, <4>4 DEF Owning
      <4> QED  BY <2>1, <4>3, <4>4, <4>5
    <3>4. position' \in 0..Parse!Length /\ position' < Parse!Length /\ position' >= 1  BY <1>0, <2>2, <3>1, <3>2
    <3>5. step' = "first"  BY <2>2
    <3>z. LandsAt(step', position', Len(frames'))  BY <1>0, <2>1, <3>3, <3>4, <3>5 DEF LandsAt, Reading
    <3> QED  BY <1>0, <2>1, <3>3, <3>4, <3>5, <3>z, ParserSteps
  <2>3. CASE step' = "fail" /\ UNCHANGED <<position, frames>>
    <3>0. /\ step \in Reading /\ position < Parse!Length /\ made' = made
          /\ UNCHANGED <<text, strict, supply, error>>
      BY <2>1, Zenon
    <3>1. Owning(frames', made')  BY <1>f, <2>3, <3>0
    <3>z. LandsAt(step', position', Len(frames'))  BY <1>0, <2>3, <3>0 DEF LandsAt, Reading
    <3> QED  BY <1>0, <3>0, <3>1, <3>z, ParserSteps
  <2> QED
    <3>1. (IF Parse!At(position) = "[" THEN "array" ELSE "object") \in {"array", "object"}  OBVIOUS
    <3> QED  BY <1>6, <2>2, <2>3, <3>1, Zenon DEF Parse!Open, Parse!Goto, Parse!Fail
<1>7. CASE Parse!OpenNext
  <2>1. /\ step = "first" /\ step \in Reading /\ position < Parse!Length /\ position >= 1 /\ Len(frames) >= 2
        /\ made' = made /\ UNCHANGED <<text, strict, supply, error>>
    BY <1>7 DEF Parse!OpenNext, Parse!Keep, Reading, ParseInv, ParserPlaces
  <2>2. CASE Parse!At(position) = Parse!Closing /\ Parse!Success
    <3>1. position + 1 < Parse!Length
      <4>1. Parse!At(position) # "NUL"  BY <2>2 DEF Parse!Closing
      <4> QED  BY <1>0, <2>1, <4>1, NotTheNul
    <3>2. /\ position' = position + 1 /\ step' = "after"
          /\ frames' = Parse!Put(Parse!Front(frames), <<Parse!Top.kind, Parse!Top.kids>>, Parse!Top.own)
      BY <2>2 DEF Parse!Success, Parse!Goto
    <3>3. Owning(frames', made')  BY <1>d, <2>1, <3>2
    <3>z. LandsAt(step', position', Len(frames'))  BY <1>0, <2>1, <3>1, <3>2, <3>3 DEF LandsAt, Reading
    <3> QED  BY <1>0, <2>1, <3>1, <3>2, <3>3, <3>z, ParserSteps
  <2>3. CASE position' = position - 1 /\ step' = "item" /\ UNCHANGED frames
    <3>1. Owning(frames', made')  BY <1>f, <2>1, <2>3
    <3>z. LandsAt(step', position', Len(frames'))  BY <1>0, <2>1, <2>3, <3>1 DEF LandsAt, Reading
    <3> QED  BY <1>0, <2>1, <2>3, <3>1, <3>z, ParserSteps
  <2> QED  BY <1>7, <2>2, <2>3 DEF Parse!OpenNext, Parse!Goto
<1>8. CASE Parse!NextItem
  <2>1. /\ step = "item" /\ step \in Reading /\ position + 1 < Parse!Length
        /\ UNCHANGED <<text, strict, supply, error>>
    BY <1>8 DEF Parse!NextItem, Parse!Keep, Reading, ParseInv, ParserPlaces
  <2>2. ASSUME NEW there \in {"value", "name"}, step' = there, made' = made + 1,
               frames' = Parse!WithTop(frames, Parse!Top.kids, 1, Parse!Top.name), position' = Parse!Skip(position + 1)
        PROVE  ParseInv'
    <3>1. Parse!Skip(position + 1) \in position + 1..(Parse!Length - 1)  BY <1>0, <2>1, SkipInside
    <3>2. Owning(frames', made')  BY <1>b, <2>1, <2>2
    <3>3. position' \in 0..Parse!Length /\ position' < Parse!Length  BY <1>0, <2>2, <3>1
    <3>z. LandsAt(step', position', Len(frames'))  BY <1>0, <2>1, <2>2, <3>2, <3>3 DEF LandsAt, Reading
    <3> QED  BY <1>0, <2>1, <2>2, <3>2, <3>3, <3>z, ParserSteps
  <2>3. CASE step' = "fail" /\ UNCHANGED <<position, frames, made>>
    <3>1. Owning(frames', made')  BY <1>f, <2>1, <2>3
    <3>z. LandsAt(step', position', Len(frames'))  BY <1>0, <2>1, <2>3, <3>1 DEF LandsAt, Reading
    <3> QED  BY <1>0, <2>1, <2>3, <3>1, <3>z, ParserSteps
  <2> QED
    <3>1. (IF Parse!Top.kind = "array" THEN "value" ELSE "name") \in {"value", "name"}  OBVIOUS
    <3> QED  BY <1>8, <2>2, <2>3, <3>1, Zenon DEF Parse!NextItem, Parse!Goto, Parse!Fail
<1>9. CASE Parse!Colon
  <2>1. /\ step = "colon" /\ step \in Reading /\ position < Parse!Length
        /\ UNCHANGED <<text, strict, supply, error, frames, made>>
    BY <1>9 DEF Parse!Colon, Parse!Keep, Reading, ParseInv, ParserPlaces
  <2> DEFINE o == Parse!Skip(position)
  <2>2. o \in Nat /\ o < Parse!Length  BY <1>0, <2>1, SkipInside
  <2>3. /\ \/ Parse!At(o) = ":" /\ position' = Parse!Skip(o + 1) /\ step' = "value"
           \/ position' = o /\ step' = "fail"
    BY <1>9 DEF Parse!Colon, Parse!Goto, Parse!Fail
  <2> HIDE DEF o
  <2>4. CASE Parse!At(o) = ":" /\ position' = Parse!Skip(o + 1) /\ step' = "value"
    <3>1. o + 1 < Parse!Length /\ o + 1 \in Nat  BY <1>0, <2>2, <2>4, NotTheNul
    <3>2. Parse!Skip(o + 1) \in o + 1..(Parse!Length - 1)  BY <1>0, <3>1, SkipInside
    <3>3. position' \in 0..Parse!Length /\ position' < Parse!Length  BY <1>0, <2>4, <3>1, <3>2
    <3>4. Owning(frames', made')  BY <1>f, <2>1
    <3>z. LandsAt(step', position', Len(frames'))  BY <1>0, <2>1, <2>4, <3>3, <3>4 DEF LandsAt, Reading
    <3> QED  BY <1>0, <2>1, <2>4, <3>3, <3>4, <3>z, ParserSteps
  <2>5. CASE position' = o /\ step' = "fail"
    <3>1. Owning(frames', made')  BY <1>f, <2>1
    <3>z. LandsAt(step', position', Len(frames'))  BY <1>0, <2>1, <2>2, <2>5, <3>1 DEF LandsAt, Reading
    <3> QED  BY <1>0, <2>1, <2>2, <2>5, <3>1, <3>z, ParserSteps
  <2> QED  BY <2>3, <2>4, <2>5
<1>10. CASE Parse!After
  <2>0. /\ step = "after" /\ step \in Reading /\ position < Parse!Length /\ Len(frames) > 1
        /\ made' = made /\ UNCHANGED <<text, strict, supply, error>>
    BY <1>10 DEF Parse!After, Parse!Keep, Reading, ParseInv, ParserPlaces
  <2>1. /\ step = "after" /\ step \in Reading /\ position < Parse!Length /\ Len(frames) >= 2
        /\ made' = made /\ UNCHANGED <<text, strict, supply, error>>
    BY <1>a, <2>0
  <2> DEFINE o == Parse!Skip(position)
  <2>2. o \in Nat /\ o < Parse!Length  BY <1>0, <2>1, SkipInside
  <2>3. \/ Parse!At(o) = "," /\ position' = o /\ step' = "item" /\ UNCHANGED frames
        \/ /\ Parse!At(o) = Parse!Closing /\ position' = o + 1 /\ step' = "after"
           /\ frames' = Parse!Put(Parse!Front(frames), <<Parse!Top.kind, Parse!Top.kids>>, Parse!Top.own)
        \/ position' = o /\ step' = "fail" /\ UNCHANGED frames
    BY <1>10 DEF Parse!After, Parse!Goto, Parse!Fail
  <2> HIDE DEF o
  <2>4. CASE Parse!At(o) = "," /\ position' = o /\ step' = "item" /\ UNCHANGED frames
    <3>0. Parse!At(o) # "NUL" /\ position' = o /\ step' = "item" /\ frames' = frames  BY <2>4, Zenon
    <3>1. o + 1 < Parse!Length  BY <1>0, <2>2, <3>0, NotTheNul
    <3>2. Owning(frames', made')  BY <1>f, <2>1, <3>0
    <3>z. LandsAt(step', position', Len(frames'))  BY <1>0, <2>2, <3>0, <3>1 DEF LandsAt, Reading
    <3> QED  BY <1>0, <2>1, <3>2, <3>z, ParserSteps
  <2>5. CASE /\ Parse!At(o) = Parse!Closing /\ position' = o + 1 /\ step' = "after"
             /\ frames' = Parse!Put(Parse!Front(frames), <<Parse!Top.kind, Parse!Top.kids>>, Parse!Top.own)
    <3>1. o + 1 < Parse!Length
      <4>1. Parse!At(o) # "NUL"  BY <2>5 DEF Parse!Closing
      <4> QED  BY <1>0, <2>2, <4>1, NotTheNul
    <3>2. Owning(frames', made')  BY <1>d, <2>1, <2>5
    <3>z. LandsAt(step', position', Len(frames'))  BY <1>0, <2>1, <2>2, <2>5, <3>1, <3>2 DEF LandsAt, Reading
    <3> QED  BY <1>0, <2>1, <2>2, <2>5, <3>1, <3>2, <3>z, ParserSteps
  <2>6. CASE position' = o /\ step' = "fail" /\ UNCHANGED frames
    <3>1. Owning(frames', made')  BY <1>f, <2>1, <2>6
    <3>z. LandsAt(step', position', Len(frames'))  BY <1>0, <2>1, <2>2, <2>6, <3>1 DEF LandsAt, Reading
    <3> QED  BY <1>0, <2>1, <2>2, <2>6, <3>1, <3>z, ParserSteps
  <2> QED  BY <2>3, <2>4, <2>5, <2>6
<1>11. CASE Parse!End
  <2>1. /\ step = "after" /\ step \in Reading /\ position < Parse!Length
        /\ UNCHANGED <<text, strict, supply, error, frames, made>>
    BY <1>11 DEF Parse!End, Parse!Keep, Reading, ParseInv, ParserPlaces
  <2>2. Parse!Skip(position) \in position..(Parse!Length - 1)  BY <1>0, <2>1, SkipInside
  <2>3. position' \in {position, Parse!Skip(position)} /\ step' \in {"done", "fail"}  BY <1>11 DEF Parse!End, Parse!Goto
  <2>4. position' \in 0..Parse!Length  BY <1>0, <2>2, <2>3
  <2>5. Owning(frames', made')  BY <1>f, <2>1
  <2>6. step' \in Reading \cup {"fail", "done"} /\ step' \notin Reading
    BY <2>3 DEF Reading
  <2>z. LandsAt(step', position', Len(frames'))  BY <1>0, <2>1, <2>4, <2>5, <2>6 DEF LandsAt, Reading
  <2> QED  BY <1>0, <2>1, <2>4, <2>5, <2>6, <2>z, ParserSteps
<1>12. CASE Parse!Unwind
  <2>1. /\ step = "fail" /\ frames # <<>> /\ frames' = Parse!Front(frames) /\ made' = made - Parse!Top.own
        /\ UNCHANGED <<text, strict, supply, error, step, position>>
    BY <1>12 DEF Parse!Unwind, Parse!Keep
  <2>2. AreFrames(frames) /\ Owns(frames) = made /\ Len(frames) <= NestingLimit + 1
    BY DEF ParseInv, FramesOK
  <2>3. Len(frames) > 0
    <3>1. PICK S : frames \in Seq(S)  BY <2>2 DEF AreFrames
    <3> QED  BY <2>1, <3>1
  <2>4. /\ AreFrames(Parse!Front(frames)) /\ Len(Parse!Front(frames)) = Len(frames) - 1
        /\ Owns(Parse!Front(frames)) \in Nat /\ Parse!Top.own \in Nat /\ Len(frames) \in Nat
        /\ made = Owns(Parse!Front(frames)) + Parse!Top.own
    BY <2>2, <2>3, FrontOwns DEF Parse!Top
  <2>5. AreFrames(frames') /\ Owns(frames') = made' /\ made' \in Nat
    BY <2>1, <2>4
  <2>6. Len(frames') <= NestingLimit + 1  BY <1>0, <2>1, <2>2, <2>4
  <2>7. FramesOK'
    <3>1. AreFrames(frames)' /\ Owns(frames)' = Owns(frames')  BY <2>5 DEF AreFrames, Owns
    <3> QED  BY <2>5, <2>6, <3>1 DEF FramesOK
  <2>8. ParsedText' /\ Parse!Length' = Parse!Length  BY <1>0, <2>1 DEF ParsedText, Parse!Length, Parse!At
  <2> QED  BY <2>1, <2>7, <2>8 DEF ParseInv, ParserKinds, ParserPlaces, Reading
<1>13. CASE Parse!SetError
  <2>1. /\ step = "fail" /\ step' = "failed" /\ UNCHANGED <<text, strict, supply, position, frames, made>>
        /\ error' = IF position < Parse!Length THEN position ELSE Parse!Length - 1
    BY <1>13 DEF Parse!SetError, Parse!Goto
  <2>2. ParsedText' /\ Parse!Length' = Parse!Length  BY <1>0, <2>1 DEF ParsedText, Parse!Length, Parse!At
  <2>3. FramesOK'
    <3>1. AreFrames(frames)' /\ Owns(frames)' = Owns(frames)
      BY <2>1 DEF ParseInv, FramesOK, AreFrames, Owns
    <3> QED  BY <2>1, <3>1 DEF ParseInv, FramesOK
  <2> QED  BY <1>0, <2>1, <2>2, <2>3 DEF ParseInv, ParserKinds, ParserPlaces, Reading
<1>14. CASE Parse!Over \/ UNCHANGED Parse!vars
  <2>1. UNCHANGED Parse!vars  BY <1>14 DEF Parse!Over
  <2> QED  BY <2>1 DEF Parse!vars, ParseInv, ParserKinds, ParserPlaces, FramesOK, AreFrames, Owns, ParsedText, Parse!Length, Parse!At
<1> QED
  BY <1>1, <1>2, <1>3, <1>4, <1>5, <1>6, <1>7, <1>8, <1>9, <1>10, <1>11, <1>12, <1>13, <1>14
     DEF Parse!Next
-----------------------------------------------------------------------------
\* However deep a text nests, no more than NestingLimit calls are open, each with a list
\* of its own (parse_array, parse_object).
THEOREM ParserTypeCorrect == Parse!CJsonParseAssumption => (Parse!Spec => []Parse!TypeOK)
<1>1. ParseInv => Parse!TypeOK
  <2> SUFFICES ASSUME ParseInv PROVE Parse!TypeOK  OBVIOUS
  <2>1. PICK S : frames \in Seq(S)  BY DEF ParseInv, FramesOK, AreFrames
  <2>2. DOMAIN frames = 1..Len(frames)  BY <2>1
  <2> QED  BY <2>2 DEF ParseInv, ParserKinds, ParserPlaces, FramesOK, AreFrames, Parse!TypeOK, Reading
<1> QED  BY <1>1, ParseInitInv, ParseStepInv, PTL DEF Parse!Spec

LEMMA ParsesInside == ParseInv => Parse!LooksInsideText
<1> SUFFICES ASSUME ParseInv, step \in {"value", "name", "first", "colon", "after"}
             PROVE  Parse!Skip(position) < Parse!Length /\ position < Parse!Length
  BY DEF Parse!LooksInsideText
<1>1. ParsedText /\ position \in Nat /\ position < Parse!Length /\ Parse!Length \in Nat
  BY DEF ParseInv, ParserPlaces, ParsedText
<1>2. Parse!Skip(position) \in position..(Parse!Length - 1)  BY <1>1, SkipInside
<1> QED  BY <1>1, <1>2

\* Whatever the text and wherever memory runs out, the functions that look at a character
\* without asking can_access_at_index find one (parse_value, parse_string, parse_array).
THEOREM LooksInside == Parse!CJsonParseAssumption => (Parse!Spec => []Parse!LooksInsideText)
  BY ParsesInside, ParseInitInv, ParseStepInv, PTL DEF Parse!Spec

\* Every block belongs to one call that is not over, so that a failure anywhere frees each
\* block once (parse_array, parse_object, cJSON_ParseWithLengthOpts: fail).
THEOREM EveryBlockIsOwned == Parse!CJsonParseAssumption => (Parse!Spec => []Parse!BlocksHaveOwners)
<1>1. ParseInv => Parse!BlocksHaveOwners
  BY DEF ParseInv, FramesOK, Parse!BlocksHaveOwners, Owns
<1> QED  BY <1>1, ParseInitInv, ParseStepInv, PTL DEF Parse!Spec
-----------------------------------------------------------------------------
(* Strings *)

\* c counts the escapes in front of each place of the t measured up to end, of which there
\* are esc: none is adjacent to another, each begins with a backslash, and none begins at
\* the last byte measured or later.
Counts(c, end, esc, t) ==
  /\ c[1] = 0
  /\ \A n \in Nat : n >= end - 1 => c[n] = esc
  /\ \A m, n \in Nat : m <= n => 2 * (c[n] - c[m]) <= n - m + 1
  /\ \A n \in 1..(Len(t) - 1) : t[n + 1] # Unquote!Backslash => c[n + 1] = c[n]
Counted(c) == Counts(c, input_end, skipped_bytes, text)

StringKinds ==
  /\ step \in {"measure", "copy", "fail", "done", "failed"}
  /\ text \in Seq(0..255) /\ Len(text) > 0
  /\ input_end \in 1..Len(text) /\ input_pointer \in 1..(input_end + 1)
  /\ skipped_bytes \in Nat /\ room \in Nat /\ position \in 0..Len(text)
  /\ output \in Seq(0..255)

StringPlaces ==
  /\ step = "measure" => input_pointer = 1 /\ output = <<>> /\ room = 0
  /\ step = "copy" => room > 0
  /\ step = "failed" => room = 0
  /\ step = "done" => Len(output) <= room
  /\ input_pointer <= Len(text)
  /\ room > 0 => input_end < Len(text) /\ room = input_end - skipped_bytes + 1

Escaped == \E c \in [Nat -> Nat] :
  /\ Counted(c)
  /\ step \in {"copy", "fail"} => Len(output) + c[input_pointer] <= input_pointer - 1

StringInv == StringKinds /\ StringPlaces /\ Escaped

LEMMA StringInitInv == Unquote!CJsonStringAssumption /\ Unquote!Init => StringInv
<1> SUFFICES ASSUME Unquote!CJsonStringAssumption, Unquote!Init PROVE StringInv
  OBVIOUS
<1>1. text \in Seq(0..255) /\ text # <<>> /\ Len(text) \in Nat /\ Len(text) > 0
  BY EmptySeq DEF Unquote!CJsonStringAssumption, Unquote!Init
<1>2. StringKinds /\ StringPlaces
  BY <1>1 DEF Unquote!Init, StringKinds, StringPlaces
<1> DEFINE c == [n \in Nat |-> 0]
<1>3. Counted(c)
  BY DEF Counted, Counts, Unquote!Init
<1>4. Escaped
  BY <1>3 DEF Escaped, Unquote!Init
<1> QED  BY <1>2, <1>4 DEF StringInv

\* One digit, and four of them.
LEMMA OneDigit == ASSUME NEW c \in 0..255 PROVE Unquote!Digit(c) \in -1..15
BY SMT DEF Unquote!Digit

LEMMA DigitsAddUp ==
  ASSUME NEW a \in 0..15, NEW b \in 0..15, NEW c \in 0..15, NEW d \in 0..15
  PROVE  LET h == a * 4096 + b * 256 + c * 16 + d IN h \in Nat /\ h <= 65535
BY SMT

\* parse_hex4 is four digits' worth, whatever the bytes.
LEMMA FourDigits ==
  ASSUME text \in Seq(0..255), NEW n \in Nat
  PROVE  Unquote!parse_hex4(n) \in Nat /\ Unquote!parse_hex4(n) <= 65535
<1> DEFINE D(k) == Unquote!Digit(Unquote!At(n + k))
           None == \E k \in 0..3 : n + k >= Len(text) \/ D(k) = -1
<1>1. CASE None
  <2>1. Unquote!parse_hex4(n) = 0  BY <1>1, SMT DEF Unquote!parse_hex4
  <2> QED  BY <2>1, SMT
<1>2. CASE ~None
  <2>1. ASSUME NEW k \in 0..3 PROVE D(k) \in 0..15
    <3>1. n + k < Len(text) /\ D(k) # -1  BY <1>2, SMT
    <3>2. n + k + 1 \in 1..Len(text)  BY <3>1, SMT
    <3>3. Unquote!At(n + k) \in 0..255  BY <3>2, ElementOfSeq, SMT DEF Unquote!At
    <3>4. D(k) \in -1..15  BY <3>3, OneDigit
    <3> QED  BY <3>1, <3>4, SMT
  <2>2. n + 0 = n  BY SMT
  <2>3. Unquote!parse_hex4(n) = D(0) * 4096 + D(1) * 256 + D(2) * 16 + D(3)
    BY <1>2, <2>2, SMT DEF Unquote!parse_hex4
  <2>4. D(0) \in 0..15 /\ D(1) \in 0..15 /\ D(2) \in 0..15 /\ D(3) \in 0..15
    BY <2>1, SMT
  <2> DEFINE a == D(0)  b == D(1)  c == D(2)  d == D(3)
  <2>5. a \in 0..15 /\ b \in 0..15 /\ c \in 0..15 /\ d \in 0..15
    BY <2>4
  <2>6. Unquote!parse_hex4(n) = a * 4096 + b * 256 + c * 16 + d
    BY <2>3
  <2> HIDE DEF a, b, c, d
  <2> QED  BY <2>5, <2>6, DigitsAddUp, SMT
<1> HIDE DEF None
<1> QED  BY <1>1, <1>2, SMT

\* A code is six bytes or twelve, none of them the quote that ends the literal.
LEMMA CodeInside ==
  ASSUME NEW n \in Nat, input_end \in Nat
  PROVE  /\ Unquote!SequenceLength(n) \in {0, 6, 12}
         /\ n + Unquote!SequenceLength(n) <= input_end \/ Unquote!SequenceLength(n) = 0
BY SMT DEF Unquote!SequenceLength, Unquote!Paired

\* utf16_literal_to_utf8's four encodings.
LEMMA EncodedShort ==
  ASSUME NEW c \in Nat, c <= 65535
  PROVE  Unquote!Utf8(c) \in Seq(0..255) /\ Len(Unquote!Utf8(c)) <= 3
<1>1. CASE c < 128
  BY <1>1, SMT DEF Unquote!Utf8
<1>2. CASE ~(c < 128) /\ c < 2048
  <2> DEFINE x == 192 + (c \div 64)  y == 128 + (c % 64)
  <2>1. x \in 0..255 /\ y \in 0..255  BY <1>2, SMT
  <2>2. Unquote!Utf8(c) = <<x, y>>  BY <1>2, SMT DEF Unquote!Utf8
  <2> HIDE DEF x, y
  <2>3. Unquote!Utf8(c) \in Seq(0..255) /\ Len(Unquote!Utf8(c)) = 2
    BY <2>1, <2>2, SMT
  <2> QED  BY <2>3, SMT
<1>3. CASE ~(c < 128) /\ ~(c < 2048)
  <2> DEFINE x == 224 + (c \div 4096)  y == 128 + ((c \div 64) % 64)  z == 128 + (c % 64)
  <2>1. x \in 0..255 /\ y \in 0..255 /\ z \in 0..255  BY <1>3, SMT
  <2>2. Unquote!Utf8(c) = <<x, y, z>>  BY <1>3, SMT DEF Unquote!Utf8
  <2> HIDE DEF x, y, z
  <2>3. Unquote!Utf8(c) \in Seq(0..255) /\ Len(Unquote!Utf8(c)) = 3
    BY <2>1, <2>2, SMT
  <2> QED  BY <2>3, SMT
<1> QED  BY <1>1, <1>2, <1>3, SMT

LEMMA EncodedLong ==
  ASSUME NEW c \in Nat, 65536 <= c, c <= 1114111
  PROVE  Unquote!Utf8(c) \in Seq(0..255) /\ Len(Unquote!Utf8(c)) = 4
<1> DEFINE w == 240 + (c \div 262144)
           x == 128 + ((c \div 4096) % 64)
           y == 128 + ((c \div 64) % 64)
           z == 128 + (c % 64)
<1>1. w \in 0..255 /\ x \in 0..255 /\ y \in 0..255 /\ z \in 0..255
  BY SMT
<1>2. Unquote!Utf8(c) = <<w, x, y, z>>
  BY SMT DEF Unquote!Utf8
<1> HIDE DEF w, x, y, z
<1> QED  BY <1>1, <1>2, SMT

\* Six bytes decode to three at most, twelve to four.
LEMMA CodeShrinks ==
  ASSUME text \in Seq(0..255), input_end \in Nat, NEW n \in Nat, Unquote!SequenceLength(n) > 0
  PROVE  /\ Unquote!Utf8(Unquote!Codepoint(n)) \in Seq(0..255)
         /\ Unquote!SequenceLength(n) = 6 => Len(Unquote!Utf8(Unquote!Codepoint(n))) <= 3
         /\ Unquote!SequenceLength(n) = 12 => Len(Unquote!Utf8(Unquote!Codepoint(n))) <= 4
<1> DEFINE a == Unquote!parse_hex4(n + 2)
           b == Unquote!parse_hex4(n + 8)
<1>1. a \in Nat /\ b \in Nat /\ a <= 65535
  <2>1. n + 2 \in Nat /\ n + 8 \in Nat  BY SMT
  <2> QED  BY <2>1, FourDigits, SMT
<1>2. CASE Unquote!SequenceLength(n) = 12
  <2>1. Unquote!Codepoint(n) = 65536 + (a % 1024) * 1024 + (b % 1024)
    BY <1>2, SMT DEF Unquote!Codepoint
  <2> DEFINE x == a % 1024  y == b % 1024
  <2>2. x \in 0..1023 /\ y \in 0..1023
    <3> HIDE DEF a, b
    <3> QED  BY <1>1, SMT
  <2> HIDE DEF x, y
  <2>3. Unquote!Codepoint(n) = 65536 + x * 1024 + y
    BY <2>1, SMT DEF x, y
  <2>4. PICK c \in Nat : c = Unquote!Codepoint(n) /\ 65536 <= c /\ c <= 1114111
    BY <2>2, <2>3, SMT
  <2>5. Unquote!Utf8(c) \in Seq(0..255) /\ Len(Unquote!Utf8(c)) = 4
    BY <2>4, EncodedLong, SMT
  <2> QED  BY <1>2, <2>4, <2>5, SMT
<1>3. CASE Unquote!SequenceLength(n) # 12
  <2>1. Unquote!SequenceLength(n) = 6  BY <1>3, CodeInside, SMT
  <2>2. Unquote!Codepoint(n) = a  BY <1>3, SMT DEF Unquote!Codepoint
  <2> HIDE DEF a
  <2> QED  BY <1>1, <2>1, <2>2, EncodedShort, SMT
<1> QED  BY <1>2, <1>3, SMT

\* An escape is counted when Measure steps over it.
LEMMA CountOneMore ==
  ASSUME NEW c \in [Nat -> Nat], NEW end \in Nat, NEW esc \in Nat, NEW t, Len(t) \in Nat,
         Counts(c, end, esc, t), end >= 1, t[end + 1] = Unquote!Backslash
  PROVE  \E d \in [Nat -> Nat] : Counts(d, end + 2, esc + 1, t)
<1> DEFINE d == [n \in Nat |-> IF n <= end THEN c[n] ELSE esc + 1]
<1>0. \A n \in Nat : c[n] \in Nat  OBVIOUS
<1>1. d \in [Nat -> Nat]
  <2>0. esc + 1 \in Nat  OBVIOUS
  <2>1. \A n \in Nat : (IF n <= end THEN c[n] ELSE esc + 1) \in Nat  BY <1>0, <2>0, Zenon
  <2> QED  BY <2>1, Zenon
<1>2. /\ \A n \in Nat : n <= end => d[n] = c[n]
      /\ \A n \in Nat : n > end => d[n] = esc + 1
  OBVIOUS
<1> HIDE DEF d
<1>3. d[1] = 0  BY <1>2 DEF Counts
<1>4. \A n \in Nat : n >= (end + 2) - 1 => d[n] = esc + 1  BY <1>2
<1>5. \A n \in Nat : n >= end - 1 => c[n] = esc  BY DEF Counts
<1>6. \A m, n \in Nat : m <= n => 2 * (c[n] - c[m]) <= n - m + 1  BY DEF Counts
<1>7. ASSUME NEW m \in Nat, NEW n \in Nat, m <= n PROVE 2 * (d[n] - d[m]) <= n - m + 1
  <2>1. CASE n <= end
    <3>0. m <= end  BY <1>7, <2>1
    <3>1. d[n] = c[n] /\ d[m] = c[m]  BY <1>2, <2>1, <3>0
    <3> QED  BY <1>6, <1>7, <3>1
  <2>2. CASE n > end /\ m > end
    <3>1. d[n] = esc + 1 /\ d[m] = esc + 1  BY <1>2, <2>2
    <3> QED  BY <1>7, <3>1
  <2>3. CASE n > end /\ m = end
    <3>1. d[n] = esc + 1 /\ d[m] = c[m]  BY <1>2, <2>3
    <3>2. c[m] = esc  BY <1>5, <2>3
    <3> QED  BY <2>3, <3>1, <3>2
  <2>4. CASE n > end /\ m < end
    <3>0. m <= end  BY <2>4
    <3>1. d[n] = esc + 1 /\ d[m] = c[m]  BY <1>2, <2>4, <3>0
    <3>2. end - 1 \in Nat /\ m <= end - 1  BY <2>4
    <3>3. c[end - 1] = esc  BY <1>5, <3>2
    <3>4. 2 * (c[end - 1] - c[m]) <= (end - 1) - m + 1  BY <1>6, <3>2
    <3>5. PICK x \in Nat : x = c[m]  BY <1>0
    <3>6. 2 * (esc - x) <= (end - 1) - m + 1  BY <3>3, <3>4, <3>5
    <3>7. 2 * ((esc + 1) - x) <= n - m + 1  BY <2>4, <3>6
    <3> QED  BY <3>1, <3>5, <3>7
  <2> QED  BY <2>1, <2>2, <2>3, <2>4
<1>8. ASSUME NEW n \in 1..(Len(t) - 1), t[n + 1] # Unquote!Backslash PROVE d[n + 1] = d[n]
  <2>1. c[n + 1] = c[n]  BY <1>8 DEF Counts
  <2>2. n # end  BY <1>8
  <2>3. n \in Nat /\ n + 1 \in Nat  OBVIOUS
  <2>4. CASE n < end
    <3>1. n <= end /\ n + 1 <= end  BY <2>3, <2>4
    <3> QED  BY <1>2, <2>1, <2>3, <3>1
  <2>5. CASE n > end
    <3>1. n + 1 > end  BY <2>3, <2>5
    <3> QED  BY <1>2, <2>3, <2>5, <3>1
  <2> QED  BY <2>2, <2>3, <2>4, <2>5
<1>9. Counts(d, end + 2, esc + 1, t)
  BY <1>3, <1>4, <1>7, <1>8 DEF Counts
<1> QED  BY <1>1, <1>9

\* What is written is at most what is read less the escapes in it, so that it fits whatever
\* the escapes.
LEMMA StringStepInv == StringInv /\ [Unquote!Next]_Unquote!vars => StringInv'
<1> SUFFICES ASSUME StringInv, [Unquote!Next]_Unquote!vars PROVE StringInv'
  OBVIOUS
<1>0. /\ StringKinds /\ StringPlaces /\ Escaped /\ Len(text) \in Nat /\ Len(output) \in Nat
      /\ input_end \in Nat /\ input_pointer \in Nat
  BY DEF StringInv, StringKinds
<1>c. PICK c \in [Nat -> Nat] :
        /\ Counted(c)
        /\ step \in {"copy", "fail"} => Len(output) + c[input_pointer] <= input_pointer - 1
  BY <1>0 DEF Escaped
<1>d. \A n \in Nat : c[n] \in Nat  OBVIOUS
<1>e. /\ c[1] = 0
      /\ \A n \in Nat : n >= input_end - 1 => c[n] = skipped_bytes
      /\ \A m, n \in Nat : m <= n => 2 * (c[n] - c[m]) <= n - m + 1
      /\ \A n \in 1..(Len(text) - 1) : text[n + 1] # Unquote!Backslash => c[n + 1] = c[n]
  BY <1>c DEF Counted, Counts
<1>f. /\ text \in Seq(0..255) /\ Len(text) > 0 /\ output \in Seq(0..255)
      /\ input_end >= 1 /\ input_end <= Len(text) /\ input_pointer >= 1 /\ input_pointer <= input_end + 1
      /\ skipped_bytes \in Nat /\ room \in Nat /\ position \in 0..Len(text)
  BY <1>0 DEF StringKinds
<1>1. CASE Unquote!Measure
  <2>0. /\ step = "measure" /\ input_end < Len(text) /\ UNCHANGED <<text, supply, input_pointer, output, room, position>>
        /\ input_pointer = 1 /\ output = <<>> /\ room = 0
    BY <1>0, <1>1 DEF Unquote!Measure, Unquote!Inside, StringPlaces
  <2>1. CASE Unquote!At(input_end) # Unquote!Backslash /\ input_end' = input_end + 1 /\ UNCHANGED <<step, skipped_bytes>>
    <3>1. \A n \in Nat : n >= (input_end + 1) - 1 => c[n] = skipped_bytes
      BY <1>0, <1>e
    <3>2. Counts(c, input_end + 1, skipped_bytes, text)
      BY <1>e, <3>1 DEF Counts
    <3>3. Counted(c)'  BY <2>0, <2>1, <3>2 DEF Counted
    <3>4. StringKinds' /\ StringPlaces'
      BY <1>0, <1>f, <2>0, <2>1 DEF StringKinds, StringPlaces
    <3> QED  BY <2>0, <2>1, <3>3, <3>4 DEF StringInv, Escaped
  <2>2. CASE Unquote!At(input_end) = Unquote!Backslash /\ Unquote!Inside(input_end + 1) /\ input_end' = input_end + 2 /\ skipped_bytes' = skipped_bytes + 1 /\ UNCHANGED step
    <3>1. PICK d \in [Nat -> Nat] : Counts(d, input_end + 2, skipped_bytes + 1, text)
      BY <1>0, <1>c, <1>f, <2>2, CountOneMore DEF Counted, Unquote!At
    <3>2. StringKinds' /\ StringPlaces'
      BY <1>0, <2>0, <2>2 DEF StringKinds, StringPlaces, Unquote!Inside
    <3>3. Counted(d)'  BY <2>0, <2>2, <3>1 DEF Counted
    <3> QED  BY <2>0, <2>2, <3>2, <3>3 DEF StringInv, Escaped
  <2>3. CASE step' = "fail" /\ UNCHANGED <<input_end, skipped_bytes>>
    <3>1. Counted(c)'  BY <1>c, <2>0, <2>3 DEF Counted
    <3>2. Len(output') + c[input_pointer'] <= input_pointer' - 1
      BY <1>c, <1>e, <2>0, <2>3
    <3> QED  BY <1>0, <2>0, <2>3, <3>1, <3>2 DEF StringInv, StringKinds, StringPlaces, Escaped
  <2> QED  BY <1>1, <2>1, <2>2, <2>3 DEF Unquote!Measure
<1>2. CASE Unquote!Endless
  <2>0. /\ step = "measure" /\ step' = "fail" /\ UNCHANGED <<text, supply, input_pointer, input_end, skipped_bytes, output, room, position>>
        /\ input_pointer = 1 /\ output = <<>> /\ room = 0
    BY <1>0, <1>2 DEF Unquote!Endless, StringPlaces
  <2>1. Counted(c)'  BY <1>c, <2>0 DEF Counted
  <2>2. Len(output') + c[input_pointer'] <= input_pointer' - 1
    BY <1>c, <1>e, <2>0
  <2> QED  BY <1>0, <2>0, <2>1, <2>2 DEF StringInv, StringKinds, StringPlaces, Escaped
<1>3. CASE Unquote!Allocate
  <2>0. /\ step = "measure" /\ UNCHANGED <<text, supply, input_pointer, input_end, skipped_bytes, output, position>>
        /\ input_pointer = 1 /\ output = <<>> /\ room = 0 /\ input_end < Len(text)
        /\ \/ step' = "copy" /\ room' = input_end - skipped_bytes + 1
           \/ step' = "fail" /\ room' = 0
    BY <1>0, <1>3 DEF Unquote!Allocate, Unquote!Inside, StringPlaces
  <2>1. Counted(c)'  BY <1>c, <2>0 DEF Counted
  <2>2. Len(output') + c[input_pointer'] <= input_pointer' - 1
    BY <1>c, <1>e, <2>0
  <2>3. skipped_bytes <= input_end /\ skipped_bytes \in Nat
    <3>1. 2 * (c[input_end] - c[1]) <= input_end - 1 + 1 /\ c[1] = 0 /\ c[input_end] = skipped_bytes
      BY <1>0, <1>e, <1>f
    <3> QED  BY <1>0, <1>f, <3>1
  <2>4. StringKinds' /\ StringPlaces'
    <3> DEFINE r == input_end - skipped_bytes + 1
    <3>r. r \in Nat /\ r > 0  BY <1>0, <2>3
    <3>s. (step' = "copy" /\ room' = r) \/ (step' = "fail" /\ room' = 0)  BY <2>0
    <3>t. 0 \in Nat /\ ~(0 > 0)  OBVIOUS
    <3> HIDE DEF r
    <3>0. room' \in Nat /\ (step' = "copy" => room' > 0)  BY <3>r, <3>s, <3>t
    <3>1. StringKinds'  BY <1>0, <1>f, <2>0, <3>0 DEF StringKinds
    <3>2. StringPlaces'
      <4>1. input_pointer' <= Len(text')  BY <1>f, <2>0
      <4>2. room' > 0 => input_end' < Len(text') /\ room' = input_end' - skipped_bytes' + 1
        BY <2>0, <3>s, <3>t DEF r
      <4>3. step' \in {"copy", "fail"}  BY <3>s
      <4> QED  BY <3>0, <4>1, <4>2, <4>3 DEF StringPlaces
    <3> QED  BY <3>1, <3>2
  <2> QED  BY <2>1, <2>2, <2>4 DEF StringInv, Escaped
<1>4. CASE Unquote!Copy
  <2> DEFINE p == input_pointer
  <2>0. /\ step = "copy" /\ p < input_end /\ room > 0 /\ p \in Nat /\ p >= 1
        /\ UNCHANGED <<text, step, input_end, skipped_bytes, room, position>>
        /\ input_end < Len(text) /\ room = input_end - skipped_bytes + 1
    BY <1>0, <1>4 DEF Unquote!Copy, StringPlaces, StringKinds
  <2>p. p \in Nat /\ p >= 1 /\ p < input_end  BY <2>0
  <2>1. Counted(c)'  BY <1>c, <2>0 DEF Counted
  <2>2. SUFFICES /\ output' \in Seq(0..255) /\ p' \in Nat /\ p < p' /\ p' <= input_end + 1
                 /\ Len(output') - Len(output) + c[p'] - c[p] <= p' - p
    <3>1. c[p] \in Nat /\ c[p'] \in Nat  BY <1>d, <2>0, <2>2
    <3>2. Len(output') \in Nat  BY <2>2
    <3>3. Len(output) + c[p] <= p - 1  BY <1>c, <2>0
    <3>4. Len(output') + c[p'] <= p' - 1
      <4>1. PICK x \in Nat, y \in Nat : x = c[p] /\ y = c[p']  BY <3>1
      <4>2. PICK l \in Nat, k \in Nat : l = Len(output) /\ k = Len(output')  BY <1>0, <3>2
      <4>3. PICK q \in Nat : q = p'  BY <2>2
      <4>4. k - l + y - x <= q - p /\ l + x <= p - 1  BY <2>2, <3>3, <4>1, <4>2, <4>3
      <4>5. k + y <= q - 1  BY <2>p, <4>4
      <4> QED  BY <4>1, <4>2, <4>3, <4>5
    <3>5. StringKinds'  BY <1>0, <1>f, <2>0, <2>2 DEF StringKinds
    <3>6. StringPlaces'  BY <1>0, <2>0, <2>2, <1>f DEF StringPlaces
    <3> QED  BY <2>1, <3>4, <3>5, <3>6 DEF StringInv, Escaped
  <2>3. CASE /\ Unquote!At(p) # Unquote!Backslash
             /\ output' = Append(output, Unquote!At(p)) /\ p' = p + 1
    <3>0. p \in 1..(Len(text) - 1) /\ p + 1 \in 1..Len(text)  BY <1>0, <2>0
    <3>1. c[p + 1] = c[p]  BY <1>e, <2>3, <3>0 DEF Unquote!At
    <3>2. Unquote!At(p) \in 0..255  BY <1>f, <3>0, ElementOfSeq DEF Unquote!At
    <3>3. output' \in Seq(0..255) /\ Len(output') = Len(output) + 1
      BY <1>0, <2>3, <3>2, AppendProperties DEF StringKinds
    <3> QED  BY <1>0, <1>d, <2>0, <2>3, <3>1, <3>3
  <2>4. CASE /\ Unquote!At(p + 1) \in DOMAIN Unquote!Escapes
             /\ output' = Append(output, Unquote!Escapes[Unquote!At(p + 1)]) /\ p' = p + 2
    <3>1. 2 * (c[p + 2] - c[p]) <= (p + 2) - p + 1 /\ c[p + 2] \in Nat /\ c[p] \in Nat
      BY <1>d, <1>e, <2>0
    <3>2. Unquote!Escapes[Unquote!At(p + 1)] \in 0..255  BY <2>4 DEF Unquote!Escapes
    <3>3. output' \in Seq(0..255) /\ Len(output') = Len(output) + 1
      BY <1>0, <2>4, <3>2, AppendProperties DEF StringKinds
    <3>4. PICK x \in Nat, y \in Nat : x = c[p] /\ y = c[p + 2] /\ 2 * (y - x) <= (p + 2) - p + 1
      BY <3>1
    <3>5. y - x <= 1  BY <2>p, <3>4
    <3>6. c[p'] = y /\ p' = p + 2  BY <2>4, <3>4
    <3> QED  BY <1>0, <2>p, <3>3, <3>4, <3>5, <3>6
  <2>5. CASE /\ Unquote!SequenceLength(p) > 0
             /\ output' = output \o Unquote!Utf8(Unquote!Codepoint(p))
             /\ p' = p + Unquote!SequenceLength(p)
    <3> DEFINE b == Unquote!Utf8(Unquote!Codepoint(p))
               k == Unquote!SequenceLength(p)
    <3>1. k \in {6, 12} /\ p + k <= input_end
      <4>1. k \in {0, 6, 12} /\ (p + k <= input_end \/ k = 0)  BY <1>0, <2>0, CodeInside
      <4>2. k > 0  BY <2>5
      <4>3. k = 6 \/ k = 12  BY <4>1, <4>2
      <4> QED  BY <4>1, <4>3
    <3>2. b \in Seq(0..255) /\ (k = 6 => Len(b) <= 3) /\ (k = 12 => Len(b) <= 4)
      BY <1>0, <2>0, <2>5, CodeShrinks DEF StringKinds
    <3>3. 2 * (c[p + k] - c[p]) <= (p + k) - p + 1 /\ c[p + k] \in Nat /\ c[p] \in Nat
      <4> HIDE DEF k
      <4>1. p \in Nat /\ p + k \in Nat /\ p <= p + k  BY <2>p, <3>1
      <4> QED  BY <1>d, <1>e, <4>1
    <3>4. output' \in Seq(0..255) /\ Len(output') = Len(output) + Len(b)
      <4> HIDE DEF b
      <4> QED  BY <1>0, <2>5, <3>2, ConcatProperties DEF StringKinds, b
    <3> HIDE DEF k, b
    <3>5. p' = p + k  BY <2>5 DEF k
    <3>6. PICK x \in Nat, y \in Nat : x = c[p] /\ y = c[p + k] /\ 2 * (y - x) <= (p + k) - p + 1
      BY <3>3
    <3>7. y - x <= 3 \/ (k = 12 /\ y - x <= 6)  BY <2>p, <3>1, <3>6
    <3>8. c[p'] = y  BY <3>5, <3>6
    <3>9. Len(b) \in Nat  BY <3>2
    <3>10. Len(b) + y - x <= k
      <4>1. PICK l \in Nat : l = Len(b)  BY <3>9
      <4>2. (k = 6 => l <= 3) /\ (k = 12 => l <= 4)  BY <3>2, <4>1
      <4>3. l + y - x <= k  BY <3>1, <3>7, <4>2
      <4> QED  BY <4>1, <4>3
    <3>11. p < p' /\ p' <= input_end + 1 /\ p' \in Nat  BY <1>0, <2>p, <3>1, <3>5
    <3>12. Len(output') - Len(output) = Len(b)  BY <1>0, <3>4, <3>9
    <3>13. Len(output') - Len(output) + y - x <= p' - p
      <4>1. PICK l \in Nat : l = Len(b)  BY <3>9
      <4>2. Len(output') - Len(output) = l /\ l + y - x <= k  BY <3>10, <3>12, <4>1
      <4>3. p' - p = k  BY <2>p, <3>1, <3>5
      <4> QED  BY <4>2, <4>3
    <3> QED  BY <3>4, <3>6, <3>8, <3>11, <3>13
  <2> QED  BY <1>4, <2>3, <2>4, <2>5 DEF Unquote!Copy
<1>5. CASE Unquote!BadEscape
  <2>0. /\ step = "copy" /\ step' = "fail"
        /\ UNCHANGED <<text, supply, input_pointer, input_end, skipped_bytes, output, room, position>>
    BY <1>5 DEF Unquote!BadEscape
  <2>1. Counted(c)'  BY <1>c, <2>0 DEF Counted
  <2> QED  BY <1>0, <1>c, <2>0, <2>1 DEF StringInv, StringKinds, StringPlaces, Escaped
<1>6. CASE Unquote!Terminate
  <2>0. /\ step = "copy" /\ step' = "done" /\ output' = Append(output, 0) /\ position' = input_end + 1
        /\ UNCHANGED <<text, supply, input_pointer, input_end, skipped_bytes, room>>
        /\ input_pointer >= input_end /\ room > 0
    BY <1>0, <1>6 DEF Unquote!Terminate, StringPlaces
  <2>1. Counted(c)'  BY <1>c, <2>0 DEF Counted
  <2>2. output' \in Seq(0..255) /\ Len(output') = Len(output) + 1
    BY <1>0, <2>0, AppendProperties DEF StringKinds
  <2>3. Len(output) + skipped_bytes <= input_end
    <3>1. c[input_pointer] = skipped_bytes  BY <1>0, <1>e, <2>0
    <3> QED  BY <1>0, <1>c, <1>f, <2>0, <3>1
  <2>4. StringKinds' /\ StringPlaces'
    <3>1. room = input_end - skipped_bytes + 1 /\ input_end < Len(text) /\ input_pointer <= Len(text)
      BY <1>0, <2>0 DEF StringPlaces
    <3>2. StringKinds'  BY <1>0, <1>f, <2>0, <2>2, <3>1 DEF StringKinds
    <3>3. StringPlaces'  BY <1>0, <1>f, <2>0, <2>2, <2>3, <3>1 DEF StringPlaces
    <3> QED  BY <3>2, <3>3
  <2> QED  BY <2>0, <2>1, <2>4 DEF StringInv, Escaped
<1>7. CASE Unquote!Fail
  <2>0. /\ step' = "failed" /\ output' = <<>> /\ position' = input_pointer /\ room' = 0
        /\ UNCHANGED <<text, supply, input_pointer, input_end, skipped_bytes>>
    BY <1>7 DEF Unquote!Fail
  <2>1. Counted(c)'  BY <1>c, <2>0 DEF Counted
  <2>2. StringKinds' /\ StringPlaces'
    BY <1>0, <2>0 DEF StringKinds, StringPlaces
  <2> QED  BY <2>0, <2>1, <2>2 DEF StringInv, Escaped
<1>8. CASE Unquote!Over \/ UNCHANGED Unquote!vars
  <2>0. UNCHANGED Unquote!vars  BY <1>8 DEF Unquote!Over
  <2>1. Counted(c)'  BY <1>c, <2>0 DEF Counted, Unquote!vars
  <2> QED  BY <1>0, <1>c, <2>0, <2>1 DEF StringInv, StringKinds, StringPlaces, Escaped, Unquote!vars
<1> QED
  BY <1>1, <1>2, <1>3, <1>4, <1>5, <1>6, <1>7, <1>8 DEF Unquote!Next
-----------------------------------------------------------------------------
\* Every byte decoded is a byte, every position is one of the text (parse_string).
THEOREM StringTypeCorrect == Unquote!CJsonStringAssumption => (Unquote!Spec => []Unquote!TypeOK)
<1>1. StringInv => Unquote!TypeOK
  <2> SUFFICES ASSUME StringInv PROVE Unquote!TypeOK  OBVIOUS
  <2>0. output \in Seq(0..255)  BY DEF StringInv, StringKinds
  <2>1. DOMAIN output = 1..Len(output)  BY <2>0
  <2>2. \A n \in 1..Len(output) : output[n] \in 0..255  BY <2>0, ElementOfSeq
  <2>3. \A n \in DOMAIN output : output[n] \in 0..255  BY <2>1, <2>2
  <2>4. input_pointer \in Nat  BY DEF StringInv, StringKinds
  <2> QED  BY <2>3, <2>4 DEF StringInv, StringKinds, Unquote!TypeOK
<1> QED  BY <1>1, StringInitInv, StringStepInv, PTL DEF Unquote!Spec

\* Whatever the digits of a code, nothing behind the quote that ends the literal is read
\* (parse_string, utf16_literal_to_utf8).
THEOREM EndsAtTheQuote == Unquote!CJsonStringAssumption => (Unquote!Spec => []Unquote!StaysInLiteral)
<1>1. StringInv => Unquote!StaysInLiteral
  BY DEF StringInv, StringKinds, Unquote!StaysInLiteral
<1> QED  BY <1>1, StringInitInv, StringStepInv, PTL DEF Unquote!Spec

LEMMA DecodesInside == StringInv => Unquote!OutputFits
<1> SUFFICES ASSUME StringInv, step \in {"copy", "fail"}, room > 0 PROVE Len(output) + 1 <= room
  BY DEF StringInv, StringKinds, StringPlaces, Unquote!OutputFits
<1>1. PICK c \in [Nat -> Nat] :
        /\ Counted(c)
        /\ Len(output) + c[input_pointer] <= input_pointer - 1
  BY DEF StringInv, Escaped
<1>2. /\ input_end < Len(text) /\ room = input_end - skipped_bytes + 1
      /\ input_end \in Nat /\ input_pointer \in Nat /\ input_pointer <= input_end + 1
      /\ skipped_bytes \in Nat /\ Len(output) \in Nat
  BY DEF StringInv, StringKinds, StringPlaces
<1>3. c[input_pointer] \in Nat /\ c[input_end] = skipped_bytes
  BY <1>1, <1>2 DEF Counted, Counts
<1>4. CASE input_pointer < input_end
  <2>1. 2 * (c[input_end] - c[input_pointer]) <= input_end - input_pointer + 1
    BY <1>1, <1>2, <1>4 DEF Counted, Counts
  <2>2. PICK x \in Nat : x = c[input_pointer]  BY <1>3
  <2>3. 2 * (skipped_bytes - x) <= input_end - input_pointer + 1 /\ Len(output) + x <= input_pointer - 1
    BY <1>1, <1>3, <2>1, <2>2
  <2>4. PICK l \in Nat : l = Len(output)  BY <1>2
  <2>5. l + x <= input_pointer - 1  BY <2>3, <2>4
  <2>6. l + skipped_bytes <= input_end
    <3>1. input_end \in Nat /\ input_pointer \in Nat /\ skipped_bytes \in Nat  BY <1>2
    <3>2. 2 * (skipped_bytes - x) <= input_end - input_pointer + 1  BY <2>3
    <3> QED  BY <1>4, <2>5, <3>1, <3>2
  <2> QED  BY <1>2, <2>4, <2>6
<1>5. CASE input_pointer >= input_end
  <2>1. c[input_pointer] = skipped_bytes  BY <1>1, <1>2, <1>5 DEF Counted, Counts
  <2> QED  BY <1>1, <1>2, <2>1
<1> QED  BY <1>2, <1>4, <1>5

\* "This is at most how much we need for the output": what any literal is decoded to
\* fits into the block measured before (parse_string).
THEOREM DecodedFits == Unquote!CJsonStringAssumption => (Unquote!Spec => []Unquote!OutputFits)
  BY DecodesInside, StringInitInv, StringStepInv, PTL DEF Unquote!Spec
-----------------------------------------------------------------------------
(* The readers together *)

\* Whichever part a behaviour is of, the invariant of that part holds; the steps of the
\* others are not taken.
ReadInv ==
  /\ part \in {"parse", "string", "minify"}
  /\ part = "parse" => ParseInv
  /\ part = "string" => StringInv
  /\ part = "minify" => MinifyInv

LEMMA ReadInitInv == ReadInit => ReadInv
<1> SUFFICES ASSUME ReadInit PROVE ReadInv  OBVIOUS
<1>1. CASE part = "parse" /\ Parse!Init
  BY <1>1, ParseInitInv, CJsonReadersAssumption DEF ReadInv
<1>2. CASE part = "string" /\ Unquote!Init
  BY <1>2, StringInitInv, CJsonReadersAssumption DEF ReadInv
<1>3. CASE part = "minify" /\ Minify!Init
  BY <1>3, MinifyInitInv, CJsonReadersAssumption DEF ReadInv
<1> QED  BY <1>1, <1>2, <1>3 DEF ReadInit

LEMMA ReadStepInv == ReadInv /\ [ReadNext]_readVars => ReadInv'
<1> SUFFICES ASSUME ReadInv, [ReadNext]_readVars PROVE ReadInv'  OBVIOUS
<1>1. CASE part = "parse" /\ Parse!Next /\ part' = part
  BY <1>1, ParseStepInv DEF ReadInv
<1>2. CASE part = "string" /\ Unquote!Next /\ part' = part
  BY <1>2, StringStepInv DEF ReadInv
<1>3. CASE part = "minify" /\ Minify!Next /\ part' = part
  BY <1>3, MinifyStepInv DEF ReadInv
<1>4. CASE UNCHANGED readVars
  <2>1. part' = part /\ UNCHANGED Parse!vars /\ UNCHANGED Unquote!vars /\ UNCHANGED Minify!vars
    BY <1>4 DEF readVars, shared, parseVars, stringVars, minifyVars, Parse!vars, Unquote!vars, Minify!vars
  <2> QED
    BY <2>1, ParseStepInv, StringStepInv, MinifyStepInv DEF ReadInv
<1> QED  BY <1>1, <1>2, <1>3, <1>4 DEF ReadNext

\* For every text and any nesting limit, a block of the parser belongs to one call of
\* parse_array or parse_object that is not over, so a failure at any place, memory
\* included, frees each block once (cJSON_Delete in fail).
THEOREM ReadersOwnBlocks == ReadSpec => []BlocksHaveOwners
<1>1. ReadInv => BlocksHaveOwners
  BY DEF ReadInv, ParseInv, FramesOK, BlocksHaveOwners, Parse!BlocksHaveOwners, Owns
<1> QED  BY <1>1, ReadInitInv, ReadStepInv, PTL DEF ReadSpec

\* For every text, well formed or not, none of the parser, parse_string and cJSON_Minify
\* reads behind its end or writes where it must not.
THEOREM ReadersStayInBounds == ReadSpec => []StaysInBounds
<1>1. ReadInv => StaysInBounds
  <2> SUFFICES ASSUME ReadInv PROVE StaysInBounds  OBVIOUS
  <2>1. part = "parse" => Parse!LooksInsideText  BY ParsesInside DEF ReadInv
  <2>2. part = "string" => Unquote!StaysInLiteral /\ Unquote!OutputFits
    BY DecodesInside DEF ReadInv, StringInv, StringKinds, Unquote!StaysInLiteral
  <2>3. part = "minify" => Minify!StaysInText  BY DEF ReadInv, MinifyInv
  <2> QED  BY <2>1, <2>2, <2>3 DEF StaysInBounds
<1> QED  BY <1>1, ReadInitInv, ReadStepInv, PTL DEF ReadSpec
=============================================================================
