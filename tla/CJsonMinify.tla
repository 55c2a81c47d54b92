------------------------------ MODULE CJsonMinify ------------------------------
(***************************************************************************)
(* xface/cJSON.c: cJSON_Minify, which shortens a text where it stands: json *)
(* reads it, into writes it.  The characters told apart: quote (q),        *)
(* backslash (bs), slash (/), star, newline (nl), blank, the final NUL.    *)
(***************************************************************************)
EXTENDS Integers, SequencesExt

CONSTANT Texts  \* what may be minified, each with its NUL

CJsonMinifyAssumption == \A t \in Texts : t \in Seq(STRING) /\ t # <<>> /\ t[Len(t)] = "NUL"

VARIABLES
  text,   \* the memory at the argument
  given,  \* what it was at first
  pc,     \* the function at work, or "done"
  json,   \* where it reads, from 1
  into    \* where it writes

vars == <<text, given, pc, json, into>>

Init ==
  /\ text \in Texts /\ given = text
  /\ pc = "cJSON_Minify" /\ json = 1 /\ into = 1

At(n) == IF n \in DOMAIN text THEN text[n] ELSE "outside"
Goto(there) == pc' = there
-----------------------------------------------------------------------------
Blank ==
  /\ pc = "cJSON_Minify" /\ At(json) \in {" ", "nl"}
  /\ json' = json + 1
  /\ UNCHANGED <<text, given, pc, into>>

\* A slash that begins no comment is left out.
Slash ==
  /\ pc = "cJSON_Minify" /\ At(json) = "/"
  /\ \/ At(json + 1) = "/" /\ json' = json + 2 /\ Goto("skip_oneline_comment")
     \/ At(json + 1) = "*" /\ json' = json + 2 /\ Goto("skip_multiline_comment")
     \/ At(json + 1) \notin {"/", "*"} /\ json' = json + 1 /\ UNCHANGED pc
  /\ UNCHANGED <<text, given, into>>

skip_oneline_comment ==
  /\ pc = "skip_oneline_comment"
  /\ \/ At(json) = "nl" /\ json' = json + 1 /\ Goto("cJSON_Minify")
     \/ At(json) = "NUL" /\ Goto("cJSON_Minify") /\ UNCHANGED json
     \/ At(json) \notin {"nl", "NUL"} /\ json' = json + 1 /\ UNCHANGED pc
  /\ UNCHANGED <<text, given, into>>

skip_multiline_comment ==
  /\ pc = "skip_multiline_comment"
  /\ \/ At(json) = "*" /\ At(json + 1) = "/" /\ json' = json + 2 /\ Goto("cJSON_Minify")
     \/ At(json) = "NUL" /\ Goto("cJSON_Minify") /\ UNCHANGED json
     \/ At(json) # "NUL" /\ ~(At(json) = "*" /\ At(json + 1) = "/")
        /\ json' = json + 1 /\ UNCHANGED pc
  /\ UNCHANGED <<text, given, into>>

\* minify_string up to its loop.
Quote ==
  /\ pc = "cJSON_Minify" /\ At(json) = "q"
  /\ text' = [text EXCEPT ![into] = "q"]
  /\ json' = json + 1 /\ into' = into + 1
  /\ Goto("minify_string")
  /\ UNCHANGED given

\* Mutant of minify_string: a quote ends the string, whatever stands before it.
minify_string_plainly ==
  /\ pc = "minify_string"
  /\ \/ At(json) # "NUL" /\ json' = json + 1 /\ into' = into + 1
        /\ text' = [text EXCEPT ![into] = At(json)]
        /\ IF At(json) = "q" THEN Goto("cJSON_Minify") ELSE UNCHANGED pc
     \/ At(json) = "NUL" /\ Goto("cJSON_Minify") /\ UNCHANGED <<text, json, into>>
  /\ UNCHANGED given

\* Its loop: a backslash and a quote are copied together.
minify_string ==
  /\ pc = "minify_string"
  /\ \/ /\ At(json) = "q"
        /\ text' = [text EXCEPT ![into] = "q"]
        /\ json' = json + 1 /\ into' = into + 1 /\ Goto("cJSON_Minify")
     \/ /\ At(json) = "bs" /\ At(json + 1) = "q"
        /\ text' = [text EXCEPT ![into] = "bs", ![into + 1] = "q"]
        /\ json' = json + 2 /\ into' = into + 2 /\ UNCHANGED pc
     \/ /\ At(json) \notin {"q", "NUL"} /\ ~(At(json) = "bs" /\ At(json + 1) = "q")
        /\ text' = [text EXCEPT ![into] = At(json)]
        /\ json' = json + 1 /\ into' = into + 1 /\ UNCHANGED pc
     \/ At(json) = "NUL" /\ Goto("cJSON_Minify") /\ UNCHANGED <<text, json, into>>
  /\ UNCHANGED given

Copy ==
  /\ pc = "cJSON_Minify" /\ At(json) \notin {" ", "nl", "/", "q", "NUL"}
  /\ text' = [text EXCEPT ![into] = At(json)]
  /\ json' = json + 1 /\ into' = into + 1
  /\ UNCHANGED <<given, pc>>

Terminate ==
  /\ pc = "cJSON_Minify" /\ At(json) = "NUL"
  /\ text' = [text EXCEPT ![into] = "NUL"]
  /\ Goto("done")
  /\ UNCHANGED <<given, json, into>>

Over == pc = "done" /\ UNCHANGED vars

Next ==
  \/ Blank \/ Slash \/ skip_oneline_comment \/ skip_multiline_comment
  \/ Quote \/ minify_string \/ Copy \/ Terminate \/ Over

Spec == Init /\ [][Next]_vars
-----------------------------------------------------------------------------
\* The text stays in its memory: what is written is behind what is still to be read, and
\* no comment or string that does not end leads behind the NUL.
StaysInText == into <= json /\ json <= Len(text)

\* What is still to be read is as it was given.
ReadsWhatWasGiven == pc # "done" => \A n \in json..Len(text) : text[n] = given[n]
===============================================================================
