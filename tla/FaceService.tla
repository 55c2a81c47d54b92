----------------------------- MODULE FaceService -----------------------------
(***************************************************************************)
(* What faceserver promises a client: every message it sends becomes a     *)
(* request with an id of its own, and whatever comes back on a connection  *)
(* answers a request of that connection, each request at most once.  Once  *)
(* two clients have connected at the same time and been given one number,  *)
(* less is promised: an answer may come back on another connection.        *)
(***************************************************************************)
EXTENDS Naturals, Sequences, Functions

CONSTANT Conns

VARIABLES
  asked,    \* asked[c]: the ids of the requests read from connection c
  inbox,    \* inbox[c]: the ids of the responses written to c, in order
  mixed     \* two connections share a number

svars == <<asked, inbox, mixed>>

Init ==
  /\ asked = [c \in Conns |-> {}]
  /\ inbox = [c \in Conns |-> << >>]
  /\ mixed = FALSE

Ask(c) ==
  \E i \in asked'[c] :
    /\ i \notin UNION Range(asked)
    /\ asked' = [asked EXCEPT ![c] = @ \cup {i}]
    /\ UNCHANGED <<inbox, mixed>>

\* Answered anywhere.
Answered(i) == \E c \in Conns : i \in Range(inbox[c])

Answer(c) ==
  \E i \in UNION Range(asked) :
    /\ ~Answered(i)
    /\ i \in asked[c] \/ mixed
    /\ inbox' = [inbox EXCEPT ![c] = Append(@, i)]
    /\ UNCHANGED <<asked, mixed>>

Mix ==
  /\ ~mixed /\ mixed' = TRUE
  /\ UNCHANGED <<asked, inbox>>

Next == Mix \/ \E c \in Conns : Ask(c) \/ Answer(c)

Spec == Init /\ [][Next]_svars
=============================================================================
