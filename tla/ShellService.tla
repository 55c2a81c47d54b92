------------------------------ MODULE ShellService ------------------------------
(***************************************************************************)
(* What the shell promises, to its clients and to the App: the App stops   *)
(* because a client asked for it, nobody else is told so, the shell hangs  *)
(* up on a client only if the client left or the App stops, and it is down *)
(* only when it has hung up on everyone.                                   *)
(***************************************************************************)
CONSTANT Clients

VARIABLES
  app,      \* "up", "stopping", "down"
  served,   \* the clients taken on and not hung up on
  left,     \* the clients that have left
  asked,    \* the clients whose command to quit has been read
  told      \* the clients that have been told "app will quit"

vars == <<app, served, left, asked, told>>

Init ==
  /\ app = "up"
  /\ served = {} /\ left = {} /\ asked = {} /\ told = {}

TakeOn(c) ==
  /\ app # "down" /\ c \notin served
  /\ served' = served \cup {c}
  /\ UNCHANGED <<app, left, asked, told>>

Leave(c) ==
  /\ left' = left \cup {c}
  /\ UNCHANGED <<app, served, asked, told>>

Ask(c) ==
  /\ app # "down"
  /\ asked' = asked \cup {c}
  /\ UNCHANGED <<app, served, left, told>>

Tell(c) ==
  /\ c \in served \cap asked
  /\ told' = told \cup {c}
  /\ UNCHANGED <<app, served, left, asked>>

Stop ==
  /\ app = "up" /\ asked # {}
  /\ app' = "stopping"
  /\ UNCHANGED <<served, left, asked, told>>

HangUp(c) ==
  /\ c \in served
  /\ c \in left \/ app = "stopping"
  /\ served' = served \ {c}
  /\ UNCHANGED <<app, left, asked, told>>

GoDown ==
  /\ app = "stopping" /\ served = {}
  /\ app' = "down"
  /\ UNCHANGED <<served, left, asked, told>>

Next ==
  \/ Stop \/ GoDown
  \/ \E c \in Clients : TakeOn(c) \/ Leave(c) \/ Ask(c) \/ Tell(c) \/ HangUp(c)

Spec == Init /\ [][Next]_vars
=============================================================================
