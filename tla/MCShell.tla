-------------------------------- MODULE MCShell --------------------------------
(* Shell and ShellPack for TLC.  The two share nothing, so a behaviour is one of  *)
(* either: the server's begins when it is opened, the stream's with a message.    *)
EXTENDS Shell, TLC

CONSTANTS c1, c2, Radix, Texts, MaxMessages, BufSize, InFlight

\* One client has more to say than its socket and writeCh can hold the replies to.
MCScript == c1 :> <<"quit", "quit", "quit", "quit">> @@ c2 :> <<"other", "quit">>

\* Short ones; one longer than the buffer; one of 9 bytes, whose uint16(9) is 0 (Radix is
\* 3), and one of 10, whose is 1.
MCTexts ==
  { << >>, <<1>>, <<1, 2>>, <<2, 1, 1>>, <<2, 2, 1, 2, 1>>, <<1, 2, 2, 1, 1, 2, 1, 2, 2>>,
    <<2, 1, 2, 2, 1, 1, 2, 1, 2, 2>> }

VARIABLES wire, written, buf, size, got

Pack == INSTANCE ShellPack WITH sent <- written

ASSUME PackAssumption == Pack!ShellPackAssumption

packVars == <<wire, written, buf, size, got>>

MCInit == Init /\ Pack!Init
MCNext ==
  \/ Next /\ written = << >> /\ UNCHANGED packVars
  \/ Pack!Next /\ main = "boot" /\ UNCHANGED vars

MCSpec == MCInit /\ [][MCNext]_<<vars, packVars>> /\ Fairness

\* ShellPack's property, of the stream's behaviours.
FirstWrongIsTorn == Pack!FirstWrongIsTorn
=============================================================================
