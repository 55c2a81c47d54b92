------------------------------ MODULE ShellProofs ------------------------------
(***************************************************************************)
(* For any clients, whatever each has to say, any room in writeCh and in   *)
(* the sockets, and whether or not Accept and Close fail; and of ShellPack *)
(* for messages of any length, however they are written and read.          *)
(***************************************************************************)
EXTENDS MCShell, FiniteSetTheorems, SequenceTheorems, TLAPS

Messages == {"quit", "other"}

Places ==
  /\ app \in {"live", "cancelled"} /\ ctx \in {"live", "cancelled"}
  /\ main \in {"boot", "loop", "quit", "wait", "returned", "failed"}
  /\ listener \in {"nil", "open", "closed"}
  /\ accepting \in {"none", "accept", "add", "quit", "exited"}
  /\ taken \in Clients \cup {None} /\ mu \in Clients \cup {None}
  /\ sock \in [Clients -> {"none", "open", "closed"}]
  /\ writer \in [Clients -> {"none", "select", "write", "onClosed", "exited"}]
  /\ reader \in [Clients -> {"none", "read", "lock", "send", "quit", "done", "exited"}]
  /\ client \in [Clients -> {"away", "up", "left", "refused"}]
  /\ asked \in SUBSET Clients /\ told \in SUBSET Clients

Counts ==
  /\ writeCh \in [Clients -> 0..WriteChCap]
  /\ unread \in [Clients -> 0..SocketCap]
  /\ inbox \in [Clients -> Seq(Messages)]
  /\ sent \in [Clients -> Nat] /\ \A c \in Clients : sent[c] <= Len(Script[c])

\* The lives of a client's socket and of its two goroutines: the writer is the last
\* to go, and it closes the socket.
Lives ==
  \A c \in Clients :
    /\ taken = c => sock[c] = "open" /\ writer[c] = "none"
    /\ writer[c] = "none" <=> reader[c] = "none"
    /\ writer[c] = "none" /\ taken # c <=> sock[c] = "none"
    /\ writer[c] \in {"onClosed", "exited"} <=> reader[c] = "exited"
    /\ reader[c] = "exited" => sock[c] = "closed"
    /\ reader[c] = "done" => sock[c] = "closed" \/ client[c] = "left"

\* conns and wg know of every connection whose writer has not ended.
Group ==
  /\ conns = {c \in Clients : writer[c] \in {"select", "write", "onClosed"}}
  /\ IsFiniteSet(conns) /\ wg = Cardinality(conns)

\* What Close waits for, in its order.
Closing ==
  /\ taken # None <=> accepting = "add"
  /\ main = "boot" => accepting = "none"
  /\ main = "loop" => listener = "open"
  /\ main \in {"quit", "wait", "returned"} => app = "cancelled"
  /\ main \in {"wait", "returned"} <=> accepting = "exited"
  /\ main = "returned" => conns = {}
  /\ ctx = "cancelled" => accepting = "exited"

\* A reply is on its way only to a client that has asked the App to quit.
Replies ==
  /\ app = "cancelled" => asked # {}
  /\ told \subseteq asked
  /\ \A c \in Clients :
       reader[c] \in {"lock", "send", "quit"} \/ writeCh[c] > 0 \/ writer[c] = "write" => c \in asked

InHand(c) == IF reader[c] \in {"lock", "send"} THEN 1 ELSE 0
InWrite(c) == IF writer[c] = "write" THEN 1 ELSE 0

InInbox(c) == Len(inbox[c])
Due(c) == InInbox(c) + InHand(c) + writeCh[c] + InWrite(c) + unread[c]

\* Each message is in the inbox, or its reply is somewhere, or it is done with.
Accounts == \A c \in Clients : Due(c) <= sent[c]

Inv == Places /\ Counts /\ Lives /\ Group /\ Closing /\ Replies /\ Accounts

LEMMA InitInv == Init => Inv
<1> SUFFICES ASSUME Init PROVE Inv
  OBVIOUS
<1>1. Places /\ Counts
  BY ShellAssumption DEF Init, Places, Counts
<1>2. Lives /\ Closing /\ Replies
  BY ShellAssumption DEF Init, Lives, Closing, Replies
<1>3. Group
  BY FS_EmptySet DEF Init, Group
<1>4. Accounts
  BY DEF Init, Accounts, Due, InInbox, InHand, InWrite
<1> QED
  BY <1>1, <1>2, <1>3, <1>4 DEF Inv

\* A step concerns the messages of one client.
LEMMA OthersAccounts ==
  ASSUME Inv, NEW c \in Clients, Due(c)' <= sent'[c],
         \A d \in Clients \ {c} :
           /\ inbox'[d] = inbox[d] /\ writeCh'[d] = writeCh[d] /\ unread'[d] = unread[d]
           /\ reader'[d] = reader[d] /\ writer'[d] = writer[d] /\ sent'[d] = sent[d]
  PROVE  Accounts'
  BY DEF Inv, Accounts, Due, InInbox, InHand, InWrite

\* What a client's counts say of it.
LEMMA CountsOf ==
  ASSUME Inv, NEW c \in Clients
  PROVE  /\ writeCh[c] \in 0..WriteChCap /\ unread[c] \in 0..SocketCap
         /\ writeCh[c] \in Nat /\ unread[c] \in Nat
         /\ inbox[c] \in Seq(Messages) /\ Len(inbox[c]) \in Nat /\ InInbox(c) \in Nat
         /\ sent[c] \in Nat /\ Len(Script[c]) \in Nat /\ Script[c] \in Seq(Messages)
         /\ InHand(c) \in 0..1 /\ InWrite(c) \in 0..1
         /\ InInbox(c) + InHand(c) + writeCh[c] + InWrite(c) + unread[c] <= sent[c]
  BY ShellAssumption DEF Inv, Counts, Accounts, Due, InInbox, InHand, InWrite, Messages

LEMMA NextInv == Inv /\ [Next]_vars => Inv'
<1> SUFFICES ASSUME Inv, [Next]_vars PROVE Inv'
  OBVIOUS
<1>i. Places /\ Counts /\ Lives /\ Group /\ Closing /\ Replies /\ Accounts
  BY DEF Inv
<1> USE ShellAssumption DEF serverVars, lockVars, connVars, clientVars, history
<1>1. ASSUME NEW c \in Clients, Alive, Dial(c) PROVE Inv'
  <2>1. Places'
    BY <1>1, <1>i DEF Dial, Places
  <2>2. Lives'
    BY <1>1, <1>i DEF Dial, Places, Lives
  <2>3. Counts' /\ Group' /\ Closing' /\ Replies' /\ Accounts'
    BY <1>1, <1>i DEF Dial, Counts, Group, Closing, Replies, Accounts, Due, InInbox, InHand, InWrite
  <2> QED
    BY <2>1, <2>2, <2>3 DEF Inv
<1>2. ASSUME NEW c \in Clients, Alive, SendMessage(c) PROVE Inv'
  <2>1. Counts'
    <3>1. sent[c] + 1 \in 1..Len(Script[c])
      BY <1>2, CountsOf DEF SendMessage
    <3>2. Script[c][sent[c] + 1] \in Messages
      BY <3>1, CountsOf
    <3>3. Append(inbox[c], Script[c][sent[c] + 1]) \in Seq(Messages)
      BY <3>2, CountsOf
    <3> QED
      BY <1>2, <1>i, <3>1, <3>3 DEF SendMessage, Counts
  <2>2. Accounts'
    <3>1. Due(c)' <= sent'[c]
      <4>1. /\ InInbox(c)' = InInbox(c) + 1
            /\ sent'[c] = sent[c] + 1
            /\ InHand(c)' = InHand(c) /\ InWrite(c)' = InWrite(c)
            /\ UNCHANGED <<writeCh[c], unread[c]>>
        BY <1>2, <1>i, CountsOf DEF SendMessage, Places, Counts, InInbox, InHand, InWrite
      <4>2. /\ {InInbox(c), InHand(c), writeCh[c], InWrite(c), unread[c], sent[c]} \subseteq Int
            /\ InInbox(c) >= 0 /\ unread[c] >= 0
            /\ InInbox(c) + InHand(c) + writeCh[c] + InWrite(c) + unread[c] <= sent[c]
        BY CountsOf
      <4> QED
        BY <4>1, <4>2 DEF Due
    <3> QED
      BY <1>2, <1>i, <3>1, OthersAccounts DEF SendMessage, Places, Counts
  <2>3. Places' /\ Lives' /\ Group' /\ Closing' /\ Replies'
    BY <1>2, <1>i DEF SendMessage, Places, Lives, Group, Closing, Replies
  <2> QED
    BY <2>1, <2>2, <2>3 DEF Inv
<1>3. ASSUME NEW c \in Clients, Alive, ReadReply(c) PROVE Inv'
  <2>1. Counts'
    BY <1>3, <1>i DEF ReadReply, Counts
  <2>2. Accounts'
    <3>1. Due(c)' <= sent'[c]
      <4>1. /\ unread'[c] = unread[c] - 1
            /\ InHand(c)' = InHand(c) /\ InWrite(c)' = InWrite(c)
            /\ InInbox(c)' = InInbox(c) /\ UNCHANGED <<writeCh[c], inbox[c], sent[c]>>
        BY <1>3, <1>i, CountsOf DEF ReadReply, Places, Counts, InInbox, InHand, InWrite
      <4>2. /\ {InInbox(c), InHand(c), writeCh[c], InWrite(c), unread[c], sent[c]} \subseteq Int
            /\ InInbox(c) >= 0 /\ unread[c] >= 0
            /\ InInbox(c) + InHand(c) + writeCh[c] + InWrite(c) + unread[c] <= sent[c]
        BY CountsOf
      <4> QED
        BY <4>1, <4>2 DEF Due
    <3> QED
      BY <1>3, <1>i, <3>1, OthersAccounts DEF ReadReply, Places, Counts
  <2>3. Places' /\ Lives' /\ Group' /\ Closing' /\ Replies'
    BY <1>3, <1>i DEF ReadReply, Places, Lives, Group, Closing, Replies
  <2> QED
    BY <2>1, <2>2, <2>3 DEF Inv
<1>4. ASSUME NEW c \in Clients, Alive, Leave(c) PROVE Inv'
  <2>1. Places'
    BY <1>4, <1>i DEF Leave, Places
  <2>2. Counts'
    BY <1>4, <1>i DEF Leave, Counts
  <2>3. Lives'
    BY <1>4, <1>i DEF Leave, Places, Lives
  <2>4. Accounts'
    <3>1. Due(c)' <= sent'[c]
      <4>1. /\ unread'[c] = 0
            /\ InHand(c)' = InHand(c) /\ InWrite(c)' = InWrite(c)
            /\ InInbox(c)' = InInbox(c) /\ UNCHANGED <<writeCh[c], inbox[c], sent[c]>>
        BY <1>4, <1>i, CountsOf DEF Leave, Places, Counts, InInbox, InHand, InWrite
      <4>2. /\ {InInbox(c), InHand(c), writeCh[c], InWrite(c), unread[c], sent[c]} \subseteq Int
            /\ InInbox(c) >= 0 /\ unread[c] >= 0
            /\ InInbox(c) + InHand(c) + writeCh[c] + InWrite(c) + unread[c] <= sent[c]
        BY CountsOf
      <4> QED
        BY <4>1, <4>2 DEF Due
    <3> QED
      BY <1>4, <1>i, <3>1, OthersAccounts DEF Leave, Places, Counts
  <2>5. Group' /\ Closing' /\ Replies'
    BY <1>4, <1>i DEF Leave, Group, Closing, Replies
  <2> QED
    BY <2>1, <2>2, <2>3, <2>4, <2>5 DEF Inv
<1>5. CASE Alive /\ Open
  <2>1. Places'
    BY <1>5, <1>i DEF Open, Places
  <2>2. Closing'
    BY <1>5, <1>i DEF Open, Places, Closing, Alive
  <2>3. Counts' /\ Lives' /\ Group' /\ Replies' /\ Accounts'
    BY <1>5, <1>i DEF Open, Counts, Lives, Group, Replies, Accounts, Due, InInbox, InHand, InWrite
  <2> QED
    BY <2>1, <2>2, <2>3 DEF Inv
<1>6. CASE Alive /\ CloseListener
  <2>1. Places'
    BY <1>6, <1>i DEF CloseListener, Places
  <2>2. Lives'
    BY <1>6, <1>i DEF CloseListener, Places, Lives
  <2>3. Closing'
    BY <1>6, <1>i DEF CloseListener, Places, Closing, Alive
  <2>4. Counts' /\ Group' /\ Replies' /\ Accounts'
    BY <1>6, <1>i DEF CloseListener, Counts, Group, Replies, Accounts, Due, InInbox, InHand, InWrite
  <2> QED
    BY <2>1, <2>2, <2>3, <2>4 DEF Inv
<1>7. CASE Alive /\ CloseFails
  <2>1. Places'
    BY <1>7, <1>i DEF CloseFails, Places
  <2>2. Closing'
    BY <1>7, <1>i DEF CloseFails, Places, Closing, Alive
  <2>3. Counts' /\ Lives' /\ Group' /\ Replies' /\ Accounts'
    BY <1>7, <1>i DEF CloseFails, Counts, Lives, Group, Replies, Accounts, Due, InInbox, InHand, InWrite
  <2> QED
    BY <2>1, <2>2, <2>3 DEF Inv
<1>8. CASE Alive /\ ReceiveQuit
  <2>1. Places'
    BY <1>8, <1>i DEF ReceiveQuit, Places
  <2>2. Closing'
    BY <1>8, <1>i DEF ReceiveQuit, Places, Closing, Alive
  <2>3. Counts' /\ Lives' /\ Group' /\ Replies' /\ Accounts'
    BY <1>8, <1>i DEF ReceiveQuit, Counts, Lives, Group, Replies, Accounts, Due, InInbox, InHand, InWrite
  <2> QED
    BY <2>1, <2>2, <2>3 DEF Inv
<1>9. CASE Alive /\ WaitConns
  <2>1. Places'
    BY <1>9, <1>i DEF WaitConns, Places
  <2>2. Closing'
    BY <1>9, <1>i, FS_EmptySet DEF WaitConns, Places, Closing, Alive, Group
  <2>3. Counts' /\ Lives' /\ Group' /\ Replies' /\ Accounts'
    BY <1>9, <1>i DEF WaitConns, Counts, Lives, Group, Replies, Accounts, Due, InInbox, InHand, InWrite
  <2> QED
    BY <2>1, <2>2, <2>3 DEF Inv
<1>10. ASSUME NEW c \in Clients, Alive, Accept(c) PROVE Inv'
  <2>1. Places'
    BY <1>10, <1>i DEF Accept, Places
  <2>2. Lives'
    BY <1>10, <1>i DEF Accept, Places, Lives, Closing
  <2>3. Closing'
    BY <1>10, <1>i DEF Accept, Places, Closing, Alive
  <2>4. Counts' /\ Group' /\ Replies' /\ Accounts'
    BY <1>10, <1>i DEF Accept, Counts, Group, Replies, Accounts, Due, InInbox, InHand, InWrite
  <2> QED
    BY <2>1, <2>2, <2>3, <2>4 DEF Inv
<1>11. CASE Alive /\ AcceptFails
  <2>1. Places'
    BY <1>11, <1>i DEF AcceptFails, Places
  <2>2. Closing'
    BY <1>11, <1>i DEF AcceptFails, Places, Closing, Alive
  <2>3. Counts' /\ Lives' /\ Group' /\ Replies' /\ Accounts'
    BY <1>11, <1>i DEF AcceptFails, Counts, Lives, Group, Replies, Accounts, Due, InInbox, InHand, InWrite
  <2> QED
    BY <2>1, <2>2, <2>3 DEF Inv
<1>12. CASE Alive /\ Add
  <2>1. Places'
    BY <1>12, <1>i DEF Add, Places
  <2>2. Lives'
    BY <1>12, <1>i DEF Add, Places, Lives
  <2>3. Group'
    <3>1. taken \in Clients /\ taken \notin conns /\ IsFiniteSet(conns)
      BY <1>12, <1>i DEF Add, Places, Closing, Lives, Group
    <3>2. IsFiniteSet(conns \cup {taken}) /\ Cardinality(conns \cup {taken}) = Cardinality(conns) + 1
      BY <3>1, FS_AddElement
    <3> QED
      BY <1>12, <1>i, <3>1, <3>2 DEF Add, Places, Group
  <2>4. Closing'
    BY <1>12, <1>i DEF Add, Places, Closing, Alive
  <2>5. Replies'
    BY <1>12, <1>i DEF Add, Places, Counts, Replies
  <2>6. Accounts'
    <3>1. taken \in Clients
      BY <1>12, <1>i DEF Add, Places, Closing
    <3>2. PICK c \in Clients : c = taken
      BY <3>1
    <3>3. Due(c)' <= sent'[c]
      <4>1. /\ reader[c] = "none" /\ reader'[c] = "read"
            /\ writer[c] = "none" /\ writer'[c] = "select"
            /\ UNCHANGED <<writeCh[c], inbox[c], unread[c], sent[c]>>
        BY <1>12, <1>i, <3>2 DEF Add, Places, Lives
      <4> QED
        BY <4>1, CountsOf DEF Due, InInbox, InHand, InWrite
    <3> QED
      BY <1>12, <1>i, <3>2, <3>3, OthersAccounts DEF Add, Places
  <2>7. Counts'
    BY <1>12, <1>i DEF Add, Counts
  <2> QED
    BY <2>1, <2>2, <2>3, <2>4, <2>5, <2>6, <2>7 DEF Inv
<1>13. ASSUME NEW c \in Clients, Alive, ServerQuits(c) PROVE Inv'
  <2>1. Places'
    BY <1>13, <1>i DEF ServerQuits, Places
  <2>2. Lives'
    BY <1>13, <1>i DEF ServerQuits, Places, Lives
  <2>3. Counts' /\ Group' /\ Closing' /\ Replies' /\ Accounts'
    BY <1>13, <1>i DEF ServerQuits, Counts, Group, Closing, Replies, Accounts, Due, InInbox, InHand, InWrite
  <2> QED
    BY <2>1, <2>2, <2>3 DEF Inv
<1>14. ASSUME NEW c \in Clients, Alive, ReceiveDone(c) PROVE Inv'
  <2>1. Places'
    BY <1>14, <1>i DEF ReceiveDone, Places
  <2>2. Lives'
    BY <1>14, <1>i DEF ReceiveDone, Places, Lives
  <2>3. Group'
    BY <1>14, <1>i DEF ReceiveDone, Places, Group
  <2>4. Replies'
    BY <1>14, <1>i DEF ReceiveDone, Places, Counts, Replies
  <2>5. Accounts'
    <3>1. Due(c)' <= sent'[c]
      BY <1>14, <1>i, CountsOf DEF ReceiveDone, Places, Counts, Due, InInbox, InHand, InWrite
    <3> QED
      BY <1>14, <1>i, <3>1, OthersAccounts DEF ReceiveDone, Places, Counts
  <2>6. Counts' /\ Closing'
    BY <1>14, <1>i DEF ReceiveDone, Counts, Closing
  <2> QED
    BY <2>1, <2>2, <2>3, <2>4, <2>5, <2>6 DEF Inv
<1>15. ASSUME NEW c \in Clients, Alive, ReceiveReply(c) PROVE Inv'
  <2>1. Places'
    BY <1>15, <1>i DEF ReceiveReply, Places
  <2>2. Counts'
    BY <1>15, <1>i DEF ReceiveReply, Counts
  <2>3. Lives'
    BY <1>15, <1>i DEF ReceiveReply, Places, Lives
  <2>4. Group'
    BY <1>15, <1>i DEF ReceiveReply, Places, Group
  <2>5. Replies'
    BY <1>15, <1>i DEF ReceiveReply, Places, Counts, Replies
  <2>6. Accounts'
    <3>1. Due(c)' <= sent'[c]
      <4>1. /\ InWrite(c) = 0 /\ InWrite(c)' = 1
            /\ writeCh'[c] = writeCh[c] - 1
            /\ InHand(c)' = InHand(c)
            /\ InInbox(c)' = InInbox(c) /\ UNCHANGED <<inbox[c], unread[c], sent[c]>>
        BY <1>15, <1>i, CountsOf DEF ReceiveReply, Places, Counts, InInbox, InHand, InWrite
      <4>2. /\ {InInbox(c), InHand(c), writeCh[c], InWrite(c), unread[c], sent[c]} \subseteq Int
            /\ InInbox(c) >= 0 /\ unread[c] >= 0
            /\ InInbox(c) + InHand(c) + writeCh[c] + InWrite(c) + unread[c] <= sent[c]
        BY CountsOf
      <4> QED
        BY <4>1, <4>2 DEF Due
    <3> QED
      BY <1>15, <1>i, <3>1, OthersAccounts DEF ReceiveReply, Places, Counts
  <2>7. Closing'
    BY <1>15, <1>i DEF ReceiveReply, Closing
  <2> QED
    BY <2>1, <2>2, <2>3, <2>4, <2>5, <2>6, <2>7 DEF Inv
<1>16. ASSUME NEW c \in Clients, Alive, WriteReply(c) PROVE Inv'
  <2>1. Places'
    BY <1>16, <1>i DEF WriteReply, Places
  <2>2. Counts'
    <3>1. unread'[c] \in 0..SocketCap /\ \A d \in Clients \ {c} : unread'[d] = unread[d]
      BY <1>16, CountsOf, <1>i DEF WriteReply, Counts
    <3>2. unread' \in [Clients -> 0..SocketCap]
      BY <1>16, <1>i, <3>1 DEF WriteReply, Counts
    <3> QED
      BY <1>16, <1>i, <3>2 DEF WriteReply, Counts
  <2>3. Lives'
    BY <1>16, <1>i DEF WriteReply, Places, Lives
  <2>4. Group'
    BY <1>16, <1>i DEF WriteReply, Places, Group
  <2>5. Replies'
    BY <1>16, <1>i DEF WriteReply, Places, Counts, Replies
  <2>6. Accounts'
    <3>1. Due(c)' <= sent'[c]
      <4>1. /\ InWrite(c) = 1 /\ InWrite(c)' = 0
            /\ unread'[c] = unread[c] \/ unread'[c] = unread[c] + 1
            /\ InHand(c)' = InHand(c)
            /\ InInbox(c)' = InInbox(c) /\ UNCHANGED <<writeCh[c], inbox[c], sent[c]>>
        BY <1>16, <1>i, CountsOf DEF WriteReply, Places, Counts, InInbox, InHand, InWrite
      <4>2. /\ {InInbox(c), InHand(c), writeCh[c], InWrite(c), unread[c], sent[c]} \subseteq Int
            /\ InInbox(c) >= 0 /\ unread[c] >= 0
            /\ InInbox(c) + InHand(c) + writeCh[c] + InWrite(c) + unread[c] <= sent[c]
        BY CountsOf
      <4> QED
        BY <4>1, <4>2 DEF Due
    <3> QED
      BY <1>16, <1>i, <3>1, OthersAccounts DEF WriteReply, Places, Counts
  <2>7. Closing'
    BY <1>16, <1>i DEF WriteReply, Closing
  <2> QED
    BY <2>1, <2>2, <2>3, <2>4, <2>5, <2>6, <2>7 DEF Inv
<1>17. ASSUME NEW c \in Clients, Alive, OnClosed(c) PROVE Inv'
  <2>1. Places'
    BY <1>17, <1>i DEF OnClosed, Places
  <2>2. Lives'
    BY <1>17, <1>i DEF OnClosed, Places, Lives
  <2>3. Group'
    <3>1. c \in conns /\ IsFiniteSet(conns)
      BY <1>17, <1>i DEF OnClosed, Places, Group
    <3>2. IsFiniteSet(conns \ {c}) /\ Cardinality(conns \ {c}) = Cardinality(conns) - 1
      BY <3>1, FS_RemoveElement
    <3> QED
      BY <1>17, <1>i, <3>2 DEF OnClosed, Places, Group
  <2>4. Closing'
    BY <1>17, <1>i DEF OnClosed, Places, Closing, Alive
  <2>5. Replies'
    BY <1>17, <1>i DEF OnClosed, Places, Counts, Replies
  <2>6. Accounts'
    <3>1. Due(c)' <= sent'[c]
      BY <1>17, <1>i, CountsOf DEF OnClosed, Places, Counts, Due, InInbox, InHand, InWrite
    <3> QED
      BY <1>17, <1>i, <3>1, OthersAccounts DEF OnClosed, Places, Counts
  <2>7. Counts'
    BY <1>17, <1>i DEF OnClosed, Counts
  <2> QED
    BY <2>1, <2>2, <2>3, <2>4, <2>5, <2>6, <2>7 DEF Inv
<1>18. ASSUME NEW c \in Clients, Alive, ReadMessage(c) PROVE Inv'
  <2>1. Places'
    BY <1>18, <1>i DEF ReadMessage, Places
  <2>2. Counts'
    <3>1. Tail(inbox[c]) \in Seq(Messages)
      BY <1>18, CountsOf DEF ReadMessage
    <3> QED
      BY <1>18, <1>i, <3>1 DEF ReadMessage, Counts
  <2>3. Lives'
    BY <1>18, <1>i DEF ReadMessage, Places, Lives
  <2>4. Replies'
    BY <1>18, <1>i DEF ReadMessage, Places, Counts, Replies
  <2>5. Accounts'
    <3>1. Due(c)' <= sent'[c]
      <4>1. /\ InInbox(c)' = InInbox(c) - 1
            /\ InHand(c) = 0 /\ InHand(c)' \in 0..1
            /\ InWrite(c)' = InWrite(c)
            /\ UNCHANGED <<writeCh[c], unread[c], sent[c]>>
        BY <1>18, <1>i, CountsOf DEF ReadMessage, Places, Counts, InInbox, InHand, InWrite
      <4>2. /\ {InInbox(c), InHand(c), writeCh[c], InWrite(c), unread[c], sent[c]} \subseteq Int
            /\ InInbox(c) >= 0 /\ unread[c] >= 0
            /\ InInbox(c) + InHand(c) + writeCh[c] + InWrite(c) + unread[c] <= sent[c]
        BY CountsOf
      <4> QED
        BY <4>1, <4>2 DEF Due
    <3> QED
      BY <1>18, <1>i, <3>1, OthersAccounts DEF ReadMessage, Places, Counts
  <2>6. Group' /\ Closing'
    BY <1>18, <1>i DEF ReadMessage, Group, Closing
  <2> QED
    BY <2>1, <2>2, <2>3, <2>4, <2>5, <2>6 DEF Inv
<1>19. ASSUME NEW c \in Clients, Alive, ReadFails(c) PROVE Inv'
  <2>1. Places'
    BY <1>19, <1>i DEF ReadFails, Places
  <2>2. Lives'
    BY <1>19, <1>i DEF ReadFails, Places, Lives
  <2>3. Replies'
    BY <1>19, <1>i DEF ReadFails, Places, Counts, Replies
  <2>4. Accounts'
    <3>1. Due(c)' <= sent'[c]
      BY <1>19, <1>i, CountsOf DEF ReadFails, Places, Counts, Due, InInbox, InHand, InWrite
    <3> QED
      BY <1>19, <1>i, <3>1, OthersAccounts DEF ReadFails, Places, Counts
  <2>5. Counts' /\ Group' /\ Closing'
    BY <1>19, <1>i DEF ReadFails, Counts, Group, Closing
  <2> QED
    BY <2>1, <2>2, <2>3, <2>4, <2>5 DEF Inv
<1>20. ASSUME NEW c \in Clients, Alive, Lock(c) PROVE Inv'
  <2>1. Places'
    BY <1>20, <1>i DEF Lock, Places
  <2>2. Lives'
    BY <1>20, <1>i DEF Lock, Places, Lives
  <2>3. Replies'
    BY <1>20, <1>i DEF Lock, Places, Counts, Replies
  <2>4. Accounts'
    <3>1. Due(c)' <= sent'[c]
      <4>1. /\ InHand(c) = 1 /\ InHand(c)' = 1
            /\ InWrite(c)' = InWrite(c)
            /\ InInbox(c)' = InInbox(c) /\ UNCHANGED <<writeCh[c], inbox[c], unread[c], sent[c]>>
        BY <1>20, <1>i, CountsOf DEF Lock, Places, Counts, InInbox, InHand, InWrite
      <4>2. /\ {InInbox(c), InHand(c), writeCh[c], InWrite(c), unread[c], sent[c]} \subseteq Int
            /\ InInbox(c) >= 0 /\ unread[c] >= 0
            /\ InInbox(c) + InHand(c) + writeCh[c] + InWrite(c) + unread[c] <= sent[c]
        BY CountsOf
      <4> QED
        BY <4>1, <4>2 DEF Due
    <3> QED
      BY <1>20, <1>i, <3>1, OthersAccounts DEF Lock, Places, Counts
  <2>5. Counts' /\ Group' /\ Closing'
    BY <1>20, <1>i DEF Lock, Counts, Group, Closing
  <2> QED
    BY <2>1, <2>2, <2>3, <2>4, <2>5 DEF Inv
<1>21. ASSUME NEW c \in Clients, Alive, Write(c) PROVE Inv'
  <2>1. Places'
    BY <1>21, <1>i DEF Write, Places
  <2>2. Counts'
    BY <1>21, <1>i DEF Write, Counts
  <2>3. Lives'
    BY <1>21, <1>i DEF Write, Places, Lives
  <2>4. Replies'
    BY <1>21, <1>i DEF Write, Places, Counts, Replies
  <2>5. Accounts'
    <3>1. Due(c)' <= sent'[c]
      <4>1. /\ InHand(c) = 1 /\ InHand(c)' = 0
            /\ writeCh'[c] = writeCh[c] + 1
            /\ InWrite(c)' = InWrite(c)
            /\ InInbox(c)' = InInbox(c) /\ UNCHANGED <<inbox[c], unread[c], sent[c]>>
        BY <1>21, <1>i, CountsOf DEF Write, Places, Counts, InInbox, InHand, InWrite
      <4>2. /\ {InInbox(c), InHand(c), writeCh[c], InWrite(c), unread[c], sent[c]} \subseteq Int
            /\ InInbox(c) >= 0 /\ unread[c] >= 0
            /\ InInbox(c) + InHand(c) + writeCh[c] + InWrite(c) + unread[c] <= sent[c]
        BY CountsOf
      <4> QED
        BY <4>1, <4>2 DEF Due
    <3> QED
      BY <1>21, <1>i, <3>1, OthersAccounts DEF Write, Places, Counts
  <2>6. Group' /\ Closing'
    BY <1>21, <1>i DEF Write, Group, Closing
  <2> QED
    BY <2>1, <2>2, <2>3, <2>4, <2>5, <2>6 DEF Inv
<1>22. ASSUME NEW c \in Clients, Alive, Quit(c) PROVE Inv'
  <2>1. Places'
    BY <1>22, <1>i DEF Quit, Places
  <2>2. Lives'
    BY <1>22, <1>i DEF Quit, Places, Lives
  <2>3. Closing'
    BY <1>22, <1>i DEF Quit, Places, Closing, Alive
  <2>4. Replies'
    BY <1>22, <1>i DEF Quit, Places, Counts, Replies
  <2>5. Accounts'
    <3>1. Due(c)' <= sent'[c]
      BY <1>22, <1>i, CountsOf DEF Quit, Places, Counts, Due, InInbox, InHand, InWrite
    <3> QED
      BY <1>22, <1>i, <3>1, OthersAccounts DEF Quit, Places, Counts
  <2>6. Counts' /\ Group'
    BY <1>22, <1>i DEF Quit, Counts, Group
  <2> QED
    BY <2>1, <2>2, <2>3, <2>4, <2>5, <2>6 DEF Inv
<1>23. CASE UNCHANGED vars
  BY <1>23, <1>i DEF vars, Inv, Places, Counts, Lives, Group, Closing, Replies, Accounts, Due, InInbox, InHand, InWrite
<1> QED
  BY <1>1, <1>2, <1>3, <1>4, <1>5, <1>6, <1>7, <1>8, <1>9, <1>10, <1>11, <1>12, <1>13, <1>14, <1>15, <1>16, <1>17, <1>18, <1>19, <1>20, <1>21, <1>22, <1>23
     DEF Next, Do, Main, AcceptLoop, Writer, Reader, Client

\* The variables have their types; wg is the number of connections, and nobody is
\* told that the App will quit who has not asked for it (add, onClosed, OnMessage).
THEOREM TypeCorrect == Spec => []TypeOK
<1>1. Inv => TypeOK
  <2> SUFFICES ASSUME Inv PROVE TypeOK
    OBVIOUS
  <2>1. \A c \in Clients : Len(inbox[c]) + unread[c] <= 2 * sent[c] /\ sent[c] <= Len(Script[c])
    <3> SUFFICES ASSUME NEW c \in Clients
                 PROVE  Len(inbox[c]) + unread[c] <= 2 * sent[c] /\ sent[c] <= Len(Script[c])
      OBVIOUS
    <3>1. /\ {InInbox(c), InHand(c), writeCh[c], InWrite(c), unread[c], sent[c]} \subseteq Nat
          /\ InInbox(c) + InHand(c) + writeCh[c] + InWrite(c) + unread[c] <= sent[c]
      BY CountsOf
    <3> QED
      BY <3>1 DEF Inv, Counts, InInbox
  <2> QED
    BY <2>1 DEF Inv, Places, Counts, Group, Replies, TypeOK
<1> QED
  BY <1>1, InitInv, NextInv, PTL DEF Spec

\* When Close has returned no goroutine of the shell is left and no socket is open,
\* whoever was connecting, writing or waiting for server.mu (shell.go, Close).
THEOREM CloseWaitsForAll == Spec => []CloseWaits
<1>1. Inv => CloseWaits
  BY ShellAssumption DEF Inv, Places, Lives, Group, Closing, CloseWaits
<1> QED
  BY <1>1, InitInv, NextInv, PTL DEF Spec
-----------------------------------------------------------------------------
(* The service *)

Observed == <<main, app, sock, client, asked, told>>

\* Steps that neither the clients nor the App can see.
LEMMA HiddenSteps ==
  ASSUME Inv, Alive,
         \/ AcceptFails \/ Add
         \/ \E c \in Clients :
              \/ SendMessage(c) \/ ReadReply(c) \/ ReceiveReply(c) \/ OnClosed(c)
              \/ ReadFails(c) \/ Lock(c) \/ Write(c)
  PROVE  UNCHANGED Service!vars
<1>1. UNCHANGED Observed
  BY DEF AcceptFails, Add, SendMessage, ReadReply, ReceiveReply, OnClosed, ReadFails, Lock, Write,
         serverVars, lockVars, connVars, clientVars, history, Observed
<1> QED
  BY <1>1 DEF Observed, Service!vars

\* App.Run's steps: only the return from Close is one of the service.
LEMMA MainServes == ASSUME Inv, Alive, Main PROVE [Service!Next]_(Service!vars)
<1> USE DEF serverVars, lockVars, connVars, clientVars, history, Alive
<1>1. CASE Open \/ CloseFails \/ ReceiveQuit
  BY <1>1 DEF Open, CloseFails, ReceiveQuit, Service!vars
<1>2. CASE CloseListener
  BY <1>2 DEF CloseListener, Inv, Places, Service!vars
<1>3. CASE WaitConns
  <2>1. app = "cancelled" /\ main = "wait" /\ main' = "returned"
        /\ UNCHANGED <<app, sock, client, asked, told>>
    BY <1>3 DEF WaitConns, Inv, Closing
  <2>2. conns = {}
    BY <1>3, FS_EmptySet DEF WaitConns, Inv, Group
  <2>3. \A c \in Clients : sock[c] # "open"
    BY <2>1, <2>2, ShellAssumption DEF Inv, Places, Lives, Group, Closing
  <2>4. Service!GoDown
    BY <2>1, <2>3 DEF Service!GoDown
  <2> QED
    BY <2>4 DEF Service!Next
<1> QED
  BY <1>1, <1>2, <1>3 DEF Main

\* One client's part in the service.
LEMMA ClientServes ==
  ASSUME Inv, Alive, NEW c \in Clients,
         \/ Dial(c) \/ Leave(c) \/ Accept(c) \/ ServerQuits(c) \/ ReceiveDone(c)
         \/ WriteReply(c) \/ ReadMessage(c) \/ Quit(c)
  PROVE  [Service!Next]_(Service!vars)
<1> USE DEF serverVars, lockVars, connVars, clientVars, history, Alive
<1>1. CASE Dial(c)
  BY <1>1 DEF Dial, Inv, Places, Service!vars
<1>2. CASE Leave(c)
  <2>1. Service!Leave(c)
    BY <1>2 DEF Leave, Inv, Places, Service!Leave
  <2> QED
    BY <2>1 DEF Service!Next
<1>3. CASE Accept(c)
  <2>1. Service!TakeOn(c)
    BY <1>3 DEF Accept, Inv, Places, Service!TakeOn
  <2> QED
    BY <2>1 DEF Service!Next
<1>4. CASE ServerQuits(c)
  <2>1. app = "cancelled"
    BY <1>4 DEF ServerQuits, Inv, Closing
  <2>2. Service!HangUp(c)
    BY <1>4, <2>1 DEF ServerQuits, Inv, Places, Service!HangUp
  <2> QED
    BY <2>2 DEF Service!Next
<1>5. CASE ReceiveDone(c)
  <2>1. CASE sock[c] = "open"
    <3>1. client[c] = "left"
      BY <1>5, <2>1 DEF ReceiveDone, Inv, Lives
    <3>2. Service!HangUp(c)
      BY <1>5, <2>1, <3>1 DEF ReceiveDone, Inv, Places, Service!HangUp
    <3> QED
      BY <3>2 DEF Service!Next
  <2>2. CASE sock[c] # "open"
    BY <1>5, <2>2 DEF ReceiveDone, Inv, Places, Service!vars
  <2> QED
    BY <2>1, <2>2
<1>6. CASE WriteReply(c)
  <2>1. CASE UNCHANGED told
    BY <1>6, <2>1 DEF WriteReply, Service!vars
  <2>2. CASE ~UNCHANGED told
    <3>1. c \in asked
      BY <1>6 DEF WriteReply, Inv, Replies
    <3>2. Service!Tell(c)
      BY <1>6, <2>2, <3>1 DEF WriteReply, Service!Tell
    <3> QED
      BY <3>2 DEF Service!Next
  <2> QED
    BY <2>1, <2>2
<1>7. CASE ReadMessage(c)
  <2>1. CASE UNCHANGED asked
    BY <1>7, <2>1 DEF ReadMessage, Service!vars
  <2>2. CASE ~UNCHANGED asked
    <3>1. Service!Ask(c)
      BY <1>7, <2>2 DEF ReadMessage, Service!Ask
    <3> QED
      BY <3>1 DEF Service!Next
  <2> QED
    BY <2>1, <2>2
<1>8. CASE Quit(c)
  <2>1. CASE app = "cancelled"
    BY <1>8, <2>1 DEF Quit, Service!vars
  <2>2. CASE app # "cancelled"
    <3>1. c \in asked
      BY <1>8 DEF Quit, Inv, Replies
    <3>2. Service!Stop
      BY <1>8, <2>2, <3>1 DEF Quit, Service!Stop
    <3> QED
      BY <3>2 DEF Service!Next
  <2> QED
    BY <2>1, <2>2
<1> QED
  BY <1>1, <1>2, <1>3, <1>4, <1>5, <1>6, <1>7, <1>8

\* The shell implements ShellService: the App stops only because a client asked it
\* to, nobody else is told so, a client is hung up on only when it left or the App
\* stops, and Close returns only when nobody is served (shell.go, app.go).
THEOREM ServesAsPromised == Spec => ImplementsService
<1>1. Init => Service!Init
  BY DEF Init, Service!Init
<1>2. Inv /\ [Next]_vars => [Service!Next]_(Service!vars)
  <2> SUFFICES ASSUME Inv, [Next]_vars PROVE [Service!Next]_(Service!vars)
    OBVIOUS
  <2>1. CASE UNCHANGED vars
    BY <2>1 DEF vars, serverVars, connVars, clientVars, history, Service!vars
  <2>2. CASE Alive /\ AcceptLoop
    BY <2>2, HiddenSteps, ClientServes DEF AcceptLoop
  <2>3. CASE Alive /\ Main
    BY <2>3, MainServes
  <2>4. ASSUME NEW c \in Clients, Alive, Writer(c) \/ Reader(c) \/ Client(c)
        PROVE  [Service!Next]_(Service!vars)
    BY <2>4, HiddenSteps, ClientServes DEF Writer, Reader, Client
  <2> QED
    BY <2>1, <2>2, <2>3, <2>4 DEF Next, Do
<1> QED
  BY <1>1, <1>2, InitInv, NextInv, PTL DEF Spec, ImplementsService, Service!Spec
-----------------------------------------------------------------------------
(* The stream *)

LEMMA Radixes == Radix \in Nat /\ Radix > 0 /\ BufSize \in Nat
BY PackAssumption DEF Pack!ShellPackAssumption

LEMMA TextsAre ==
  ASSUME NEW m \in Texts
  PROVE  m \in Seq(Nat) /\ \A j \in 1..Len(m) : m[j] # 0
<1>1. Radix \in Nat /\ m \in Seq(1..(Radix - 1))  BY PackAssumption DEF Pack!ShellPackAssumption
<1>2. \A j \in 1..Len(m) : m[j] \in 1..(Radix - 1)  BY <1>1, ElementOfSeq
<1>3. m \in [1..Len(m) -> Nat] /\ Len(m) \in Nat  BY <1>1, <1>2
<1> QED  BY <1>1, <1>2, <1>3

\* The two bytes tell every length up to their limit.
LEMMA SizeIsTold ==
  ASSUME NEW L \in Nat, L < Radix * Radix
  PROVE  Radix * ((L \div Radix) % Radix) + (L % Radix) = L
<1>0. Radix \in Nat /\ Radix > 0  BY Radixes
<1>1. L = Radix * (L \div Radix) + (L % Radix)  BY <1>0, SMT
<1>2. L \div Radix \in Nat /\ L % Radix \in Nat  BY <1>0, SMT
<1>3. L \div Radix < Radix
  <2> DEFINE q == L \div Radix
  <2>1. q \in Nat /\ L >= Radix * q  BY <1>1, <1>2, <1>0, SMT
  <2> HIDE DEF q
  <2>2. ASSUME q >= Radix  PROVE FALSE
    <3>1. PICK d \in Nat : q = Radix + d  BY <2>1, <2>2, <1>0
    <3>2. Radix * q = Radix * Radix + Radix * d  BY <3>1, <1>0, SMT
    <3>3. Radix * d >= 0  BY <1>0, <3>1, SMT
    <3> QED  BY <2>1, <3>2, <3>3, <1>0, SMT
  <2> QED  BY <2>1, <2>2, <1>0 DEF q
<1>4. (L \div Radix) % Radix = L \div Radix  BY <1>0, <1>2, <1>3, SMT
<1> QED  BY <1>1, <1>4

LEMMA ConcatIs ==
  ASSUME NEW S, NEW s \in Seq(S), NEW t \in Seq(S)
  PROVE  /\ s \o t \in Seq(S) /\ Len(s \o t) = Len(s) + Len(t)
         /\ \A i \in 1..Len(s) : (s \o t)[i] = s[i]
         /\ \A i \in 1..Len(t) : (s \o t)[Len(s) + i] = t[i]
<1>1. Len(s) \in Nat /\ Len(t) \in Nat  OBVIOUS
<1>2. /\ s \o t \in Seq(S) /\ Len(s \o t) = Len(s) + Len(t)
      /\ \A i \in 1..Len(s) + Len(t) : (s \o t)[i] = IF i <= Len(s) THEN s[i] ELSE t[i - Len(s)]
  BY ConcatProperties
<1>3. \A i \in 1..Len(s) : (s \o t)[i] = s[i]
  <2> TAKE i \in 1..Len(s)
  <2>1. i \in 1..Len(s) + Len(t) /\ i <= Len(s)  BY <1>1
  <2> QED  BY <1>2, <2>1
<1>4. \A i \in 1..Len(t) : (s \o t)[Len(s) + i] = t[i]
  <2> TAKE i \in 1..Len(t)
  <2>1. Len(s) + i \in 1..Len(s) + Len(t) /\ ~(Len(s) + i <= Len(s)) /\ (Len(s) + i) - Len(s) = i  BY <1>1
  <2> QED  BY <1>2, <2>1
<1> QED  BY <1>2, <1>3, <1>4

LEMMA PacketIs ==
  ASSUME NEW m \in Seq(Nat)
  PROVE  /\ Pack!packet(m) \in Seq(Nat) /\ Len(Pack!packet(m)) \in Nat /\ Len(Pack!packet(m)) >= 2
         /\ Pack!packet(m)[1] = (Len(m) \div Radix) % Radix
         /\ Pack!packet(m)[2] = Len(m) % Radix
         /\ Len(m) < Radix * Radix =>
              /\ Len(Pack!packet(m)) = Len(m) + 2
              /\ \A j \in 1..Len(m) : Pack!packet(m)[j + 2] = m[j]
<1> DEFINE p == (Len(m) \div Radix) % Radix  q == Len(m) % Radix
           r == IF Len(m) % (Radix * Radix) = 0 THEN << >> ELSE m
<1>1. p \in Nat /\ q \in Nat /\ Len(m) \in Nat  BY Radixes, SMT
<1>8. r \in Seq(Nat) /\ (Len(m) < Radix * Radix => r = m)
  <2>1. r \in Seq(Nat)  OBVIOUS
  <2>2. ASSUME Len(m) < Radix * Radix  PROVE r = m
    <3>1. PICK l \in Nat : l = Len(m)  BY <1>1
    <3>2. PICK x : x = Radix * Radix  OBVIOUS
    <3>3. x \in Nat /\ l < x  BY <2>2, <3>1, <3>2, Radixes, SMT
    <3>4. l % x = l  BY <3>3, SMT
    <3>5. CASE l = 0
      <4>1. m = << >>  BY <3>1, <3>5, EmptySeq
      <4> QED  BY <4>1
    <3>6. CASE l # 0
      <4>1. ~(Len(m) % (Radix * Radix) = 0)  BY <3>1, <3>2, <3>4, <3>6
      <4> QED  BY <4>1
    <3> QED  BY <3>5, <3>6
  <2> HIDE DEF r
  <2> QED  BY <2>1, <2>2
<1>3. Pack!packet(m) = <<p, q>> \o r  BY DEF Pack!packet
<1> HIDE DEF p, q, r
<1> DEFINE h == <<p, q>>
<1>2. h \in Seq(Nat) /\ Len(h) = 2 /\ h[1] = p /\ h[2] = q  BY <1>1
<1> HIDE DEF h
<1>4. /\ h \o r \in Seq(Nat) /\ Len(h \o r) = Len(h) + Len(r)
      /\ \A i \in 1..Len(h) : (h \o r)[i] = h[i]
      /\ \A i \in 1..Len(r) : (h \o r)[Len(h) + i] = r[i]
  <2>1. \A s, u \in Seq(Nat) : /\ s \o u \in Seq(Nat) /\ Len(s \o u) = Len(s) + Len(u)
                               /\ \A i \in 1..Len(s) : (s \o u)[i] = s[i]
                               /\ \A i \in 1..Len(u) : (s \o u)[Len(s) + i] = u[i]
    BY ConcatIs
  <2> QED  BY <1>2, <1>8, <2>1, Zenon
<1>9. Len(r) \in Nat  BY <1>8
<1>5. \A j \in 1..Len(r) : (h \o r)[j + 2] = r[j]
  <2> TAKE j \in 1..Len(r)
  <2>1. j + 2 = Len(h) + j  BY <1>9, <1>2
  <2> QED  BY <1>4, <2>1
<1>6. (h \o r)[1] = p /\ (h \o r)[2] = q
  <2>1. 1 \in 1..Len(h) /\ 2 \in 1..Len(h)  BY <1>2
  <2> QED  BY <1>2, <1>4, <2>1
<1>7. Len(h \o r) = Len(r) + 2 /\ Len(h \o r) \in Nat /\ Len(h \o r) >= 2  BY <1>2, <1>4, <1>9
<1>10. Pack!packet(m) = h \o r  BY <1>3 DEF h
<1>11. PICK k : k = Pack!packet(m)  OBVIOUS
<1>12. /\ k \in Seq(Nat) /\ Len(k) = Len(r) + 2 /\ Len(k) \in Nat /\ Len(k) >= 2 /\ k[1] = p /\ k[2] = q
       /\ \A j \in 1..Len(r) : k[j + 2] = r[j]
  BY <1>4, <1>5, <1>6, <1>7, <1>10, <1>11, Zenon
<1>13. Len(m) < Radix * Radix => Len(k) = Len(m) + 2 /\ \A j \in 1..Len(m) : k[j + 2] = m[j]
  BY <1>8, <1>12, Zenon
<1> QED  BY <1>11, <1>12, <1>13, Zenon DEF p, q

LEMMA TakeIs ==
  ASSUME NEW S, NEW s \in Seq(S), NEW n \in 0..Len(s)
  PROVE  /\ Pack!Take(s, n) \in Seq(S) /\ Len(Pack!Take(s, n)) = n
         /\ \A i \in 1..n : Pack!Take(s, n)[i] = s[i]
<1>1. \A i \in 1..n : s[i] \in S  BY ElementOfSeq
<1>2. n \in Nat /\ n \in Int /\ 1 \in Int  OBVIOUS
<1>3. /\ SubSeq(s, 1, n) \in Seq(S) /\ Len(SubSeq(s, 1, n)) = IF 1 <= n THEN n - 1 + 1 ELSE 0
      /\ \A i \in 1..n - 1 + 1 : SubSeq(s, 1, n)[i] = s[1 + i - 1]
  BY <1>1, <1>2, SubSeqProperties
<1> QED  BY <1>2, <1>3 DEF Pack!Take

LEMMA DropIs ==
  ASSUME NEW S, NEW s \in Seq(S), NEW n \in 0..Len(s)
  PROVE  /\ Pack!Drop(s, n) \in Seq(S) /\ Len(Pack!Drop(s, n)) = Len(s) - n
         /\ \A i \in 1..Len(s) - n : Pack!Drop(s, n)[i] = s[n + i]
<1>1. n \in Nat /\ n + 1 \in Int /\ Len(s) \in Nat /\ Len(s) \in Int /\ n <= Len(s)  OBVIOUS
<1>2. \A i \in n + 1..Len(s) : s[i] \in S
  <2>1. \A i \in n + 1..Len(s) : i \in 1..Len(s)  BY <1>1
  <2> QED  BY <2>1, ElementOfSeq
<1>3. /\ SubSeq(s, n + 1, Len(s)) \in Seq(S)
      /\ Len(SubSeq(s, n + 1, Len(s))) = IF n + 1 <= Len(s) THEN Len(s) - (n + 1) + 1 ELSE 0
      /\ \A i \in 1..Len(s) - (n + 1) + 1 : SubSeq(s, n + 1, Len(s))[i] = s[n + 1 + i - 1]
  BY <1>1, <1>2, SubSeqProperties
<1>4. Len(SubSeq(s, n + 1, Len(s))) = Len(s) - n  BY <1>1, <1>3
<1>5. \A i \in 1..Len(s) - n : SubSeq(s, n + 1, Len(s))[i] = s[n + i]
  <2> TAKE i \in 1..Len(s) - n
  <2>1. i \in 1..Len(s) - (n + 1) + 1 /\ n + 1 + i - 1 = n + i  BY <1>1
  <2> QED  BY <1>3, <2>1
<1> QED  BY <1>3, <1>4, <1>5 DEF Pack!Drop

\* What is dropped is dropped from the front.
LEMMA DropOfBoth ==
  ASSUME NEW s \in Seq(Nat), NEW t \in Seq(Nat), NEW n \in 0..Len(s)
  PROVE  Pack!Drop(s \o t, n) = Pack!Drop(s, n) \o t
<1> DEFINE d == Pack!Drop(s, n)  l == Pack!Drop(s \o t, n)
<1>0. Len(s) \in Nat /\ Len(t) \in Nat /\ n \in Nat /\ n <= Len(s)  OBVIOUS
<1>1. d \in Seq(Nat) /\ Len(d) = Len(s) - n /\ \A i \in 1..Len(s) - n : d[i] = s[n + i]  BY DropIs
<1>2. \A u, v \in Seq(Nat) : /\ u \o v \in Seq(Nat) /\ Len(u \o v) = Len(u) + Len(v)
                             /\ \A i \in 1..Len(u) : (u \o v)[i] = u[i]
                             /\ \A i \in 1..Len(v) : (u \o v)[Len(u) + i] = v[i]
  BY ConcatIs
<1>3. /\ s \o t \in Seq(Nat) /\ Len(s \o t) = Len(s) + Len(t)
      /\ \A i \in 1..Len(s) : (s \o t)[i] = s[i]
      /\ \A i \in 1..Len(t) : (s \o t)[Len(s) + i] = t[i]
  BY <1>2, Zenon
<1>4. n \in 0..Len(s \o t)  BY <1>0, <1>3
<1>5. l \in Seq(Nat) /\ Len(l) = Len(s \o t) - n /\ \A i \in 1..Len(s \o t) - n : l[i] = (s \o t)[n + i]
  BY <1>3, <1>4, DropIs
<1> HIDE DEF d, l
<1>6. /\ d \o t \in Seq(Nat) /\ Len(d \o t) = Len(d) + Len(t)
      /\ \A i \in 1..Len(d) : (d \o t)[i] = d[i]
      /\ \A i \in 1..Len(t) : (d \o t)[Len(d) + i] = t[i]
  BY <1>1, <1>2, Zenon
<1>7. Len(l) = Len(d \o t)  BY <1>0, <1>1, <1>3, <1>5, <1>6
<1>8. \A i \in 1..Len(l) : l[i] = (d \o t)[i]
  <2> TAKE i \in 1..Len(l)
  <2>0. i \in 1..Len(s) + Len(t) - n /\ l[i] = (s \o t)[n + i]  BY <1>0, <1>3, <1>5
  <2>1. CASE i <= Len(s) - n
    <3>1. i \in 1..Len(s) - n /\ i \in 1..Len(d) /\ n + i \in 1..Len(s)  BY <1>0, <1>1, <2>0, <2>1
    <3>2. (d \o t)[i] = d[i] /\ d[i] = s[n + i] /\ (s \o t)[n + i] = s[n + i]  BY <1>1, <1>3, <1>6, <3>1
    <3> QED  BY <2>0, <3>2
  <2>2. CASE i > Len(s) - n
    <3>1. PICK j \in 1..Len(t) : i = Len(s) - n + j
      <4>1. i - (Len(s) - n) \in 1..Len(t) /\ i = Len(s) - n + (i - (Len(s) - n))  BY <1>0, <2>0, <2>2
      <4> QED  BY <4>1
    <3>2. n + i = Len(s) + j /\ i = Len(d) + j  BY <1>0, <1>1, <3>1
    <3>3. (d \o t)[Len(d) + j] = t[j] /\ (s \o t)[Len(s) + j] = t[j]  BY <1>3, <1>6
    <3> QED  BY <2>0, <3>2, <3>3
  <2>3. i <= Len(s) - n \/ i > Len(s) - n  BY <1>0, <2>0
  <2> QED  BY <2>1, <2>2, <2>3
<1> QED  BY <1>5, <1>6, <1>7, <1>8, SeqEqual DEF d, l
-----------------------------------------------------------------------------
\* The bytes of a packet.
Size(m) == Len(Pack!packet(m))

\* e[k] is where the k-th message ends in the stream.
Marks(msgs, e) ==
  /\ e[0] = 0 /\ \A k \in 0..Len(msgs) : e[k] \in Nat
  /\ \A k \in 1..Len(msgs) : e[k] = e[k - 1] + Size(msgs[k])
  /\ \A j, k \in 0..Len(msgs) : j <= k => e[j] <= e[k]

\* What Write makes of the marks.
Marked(msgs, e, m) ==
  [k \in 0..Len(msgs) + 1 |-> IF k <= Len(msgs) THEN e[k] ELSE e[Len(msgs)] + Size(m)]

LEMMA WriteMarks ==
  ASSUME NEW msgs \in Seq(Seq(Nat)), NEW e, Marks(msgs, e), NEW m \in Seq(Nat)
  PROVE  /\ Marks(Append(msgs, m), Marked(msgs, e, m))
         /\ \A k \in 0..Len(msgs) : Marked(msgs, e, m)[k] = e[k]
         /\ Marked(msgs, e, m)[Len(msgs) + 1] = e[Len(msgs)] + Size(m)
<1> DEFINE a == Append(msgs, m)  f == Marked(msgs, e, m)  n == Len(msgs)
<1>1. a \in Seq(Seq(Nat)) /\ Len(a) = n + 1 /\ (\A i \in 1..n : a[i] = msgs[i]) /\ a[n + 1] = m
  BY AppendProperties
<1>2. n \in Nat /\ Size(m) \in Nat  BY PacketIs DEF Size
<1>3. (\A k \in 0..n : f[k] = e[k]) /\ f[n + 1] = e[n] + Size(m)  BY <1>2 DEF Marked
<1>4. /\ e[0] = 0 /\ (\A k \in 0..n : e[k] \in Nat)
      /\ \A k \in 1..n : e[k] = e[k - 1] + Size(msgs[k])
      /\ \A j, k \in 0..n : j <= k => e[j] <= e[k]
  BY DEF Marks
<1> HIDE DEF a, f, n
<1>5. n \in 0..n /\ 0 \in 0..n /\ e[n] \in Nat  BY <1>2, <1>4
<1>6. f[0] = 0  BY <1>3, <1>4, <1>5
<1>7. \A k \in 0..n + 1 : k \in 0..n \/ k = n + 1  BY <1>2
<1>8. \A k \in 0..n + 1 : f[k] \in Nat
  <2>1. \A k \in 0..n : f[k] \in Nat  BY <1>3, <1>4
  <2>2. f[n + 1] \in Nat  BY <1>2, <1>3, <1>5
  <2> QED  BY <2>1, <2>2, <1>7
<1>9. \A k \in 1..n + 1 : f[k] = f[k - 1] + Size(a[k])
  <2> TAKE k \in 1..n + 1
  <2>1. CASE k \in 1..n
    <3>1. k \in 0..n /\ k - 1 \in 0..n  BY <1>2, <2>1
    <3> QED  BY <1>1, <1>3, <1>4, <2>1, <3>1
  <2>2. CASE k = n + 1
    <3>1. k - 1 = n  BY <1>2, <2>2
    <3> QED  BY <1>1, <1>3, <1>5, <2>2, <3>1
  <2> QED  BY <2>1, <2>2, <1>2
<1>10. \A j, k \in 0..n + 1 : j <= k => f[j] <= f[k]
  <2> SUFFICES ASSUME NEW j \in 0..n + 1, NEW k \in 0..n + 1, j <= k  PROVE f[j] <= f[k]  OBVIOUS
  <2>1. CASE k \in 0..n
    <3>1. j \in 0..n  BY <1>2, <2>1
    <3> QED  BY <1>3, <1>4, <2>1, <3>1
  <2>2. CASE k = n + 1 /\ j = n + 1  BY <1>8, <2>2
  <2>3. CASE k = n + 1 /\ j \in 0..n
    <3>1. e[j] <= e[n] /\ e[j] \in Nat  BY <1>2, <1>4, <1>5, <2>3
    <3>2. f[j] = e[j] /\ f[k] = e[n] + Size(m)  BY <1>3, <2>3
    <3> QED  BY <1>2, <1>5, <3>1, <3>2
  <2> QED  BY <2>1, <2>2, <2>3, <1>7
<1>11. Marks(a, f)  BY <1>1, <1>6, <1>8, <1>9, <1>10 DEF Marks
<1> QED  BY <1>3, <1>11 DEF a, f, n
-----------------------------------------------------------------------------
\* bytes are what the packets have behind the at-th byte, as far as message g + 1 on.
Follows(msgs, e, at, bytes, g) ==
  /\ at + Len(bytes) = e[Len(msgs)]
  /\ \A k \in g + 1..Len(msgs) : \A j \in 1..Size(msgs[k]) :
       e[k - 1] + j > at => bytes[e[k - 1] + j - at] = Pack!packet(msgs[k])[j]

LEMMA DropFollows ==
  ASSUME NEW msgs \in Seq(Seq(Nat)), NEW e, Marks(msgs, e), NEW g \in 0..Len(msgs), NEW at \in Nat,
         NEW bytes \in Seq(Nat), Follows(msgs, e, at, bytes, g), NEW n \in 0..Len(bytes)
  PROVE  Follows(msgs, e, at + n, Pack!Drop(bytes, n), g)
<1> DEFINE d == Pack!Drop(bytes, n)
<1>1. Len(d) = Len(bytes) - n /\ \A i \in 1..Len(bytes) - n : d[i] = bytes[n + i]  BY DropIs
<1> HIDE DEF d
<1>2. n \in Nat /\ Len(bytes) \in Nat /\ Len(msgs) \in Nat  OBVIOUS
<1>3. at + n + Len(d) = e[Len(msgs)]  BY <1>1, <1>2 DEF Follows
<1>4. ASSUME NEW k \in g + 1..Len(msgs), NEW j \in 1..Size(msgs[k]), e[k - 1] + j > at + n
      PROVE  d[e[k - 1] + j - (at + n)] = Pack!packet(msgs[k])[j]
  <2>1. /\ k - 1 \in 0..Len(msgs) /\ k \in 1..Len(msgs) /\ k \in 0..Len(msgs) /\ k <= Len(msgs)
        /\ Len(msgs) \in 0..Len(msgs)
    BY <1>2
  <2>2. e[k] = e[k - 1] + Size(msgs[k]) /\ e[k - 1] \in Nat /\ e[k] <= e[Len(msgs)]
    BY <2>1 DEF Marks
  <2>3. msgs[k] \in Seq(Nat)  BY <2>1, ElementOfSeq
  <2>4. Size(msgs[k]) \in Nat  BY <2>3, PacketIs DEF Size
  <2>5. PICK x \in Nat : x = e[k - 1]  BY <2>2
  <2>6. PICK y \in Nat : y = Size(msgs[k])  BY <2>4
  <2>7. j \in Nat /\ j <= y /\ x + j > at + n  BY <1>4, <2>5, <2>6
  <2>8. at + Len(bytes) = e[Len(msgs)]  BY DEF Follows
  <2>9. x + y <= at + Len(bytes)  BY <2>2, <2>5, <2>6, <2>8
  <2>10. x + j - (at + n) \in 1..Len(bytes) - n /\ n + (x + j - (at + n)) = x + j - at /\ x + j > at
    BY <1>2, <2>7, <2>9
  <2>11. d[x + j - (at + n)] = bytes[x + j - at]  BY <1>1, <2>10
  <2>12. bytes[x + j - at] = Pack!packet(msgs[k])[j]  BY <2>5, <2>10 DEF Follows
  <2> QED  BY <2>5, <2>11, <2>12
<1> QED  BY <1>3, <1>4 DEF Follows, d

LEMMA WriteFollows ==
  ASSUME NEW msgs \in Seq(Seq(Nat)), NEW e, Marks(msgs, e), NEW g \in 0..Len(msgs), NEW at \in Nat,
         NEW bytes \in Seq(Nat), Follows(msgs, e, at, bytes, g), NEW m \in Seq(Nat)
  PROVE  Follows(Append(msgs, m), Marked(msgs, e, m), at, bytes \o Pack!packet(m), g)
<1> DEFINE a == Append(msgs, m)  f == Marked(msgs, e, m)  n == Len(msgs)
           p == Pack!packet(m)  b == bytes \o p
<1>1. /\ Len(a) = n + 1 /\ (\A i \in 1..n : a[i] = msgs[i]) /\ a[n + 1] = m
      /\ n \in Nat /\ Len(bytes) \in Nat
  BY AppendProperties
<1>2. (\A k \in 0..n : f[k] = e[k]) /\ f[n + 1] = e[n] + Size(m)  BY WriteMarks
<1>3. p \in Seq(Nat) /\ Len(p) = Size(m) /\ Size(m) \in Nat  BY PacketIs DEF Size
<1>4. /\ Len(b) = Len(bytes) + Len(p)
      /\ \A i \in 1..Len(bytes) : b[i] = bytes[i]
      /\ \A i \in 1..Len(p) : b[Len(bytes) + i] = p[i]
  <2>1. p \in Seq(Nat) /\ b = bytes \o p  BY <1>3
  <2> HIDE DEF p, b
  <2>2. \A s, t \in Seq(Nat) : /\ Len(s \o t) = Len(s) + Len(t)
                               /\ \A i \in 1..Len(s) : (s \o t)[i] = s[i]
                               /\ \A i \in 1..Len(t) : (s \o t)[Len(s) + i] = t[i]
    BY ConcatIs
  <2> QED  BY <2>1, <2>2, Zenon
<1>5. at + Len(bytes) = e[n]  BY DEF Follows
<1> HIDE DEF a, f, p, b
<1>6. at + Len(b) = f[Len(a)]  BY <1>1, <1>2, <1>3, <1>4, <1>5
<1>7. ASSUME NEW k \in g + 1..Len(a), NEW j \in 1..Size(a[k]), f[k - 1] + j > at
      PROVE  b[f[k - 1] + j - at] = Pack!packet(a[k])[j]
  <2>1. CASE k = n + 1
    <3>1. k - 1 = n /\ n \in 0..n  BY <1>1, <2>1
    <3>2. f[k - 1] = e[n]  BY <1>2, <3>1
    <3>3. j \in 1..Len(p) /\ a[k] = m  BY <1>1, <1>3, <2>1
    <3>4. f[k - 1] + j - at = Len(bytes) + j  BY <1>1, <1>5, <3>2, <3>3
    <3> QED  BY <1>4, <3>3, <3>4 DEF p
  <2>2. CASE k # n + 1
    <3>1. k \in g + 1..n /\ k \in 1..n /\ k \in 0..n /\ k - 1 \in 0..n /\ n \in 0..n /\ k <= n
      <4>1. g \in Nat /\ k \in g + 1..n + 1 /\ n \in Nat  BY <1>1, <1>7
      <4> QED  BY <2>2, <4>1
    <3>2. a[k] = msgs[k] /\ f[k - 1] = e[k - 1] /\ msgs[k] \in Seq(Nat)  BY <1>1, <1>2, <3>1, ElementOfSeq
    <3>3. e[k] = e[k - 1] + Size(msgs[k]) /\ e[k - 1] \in Nat /\ e[k] <= e[n]  BY <3>1 DEF Marks
    <3>4. PICK x \in Nat : x = e[k - 1]  BY <3>3
    <3>5. PICK y \in Nat : y = Size(msgs[k])  BY <3>2, PacketIs DEF Size
    <3>6. j \in 1..y /\ x + j > at /\ x + y <= at + Len(bytes)  BY <1>5, <1>7, <3>2, <3>3, <3>4, <3>5
    <3>7. x + j - at \in 1..Len(bytes)  BY <1>1, <3>6
    <3>8. b[x + j - at] = bytes[x + j - at]  BY <1>4, <3>7
    <3>9. bytes[x + j - at] = Pack!packet(msgs[k])[j]  BY <3>1, <3>4, <3>5, <3>6 DEF Follows
    <3> QED  BY <3>2, <3>4, <3>8, <3>9
  <2> QED  BY <2>1, <2>2
<1> QED  BY <1>6, <1>7 DEF Follows, a, f, p, b
-----------------------------------------------------------------------------
PackTypes ==
  /\ written \in Seq(Seq(Nat)) /\ got \in Seq(Seq(Nat))
  /\ wire \in Seq(Nat) /\ buf \in Seq(Nat) /\ size \in Nat \cup {-1}
  /\ \A k \in 1..Len(written) : \A j \in 1..Len(written[k]) : written[k][j] # 0

Header(p) == Radix * p[1] + p[2]

\* How much of the stream has been taken out of the buffer.
Seen(e, z, n) == e[n] + IF z = -1 THEN 0 ELSE 2

\* What was returned is what was written, and what is to be read follows.
InStep(e, w, rest, z, g) ==
  /\ Len(g) <= Len(w) /\ \A i \in 1..Len(g) : g[i] = w[i]
  /\ z # -1 => Len(g) < Len(w) /\ z = Header(Pack!packet(w[Len(g) + 1]))
  /\ Follows(w, e, Seen(e, z, Len(g)), rest, Len(g))

\* m was too long, or message is what a short read left of it.
Spoilt(message, m) == message # m /\ (Len(m) >= Radix * Radix \/ Pack!Torn(message, m))

\* All is right before a message that is spoilt.
OutOfStep(w, g) ==
  \E k \in 1..Len(w) : k <= Len(g) /\ Spoilt(g[k], w[k]) /\ \A i \in 1..k - 1 : g[i] = w[i]

PackInv ==
  /\ PackTypes
  /\ \E e : Marks(written, e) /\ (InStep(e, written, buf \o wire, size, got) \/ OutOfStep(written, got))

LEMMA InitPack == Pack!Init => PackInv
<1> SUFFICES ASSUME Pack!Init  PROVE PackInv  OBVIOUS
<1> DEFINE e == [k \in 0..0 |-> 0]
<1>1. /\ written = <<>> /\ got = <<>> /\ wire = <<>> /\ buf = <<>> /\ size = -1
  BY DEF Pack!Init
<1>2. PackTypes  BY <1>1 DEF PackTypes
<1>3. Marks(<<>>, e)  BY DEF Marks
<1>4. Len(<<>>) = 0 /\ e[0] = 0 /\ <<>> \o <<>> = <<>>
  <2>1. <<>> \in Seq(Nat)  OBVIOUS
  <2> QED  BY <2>1, ConcatEmptySeq
<1>5. Seen(e, -1, 0) = 0  BY DEF Seen
<1>6. Follows(<<>>, e, 0, <<>>, 0)  BY DEF Follows
<1> HIDE DEF e
<1>7. InStep(e, <<>>, <<>> \o <<>>, -1, <<>>)
  <2>2. Follows(<<>>, e, Seen(e, -1, Len(<<>>)), <<>> \o <<>>, Len(<<>>))  BY <1>4, <1>5, <1>6, Zenon
  <2>3. Len(<<>>) <= Len(<<>>) /\ \A i \in 1..Len(<<>>) : <<>>[i] = <<>>[i]  BY <1>4
  <2> QED  BY <2>2, <2>3 DEF InStep
<1> QED  BY <1>1, <1>2, <1>3, <1>7, Zenon DEF PackInv

\* What is out of step stays so.
LEMMA StaysOut ==
  ASSUME NEW w \in Seq(Seq(Nat)), NEW g \in Seq(Seq(Nat)), OutOfStep(w, g), NEW m \in Seq(Nat)
  PROVE  OutOfStep(w, Append(g, m))
<1> DEFINE a == Append(g, m)
<1>1. Len(a) = Len(g) + 1 /\ \A i \in 1..Len(g) : a[i] = g[i]  BY AppendProperties
<1> HIDE DEF a
<1>2. PICK k \in 1..Len(w) : k <= Len(g) /\ Spoilt(g[k], w[k]) /\ \A i \in 1..k - 1 : g[i] = w[i]
  BY DEF OutOfStep
<1>3. Len(g) \in Nat /\ Len(w) \in Nat  OBVIOUS
<1>4. k \in 1..Len(g) /\ k <= Len(a) /\ \A i \in 1..k - 1 : i \in 1..Len(g)  BY <1>1, <1>2, <1>3
<1>5. Spoilt(a[k], w[k]) /\ \A i \in 1..k - 1 : a[i] = w[i]  BY <1>1, <1>2, <1>4
<1>6. OutOfStep(w, a)  BY <1>4, <1>5, Zenon DEF OutOfStep
<1> QED  BY <1>6 DEF a

\* A message that is spoilt leads out of step.
LEMMA GoesOut ==
  ASSUME NEW w \in Seq(Seq(Nat)), NEW g \in Seq(Seq(Nat)), NEW m \in Seq(Nat),
         Len(g) < Len(w), \A i \in 1..Len(g) : g[i] = w[i], Spoilt(m, w[Len(g) + 1])
  PROVE  OutOfStep(w, Append(g, m))
<1> DEFINE a == Append(g, m)  k == Len(g) + 1
<1>1. Len(a) = k /\ (\A i \in 1..Len(g) : a[i] = g[i]) /\ a[k] = m  BY AppendProperties
<1>2. Len(g) \in Nat /\ Len(w) \in Nat  OBVIOUS
<1>3. k \in 1..Len(w) /\ k <= Len(a) /\ k - 1 = Len(g)  BY <1>1, <1>2
<1> HIDE DEF a
<1>4. \A i \in 1..k - 1 : a[i] = w[i]  BY <1>1, <1>3
<1>5. Spoilt(a[k], w[k])  BY <1>1
<1> HIDE DEF k
<1>6. OutOfStep(w, a)  BY <1>3, <1>4, <1>5, Zenon DEF OutOfStep
<1> QED  BY <1>6 DEF a

LEMMA WritePack ==
  ASSUME PackInv, NEW m \in Texts, Pack!Write(m)
  PROVE  PackInv'
<1> DEFINE n == Len(written)  w == Append(written, m)  p == Pack!packet(m)
<1>1. m \in Seq(Nat) /\ written \in Seq(Seq(Nat)) /\ got \in Seq(Seq(Nat)) /\ wire \in Seq(Nat) /\ buf \in Seq(Nat)
  BY TextsAre DEF PackInv, PackTypes
<1>2. /\ written' = w /\ wire' = wire \o p /\ buf' = buf /\ size' = size /\ got' = got
  BY DEF Pack!Write
<1>3. w \in Seq(Seq(Nat)) /\ Len(w) = n + 1 /\ (\A i \in 1..n : w[i] = written[i]) /\ w[n + 1] = m
  BY <1>1, AppendProperties
<1>4. p \in Seq(Nat)  BY <1>1, PacketIs
<1>9. n \in Nat /\ Len(got) \in Nat  BY <1>1
<1> HIDE DEF w, p
<1>5. wire \o p \in Seq(Nat)  BY <1>1, <1>4, ConcatIs
<1>12. \A k \in 1..Len(w) : \A j \in 1..Len(w[k]) : w[k][j] # 0
  <2>1. \A k \in 1..Len(w) : k \in 1..n \/ k = n + 1  BY <1>3, <1>9
  <2>2. \A k \in 1..n : \A j \in 1..Len(w[k]) : w[k][j] # 0  BY <1>3 DEF PackInv, PackTypes
  <2>3. \A j \in 1..Len(w[n + 1]) : w[n + 1][j] # 0  BY <1>3, TextsAre
  <2> QED  BY <2>1, <2>2, <2>3
<1>6. PackTypes'  BY <1>1, <1>2, <1>3, <1>5, <1>12 DEF PackInv, PackTypes
<1>7. PICK e : Marks(written, e) /\ (InStep(e, written, buf \o wire, size, got) \/ OutOfStep(written, got))
  BY DEF PackInv
<1> DEFINE f == Marked(written, e, m)
<1>8. Marks(w, f) /\ \A k \in 0..n : f[k] = e[k]  BY <1>1, <1>7, WriteMarks DEF w
<1> HIDE DEF f
<1>10. CASE InStep(e, written, buf \o wire, size, got)
  <2> DEFINE at == Seen(e, size, Len(got))
  <2>1. Len(got) <= n /\ \A i \in 1..Len(got) : got[i] = written[i]  BY <1>10 DEF InStep
  <2>2. Len(got) \in 0..n /\ \A i \in 1..Len(got) : i \in 1..n  BY <1>9, <2>1
  <2>3. e[Len(got)] \in Nat  BY <1>7, <2>2 DEF Marks
  <2>4. at \in Nat  BY <2>3 DEF Seen
  <2>5. Seen(f, size, Len(got)) = at  BY <1>8, <2>2 DEF Seen
  <2>6. Follows(written, e, at, buf \o wire, Len(got))  BY <1>10 DEF InStep
  <2>7. buf \o wire \in Seq(Nat)  BY <1>1, ConcatIs
  <2>8. Follows(w, f, at, (buf \o wire) \o p, Len(got))
    <3> HIDE DEF at
    <3> QED  BY <1>1, <1>7, <2>2, <2>4, <2>6, <2>7, WriteFollows DEF w, f, p
  <2>9. (buf \o wire) \o p = buf \o (wire \o p)
    <3>1. \A s, t, u \in Seq(Nat) : (s \o t) \o u = s \o (t \o u)  BY ConcatAssociative
    <3> QED  BY <1>1, <1>4, <3>1, Zenon
  <2>10. Follows(w, f, Seen(f, size, Len(got)), buf \o (wire \o p), Len(got))  BY <2>5, <2>8, <2>9, Zenon
  <2>11. Len(got) <= Len(w) /\ \A i \in 1..Len(got) : got[i] = w[i]  BY <1>3, <1>9, <2>1, <2>2
  <2>12. size # -1 => Len(got) < Len(w) /\ size = Header(Pack!packet(w[Len(got) + 1]))
    <3> SUFFICES ASSUME size # -1  PROVE Len(got) < Len(w) /\ size = Header(Pack!packet(w[Len(got) + 1]))
      OBVIOUS
    <3>1. Len(got) < n /\ size = Header(Pack!packet(written[Len(got) + 1]))  BY <1>10 DEF InStep
    <3>2. Len(got) + 1 \in 1..n  BY <1>9, <3>1
    <3>3. w[Len(got) + 1] = written[Len(got) + 1]  BY <1>3, <3>2
    <3> QED  BY <1>3, <1>9, <3>1, <3>3
  <2>14. InStep(f, w, buf \o (wire \o p), size, got)  BY <2>10, <2>11, <2>12, Zenon DEF InStep
  <2> QED  BY <1>2, <1>6, <1>8, <2>14, Zenon DEF PackInv
<1>11. CASE OutOfStep(written, got)
  <2>1. PICK k \in 1..n : k <= Len(got) /\ Spoilt(got[k], written[k]) /\ \A i \in 1..k - 1 : got[i] = written[i]
    BY <1>11 DEF OutOfStep
  <2>2. k \in 1..Len(w) /\ \A i \in 1..k - 1 : i \in 1..n  BY <1>3, <1>9
  <2>3. Spoilt(got[k], w[k]) /\ \A i \in 1..k - 1 : got[i] = w[i]  BY <1>3, <2>1, <2>2
  <2>4. OutOfStep(w, got)  BY <2>1, <2>2, <2>3, Zenon DEF OutOfStep
  <2> QED  BY <1>2, <1>6, <1>8, <2>4, Zenon DEF PackInv
<1> QED  BY <1>7, <1>10, <1>11
-----------------------------------------------------------------------------
\* One read takes a part off the wire.
LEMMA ReadTakes ==
  ASSUME PackTypes, NEW n \in Nat, NEW k \in Pack!Part(n)
  PROVE  /\ k \in 1..n /\ k \in 0..Len(wire)
         /\ Pack!Take(wire, k) \in Seq(Nat) /\ Len(Pack!Take(wire, k)) = k
         /\ \A i \in 1..k : Pack!Take(wire, k)[i] = wire[i]
         /\ Pack!Drop(wire, k) \in Seq(Nat)
         /\ Pack!Take(wire, k) \o Pack!Drop(wire, k) = wire
<1> DEFINE t == Pack!Take(wire, k)  d == Pack!Drop(wire, k)
<1>0. wire \in Seq(Nat) /\ Len(wire) \in Nat  BY DEF PackTypes
<1>1. k \in 1..n /\ k \in 0..Len(wire)  BY <1>0 DEF Pack!Part, Pack!Smaller
<1>3. t \in Seq(Nat) /\ Len(t) = k /\ \A i \in 1..k : t[i] = wire[i]  BY <1>0, <1>1, TakeIs
<1>5. d \in Seq(Nat) /\ Len(d) = Len(wire) - k /\ \A i \in 1..Len(wire) - k : d[i] = wire[k + i]
  BY <1>0, <1>1, DropIs
<1> HIDE DEF t, d
<1>6. t \o d = wire
  <2>1. \A s, u \in Seq(Nat) : /\ s \o u \in Seq(Nat) /\ Len(s \o u) = Len(s) + Len(u)
                               /\ \A i \in 1..Len(s) : (s \o u)[i] = s[i]
                               /\ \A i \in 1..Len(u) : (s \o u)[Len(s) + i] = u[i]
    BY ConcatIs
  <2>2. /\ t \o d \in Seq(Nat) /\ Len(t \o d) = Len(t) + Len(d)
        /\ \A i \in 1..Len(t) : (t \o d)[i] = t[i]
        /\ \A i \in 1..Len(d) : (t \o d)[Len(t) + i] = d[i]
    BY <1>3, <1>5, <2>1, Zenon
  <2>3. Len(t \o d) = Len(wire)  BY <1>0, <1>1, <1>3, <1>5, <2>2
  <2>4. \A i \in 1..Len(t \o d) : (t \o d)[i] = wire[i]
    <3> TAKE i \in 1..Len(t \o d)
    <3>1. i \in 1..Len(wire)  BY <2>3
    <3>2. CASE i <= k
      <4>1. i \in 1..k  BY <1>1, <3>1, <3>2
      <4> QED  BY <1>3, <2>2, <4>1
    <3>3. CASE i > k
      <4>1. PICK j \in 1..Len(wire) - k : i = k + j
        <5>1. i - k \in 1..Len(wire) - k /\ i = k + (i - k)  BY <1>0, <1>1, <3>1, <3>3
        <5> QED  BY <5>1
      <4>2. d[j] = wire[i] /\ (t \o d)[Len(t) + j] = d[j] /\ Len(t) + j = i  BY <1>3, <1>5, <2>2, <4>1
      <4> QED  BY <4>2
    <3> QED  BY <1>1, <3>1, <3>2, <3>3
  <2> QED  BY <1>0, <2>2, <2>3, <2>4, SeqEqual
<1> QED  BY <1>1, <1>3, <1>5, <1>6 DEF t, d

\* Filling the buffer moves bytes, and leaves what is to be read as it is.
LEMMA FillPack ==
  ASSUME PackInv, Pack!Fill
  PROVE  PackInv'
<1>0. PackTypes /\ BufSize \in Nat  BY Radixes DEF PackInv
<1>1. PICK k \in Pack!Part(BufSize) : buf' = buf \o Pack!Take(wire, k) /\ wire' = Pack!Drop(wire, k)
  BY DEF Pack!Fill
<1>2. written' = written /\ size' = size /\ got' = got  BY DEF Pack!Fill
<1> DEFINE t == Pack!Take(wire, k)  d == Pack!Drop(wire, k)
<1>3. t \in Seq(Nat) /\ d \in Seq(Nat) /\ t \o d = wire  BY <1>0, ReadTakes
<1>4. buf' = buf \o t /\ wire' = d  BY <1>1
<1> HIDE DEF t, d
<1>5. buf \in Seq(Nat)  BY <1>0 DEF PackTypes
<1>6. buf \o t \in Seq(Nat)  BY <1>3, <1>5, ConcatIs
<1>7. PackTypes'  BY <1>0, <1>2, <1>3, <1>4, <1>6 DEF PackTypes
<1>8. (buf \o t) \o d = buf \o wire
  <2>1. \A s, u, v \in Seq(Nat) : (s \o u) \o v = s \o (u \o v)  BY ConcatAssociative
  <2> QED  BY <1>3, <1>5, <2>1, Zenon
<1>9. PICK e : Marks(written, e) /\ (InStep(e, written, buf \o wire, size, got) \/ OutOfStep(written, got))
  BY DEF PackInv
<1>10. buf' \o wire' = buf \o wire  BY <1>4, <1>8, Zenon
<1> QED  BY <1>2, <1>7, <1>9, <1>10, Zenon DEF PackInv

LEMMA ReadSizePack ==
  ASSUME PackInv, Pack!ReadSize
  PROVE  PackInv'
<1> DEFINE d == Pack!Drop(buf, 2)  z == Radix * buf[1] + buf[2]
<1>0. PackTypes  BY DEF PackInv
<1>1. /\ size = -1 /\ Len(buf) >= 2 /\ size' = z /\ buf' = d
      /\ written' = written /\ wire' = wire /\ got' = got
  BY DEF Pack!ReadSize
<1>2. written \in Seq(Seq(Nat)) /\ got \in Seq(Seq(Nat)) /\ wire \in Seq(Nat) /\ buf \in Seq(Nat)
  BY <1>0 DEF PackTypes
<1>3. Len(buf) \in Nat /\ Len(wire) \in Nat /\ Len(got) \in Nat /\ Len(written) \in Nat  BY <1>2
<1>4. 2 \in 0..Len(buf) /\ 1 \in 1..Len(buf) /\ 2 \in 1..Len(buf)  BY <1>1, <1>3
<1>5. d \in Seq(Nat) /\ Len(d) = Len(buf) - 2  BY <1>2, <1>4, DropIs
<1>6. z \in Nat
  <2>1. buf[1] \in Nat /\ buf[2] \in Nat  BY <1>2, <1>4, ElementOfSeq
  <2>2. \A m \in Nat : Radix * m \in Nat  BY Radixes, SMT
  <2> QED  BY <2>1, <2>2
<1>7. PackTypes'
  <2> HIDE DEF d, z
  <2> QED  BY <1>0, <1>1, <1>5, <1>6 DEF PackTypes
<1>8. PICK e : Marks(written, e) /\ (InStep(e, written, buf \o wire, size, got) \/ OutOfStep(written, got))
  BY DEF PackInv
<1>9. CASE OutOfStep(written, got)  BY <1>1, <1>7, <1>8, <1>9, Zenon DEF PackInv
<1>10. CASE InStep(e, written, buf \o wire, size, got)
  <2> DEFINE g == Len(got)  n == Len(written)  b == buf \o wire
  <2>1. /\ g <= n /\ \A i \in 1..g : got[i] = written[i]
        /\ Follows(written, e, Seen(e, -1, g), b, g)
    BY <1>1, <1>10 DEF InStep
  <2>2. Seen(e, -1, g) = e[g] + 0 /\ Seen(e, z, g) = e[g] + 2
    <3>1. z # -1  BY <1>6
    <3> HIDE DEF z
    <3> QED  BY <3>1 DEF Seen
  <2>3. /\ b \in Seq(Nat) /\ Len(b) = Len(buf) + Len(wire)
        /\ \A i \in 1..Len(buf) : b[i] = buf[i]
    BY <1>2, ConcatIs
  <2> HIDE DEF b
  <2>4. g \in 0..n /\ g \in Nat /\ n \in Nat  BY <1>3, <2>1
  <2>5. \A k \in 0..n : e[k] \in Nat  BY <1>8 DEF Marks
  <2>6. PICK x \in Nat : x = e[g]  BY <2>4, <2>5
  <2>7. x + Len(b) = e[n]  BY <2>1, <2>2, <2>6 DEF Follows
  <2>8. g < n
    <3>1. ASSUME g = n  PROVE FALSE  BY <1>1, <1>3, <2>3, <2>6, <2>7, <3>1
    <3> QED  BY <2>1, <2>4, <3>1
  <2>9. g + 1 \in 1..n /\ g + 1 \in g + 1..n /\ (g + 1) - 1 = g  BY <2>4, <2>8
  <2> DEFINE m == written[g + 1]
  <2>10. m \in Seq(Nat)  BY <1>2, <2>9, ElementOfSeq
  <2>11. Size(m) \in Nat /\ Size(m) >= 2  BY <2>10, PacketIs DEF Size
  <2>12. 1 \in 1..Size(m) /\ 2 \in 1..Size(m)  BY <2>11
  <2>13. b[1] = Pack!packet(m)[1] /\ b[2] = Pack!packet(m)[2]
    <3>1. Seen(e, -1, g) = x  BY <2>2, <2>6
    <3>2. \A j \in 1..Size(m) : x + j > x => b[x + j - x] = Pack!packet(m)[j]
      <4>1. \A k \in g + 1..n : \A j \in 1..Size(written[k]) :
              e[k - 1] + j > x => b[e[k - 1] + j - x] = Pack!packet(written[k])[j]
        BY <2>1, <3>1 DEF Follows
      <4> QED  BY <2>6, <2>9, <4>1
    <3> HIDE DEF m
    <3>3. x + 1 > x /\ x + 2 > x /\ x + 1 - x = 1 /\ x + 2 - x = 2  BY <2>6
    <3> QED  BY <2>12, <3>2, <3>3
  <2>14. z = Header(Pack!packet(m))
    <3>1. b[1] = buf[1] /\ b[2] = buf[2]  BY <1>4, <2>3
    <3> HIDE DEF m
    <3> QED  BY <2>13, <3>1, Zenon DEF Header
  <2>15. Follows(written, e, Seen(e, z, g), d \o wire, g)
    <3>1. Follows(written, e, x, b, g)  BY <2>1, <2>2, <2>6
    <3>2. 2 \in 0..Len(b)  BY <1>1, <1>3, <2>3
    <3>3. Follows(written, e, x + 2, Pack!Drop(b, 2), g)
      BY <1>2, <1>8, <2>3, <2>4, <2>6, <3>1, <3>2, DropFollows
    <3>4. Pack!Drop(b, 2) = d \o wire  BY <1>2, <1>4, DropOfBoth DEF b
    <3>5. Seen(e, z, g) = x + 2  BY <2>2, <2>6
    <3> QED  BY <3>3, <3>4, <3>5, Zenon
  <2>17. InStep(e, written, d \o wire, z, got)
    <3> HIDE DEF z, d
    <3> QED  BY <2>1, <2>8, <2>14, <2>15, Zenon DEF InStep, m
  <2> QED  BY <1>1, <1>7, <1>8, <2>17, Zenon DEF PackInv
<1> QED  BY <1>8, <1>9, <1>10
-----------------------------------------------------------------------------
\* What Read did not fill of the buffer is 0.
LEMMA FilledIs ==
  ASSUME NEW s \in Seq(Nat), size \in Nat, Len(s) <= size
  PROVE  /\ Pack!Filled(s) \in Seq(Nat) /\ Len(Pack!Filled(s)) = size
         /\ \A j \in 1..size : Pack!Filled(s)[j] = IF j <= Len(s) THEN s[j] ELSE 0
<1> DEFINE zeros == [i \in 1..(size - Len(s)) |-> 0]
<1>1. size - Len(s) \in Nat /\ Len(s) \in Nat  OBVIOUS
<1>2. /\ zeros \in Seq(Nat) /\ Len(zeros) = size - Len(s) /\ \A i \in 1..Len(zeros) : zeros[i] = 0
      /\ Pack!Filled(s) = s \o zeros
  BY <1>1 DEF Pack!Filled
<1> HIDE DEF zeros
<1>3. /\ s \o zeros \in Seq(Nat) /\ Len(s \o zeros) = Len(s) + Len(zeros)
      /\ \A i \in 1..Len(s) : (s \o zeros)[i] = s[i]
      /\ \A i \in 1..Len(zeros) : (s \o zeros)[Len(s) + i] = zeros[i]
  BY <1>2, ConcatIs
<1>4. PICK f : f = s \o zeros  OBVIOUS
<1>5. /\ f \in Seq(Nat) /\ Len(f) = size
      /\ \A i \in 1..Len(s) : f[i] = s[i]
      /\ \A i \in 1..Len(zeros) : f[Len(s) + i] = 0
  BY <1>1, <1>2, <1>3, <1>4
<1>6. \A j \in 1..size : f[j] = IF j <= Len(s) THEN s[j] ELSE 0
  <2> TAKE j \in 1..size
  <2>1. CASE j <= Len(s)
    <3>1. j \in 1..Len(s)  BY <1>1, <2>1
    <3> QED  BY <1>5, <2>1, <3>1
  <2>2. CASE ~(j <= Len(s))
    <3>1. j - Len(s) \in 1..Len(zeros) /\ Len(s) + (j - Len(s)) = j  BY <1>1, <1>2, <2>2
    <3> QED  BY <1>5, <2>2, <3>1
  <2> QED  BY <2>1, <2>2
<1> QED  BY <1>2, <1>4, <1>5, <1>6

\* The size that was read is the length of the message, unless that is too long.
LEMMA SizeIsRead ==
  ASSUME NEW m \in Seq(Nat)
  PROVE  /\ Len(m) < Radix * Radix => Header(Pack!packet(m)) = Len(m)
         /\ Header(Pack!packet(m)) < Radix * Radix
<1>1. Pack!packet(m)[1] = (Len(m) \div Radix) % Radix /\ Pack!packet(m)[2] = Len(m) % Radix /\ Len(m) \in Nat
  BY PacketIs
<1>2. ASSUME Len(m) < Radix * Radix  PROVE Header(Pack!packet(m)) = Len(m)
  <2>1. Radix * ((Len(m) \div Radix) % Radix) + (Len(m) % Radix) = Len(m)  BY <1>1, <1>2, SizeIsTold
  <2> QED  BY <1>1, <2>1, Zenon DEF Header
<1>3. Header(Pack!packet(m)) < Radix * Radix
  <2>1. PICK p : p = (Len(m) \div Radix) % Radix  OBVIOUS
  <2>2. PICK q : q = Len(m) % Radix  OBVIOUS
  <2>3. PICK r \in Nat : r = Radix  BY Radixes
  <2>4. p \in 0..r - 1 /\ q \in 0..r - 1 /\ r > 0
    <3>1. Len(m) \div Radix \in Nat  BY <1>1, Radixes, SMT
    <3> QED  BY <1>1, <2>1, <2>2, <2>3, <3>1, Radixes, SMT
  <2>5. r * p + q < r * r
    <3>1. PICK d \in Nat : r = p + 1 + d
      <4>1. r - p - 1 \in Nat /\ r = p + 1 + (r - p - 1)  BY <2>4
      <4> QED  BY <4>1
    <3>2. r * r = r * p + r + r * d  BY <2>4, <3>1, SMT
    <3>3. r * d >= 0 /\ r * p \in Nat /\ r * d \in Nat  BY <2>4, SMT
    <3> QED  BY <2>4, <3>2, <3>3
  <2>6. Header(Pack!packet(m)) = r * p + q  BY <1>1, <2>1, <2>2, <2>3, Zenon DEF Header
  <2> QED  BY <2>3, <2>5, <2>6
<1> QED  BY <1>2, <1>3

\* n of the bytes to come are read for a message of size bytes: that is the message
\* written if it is not too long and all of it was read, and else it is spoilt.
LEMMA BodyRead ==
  ASSUME PackTypes, NEW e, Marks(written, e), NEW b \in Seq(Nat), InStep(e, written, b, size, got),
         size \in Nat, NEW n \in 0..Len(b), n <= size, n >= 1 \/ size = 0,
         NEW t \in Seq(Nat), Len(t) = n, \A i \in 1..n : t[i] = b[i]
  PROVE  \/ InStep(e, written, Pack!Drop(b, n), -1, Append(got, Pack!Filled(t)))
         \/ OutOfStep(written, Append(got, Pack!Filled(t)))
<1> DEFINE m == Pack!Filled(t)  g == Append(got, m)  k == Len(got) + 1  w == written[k]
           at == Seen(e, size, Len(got))  d == Pack!Drop(b, n)
<1>1. /\ m \in Seq(Nat) /\ Len(m) = size
      /\ \A j \in 1..size : m[j] = IF j <= n THEN t[j] ELSE 0
  BY FilledIs
<1> HIDE DEF m
<1>2. written \in Seq(Seq(Nat)) /\ got \in Seq(Seq(Nat))  BY DEF PackTypes
<1>3. Len(got) \in Nat /\ Len(written) \in Nat /\ n \in Nat  BY <1>2
<1>4. size # -1  OBVIOUS
<1>5. /\ Len(got) < Len(written) /\ \A i \in 1..Len(got) : got[i] = written[i]
      /\ size = Header(Pack!packet(w))
      /\ Follows(written, e, at, b, Len(got))
  BY <1>4 DEF InStep
<1>6. /\ k \in 1..Len(written) /\ k - 1 = Len(got) /\ k \in 0..Len(written) /\ k - 1 \in 0..Len(written)
      /\ k \in Len(got) + 1..Len(written) /\ w \in Seq(Nat)
  BY <1>2, <1>3, <1>5, ElementOfSeq
<1>7. e[k] = e[k - 1] + Size(w) /\ e[k - 1] \in Nat  BY <1>6 DEF Marks
<1>8. at = e[k - 1] + 2  BY <1>4, <1>6 DEF Seen
<1>9. PICK x \in Nat : x = e[k - 1]  BY <1>7
<1>10. Len(w) \in Nat /\ \A j \in 1..Len(w) : w[j] # 0  BY <1>6 DEF PackTypes
<1>11. g \in Seq(Seq(Nat)) /\ Len(g) = k /\ (\A i \in 1..Len(got) : g[i] = got[i]) /\ g[k] = m
  BY <1>1, <1>2, AppendProperties
<1> HIDE DEF g, w, at, d
<1>12. ASSUME Spoilt(m, w)  PROVE OutOfStep(written, g)
  BY <1>1, <1>2, <1>5, <1>12, GoesOut DEF g, w
<1>13. CASE Len(w) >= Radix * Radix
  <2>1. m # w
    <3>1. size < Radix * Radix  BY <1>5, <1>6, SizeIsRead
    <3>2. Radix * Radix \in Nat  BY Radixes, SMT
    <3>3. PICK r \in Nat : r = Radix * Radix  BY <3>2
    <3> QED  BY <1>1, <1>10, <1>13, <3>1, <3>3
  <2>2. Spoilt(m, w)  BY <1>13, <2>1 DEF Spoilt
  <2> QED  BY <1>12, <2>2 DEF g, m
<1>14. CASE ~(Len(w) >= Radix * Radix)
  <2>0. Len(w) < Radix * Radix
    <3>1. Radix * Radix \in Nat  BY Radixes, SMT
    <3> QED  BY <1>10, <1>14, <3>1
  <2>1. size = Len(w)  BY <1>5, <1>6, <2>0, SizeIsRead, Zenon
  <2>2. /\ Size(w) = Len(w) + 2
        /\ \A j \in 1..Len(w) : Pack!packet(w)[j + 2] = w[j]
    BY <1>6, <2>0, PacketIs, Zenon DEF Size
  <2>3. \A i \in 1..n : b[i] = w[i]
    <3> TAKE i \in 1..n
    <3>1. i \in 1..Len(w) /\ i + 2 \in 1..Size(w)  BY <1>3, <1>10, <2>1, <2>2
    <3>2. x + (i + 2) > at /\ x + (i + 2) - at = i
      <4>1. at = x + 2 /\ i \in Nat /\ i >= 1  BY <1>8, <1>9, <1>3
      <4> QED  BY <4>1
    <3>3. \A l \in Len(got) + 1..Len(written) : \A j \in 1..Size(written[l]) :
            e[l - 1] + j > at => b[e[l - 1] + j - at] = Pack!packet(written[l])[j]
      BY <1>5 DEF Follows
    <3>4. \A j \in 1..Size(w) : x + j > at => b[x + j - at] = Pack!packet(w)[j]
      <4> HIDE DEF k
      <4> QED  BY <1>6, <1>9, <3>3, Zenon DEF w
    <3>5. b[i] = Pack!packet(w)[i + 2]  BY <3>1, <3>2, <3>4
    <3> QED  BY <2>2, <3>1, <3>5
  <2>4. \A j \in 1..Len(w) : m[j] = IF j <= n THEN w[j] ELSE 0
    <3> TAKE j \in 1..Len(w)
    <3>1. CASE j <= n
      <4>1. j \in 1..n  BY <1>3, <3>1
      <4> QED  BY <1>1, <2>1, <2>3, <3>1, <4>1
    <3>2. CASE ~(j <= n)  BY <1>1, <2>1, <3>2
    <3> QED  BY <3>1, <3>2
  <2>5. CASE n < Len(w)
    <3>1. n \in 1..(Len(w) - 1) /\ n + 1 \in 1..Len(w)  BY <1>3, <1>10, <2>1, <2>5
    <3>2. m # w
      <4>1. m[n + 1] = 0
        <5>1. ~(n + 1 <= n)  BY <1>3
        <5> QED  BY <2>4, <3>1, <5>1
      <4> QED  BY <1>10, <3>1, <4>1
    <3>3. DOMAIN w = 1..Len(w)  BY <1>6
    <3>4. Pack!Torn(m, w)
      <4>1. \A j \in DOMAIN w : m[j] = IF j <= n THEN w[j] ELSE 0  BY <2>4, <3>3
      <4> QED  BY <1>1, <2>1, <3>1, <4>1 DEF Pack!Torn
    <3>5. Spoilt(m, w)  BY <3>2, <3>4 DEF Spoilt
    <3> QED  BY <1>12, <3>5 DEF g, m
  <2>6. CASE ~(n < Len(w))
    <3>1. n = Len(w)  BY <1>3, <1>10, <2>1, <2>6
    <3>2. m = w
      <4>1. \A j \in 1..Len(m) : m[j] = w[j]
        <5> TAKE j \in 1..Len(m)
        <5>1. j \in 1..Len(w) /\ j <= n  BY <1>1, <2>1, <3>1
        <5> QED  BY <2>4, <5>1
      <4> QED  BY <1>1, <1>6, <2>1, <4>1, SeqEqual
    <3>3. Len(g) <= Len(written) /\ \A i \in 1..Len(g) : g[i] = written[i]
      <4>1. \A i \in 1..k : i \in 1..Len(got) \/ i = k  BY <1>3
      <4>2. \A i \in 1..Len(got) : g[i] = written[i]  BY <1>5, <1>11
      <4>3. g[k] = written[k]  BY <1>11, <3>2 DEF w
      <4>4. Len(g) = k /\ k <= Len(written)  BY <1>3, <1>5, <1>11
      <4> QED  BY <4>1, <4>2, <4>3, <4>4
    <3>4. Seen(e, -1, Len(g)) = at + n
      <4>1. Seen(e, -1, Len(g)) = e[k] + 0  BY <1>11 DEF Seen
      <4> QED  BY <1>3, <1>7, <1>8, <1>9, <2>2, <3>1, <4>1
    <3>5. at \in Nat  BY <1>8, <1>9
    <3>6. Len(got) \in 0..Len(written)  BY <1>3, <1>5
    <3>7. Follows(written, e, at + n, d, Len(got))
      BY <1>2, <1>5, <3>5, <3>6, DropFollows DEF d
    <3>8. Follows(written, e, at + n, d, k)
      <4>1. \A l \in k + 1..Len(written) : l \in Len(got) + 1..Len(written)  BY <1>3
      <4> HIDE DEF k
      <4> QED  BY <3>7, <4>1 DEF Follows
    <3>9. Follows(written, e, Seen(e, -1, Len(g)), d, Len(g))
      <4> HIDE DEF k
      <4> QED  BY <1>11, <3>4, <3>8, Zenon
    <3>10. InStep(e, written, d, -1, g)  BY <3>3, <3>9 DEF InStep
    <3> QED  BY <3>10 DEF g, d, m
  <2> QED  BY <2>5, <2>6
<1> QED  BY <1>13, <1>14

LEMMA ReadDirectPack ==
  ASSUME PackInv, Pack!ReadDirect
  PROVE  PackInv'
<1>0. PackTypes /\ BufSize \in Nat  BY Radixes DEF PackInv
<1>1. size >= BufSize /\ buf = <<>> /\ size' = -1 /\ written' = written /\ buf' = buf
  BY DEF Pack!ReadDirect
<1>2. size \in Nat
  <2>1. size \in Nat \cup {-1}  BY <1>0 DEF PackTypes
  <2>2. ~(-1 >= BufSize)  BY <1>0
  <2> QED  BY <1>1, <2>1, <2>2
<1>3. PICK k \in Pack!Part(size) :
        got' = Append(got, Pack!Filled(Pack!Take(wire, k))) /\ wire' = Pack!Drop(wire, k)
  BY DEF Pack!ReadDirect
<1> DEFINE t == Pack!Take(wire, k)  d == Pack!Drop(wire, k)  m == Pack!Filled(t)
<1>4. /\ k \in 1..size /\ k \in 0..Len(wire) /\ t \in Seq(Nat) /\ Len(t) = k
      /\ (\A i \in 1..k : t[i] = wire[i]) /\ d \in Seq(Nat)
  BY <1>0, <1>2, ReadTakes
<1>5. got' = Append(got, m) /\ wire' = d  BY <1>3
<1>6. k <= size /\ k >= 1  BY <1>2, <1>4
<1> HIDE DEF t
<1>7. m \in Seq(Nat)  BY <1>2, <1>4, <1>6, FilledIs
<1>8. wire \in Seq(Nat) /\ got \in Seq(Seq(Nat)) /\ written \in Seq(Seq(Nat))  BY <1>0 DEF PackTypes
<1>9. buf \o wire = wire /\ <<>> \o d = d  BY <1>1, <1>4, <1>8, ConcatEmptySeq
<1>10. PICK e : Marks(written, e) /\ (InStep(e, written, wire, size, got) \/ OutOfStep(written, got))
  BY <1>9 DEF PackInv
<1>11. InStep(e, written, d, -1, Append(got, m)) \/ OutOfStep(written, Append(got, m))
  <2>1. CASE OutOfStep(written, got)
    <3> HIDE DEF m, d
    <3> QED  BY <1>7, <1>8, <2>1, StaysOut
  <2>2. CASE InStep(e, written, wire, size, got)
    BY <1>0, <1>2, <1>4, <1>6, <1>8, <1>10, <2>2, BodyRead
  <2> QED  BY <1>10, <2>1, <2>2
<1> HIDE DEF m, d
<1>12. Append(got, m) \in Seq(Seq(Nat))  BY <1>7, <1>8
<1>13. PackTypes'  BY <1>0, <1>1, <1>4, <1>5, <1>12 DEF PackTypes
<1>14. buf' \o wire' = d  BY <1>1, <1>5, <1>9, Zenon
<1> QED  BY <1>1, <1>5, <1>10, <1>11, <1>13, <1>14, Zenon DEF PackInv

LEMMA ReadBodyPack ==
  ASSUME PackInv, Pack!ReadBody
  PROVE  PackInv'
<1> DEFINE n == Pack!Smaller(size, Len(buf))
           t == Pack!Take(buf, n)  d == Pack!Drop(buf, n)  m == Pack!Filled(t)  b == buf \o wire
<1>0. PackTypes  BY DEF PackInv
<1>1. /\ size = 0 \/ (size > 0 /\ buf # <<>>)
      /\ got' = Append(got, m) /\ buf' = d /\ size' = -1
      /\ written' = written /\ wire' = wire
  BY DEF Pack!ReadBody
<1>2. written \in Seq(Seq(Nat)) /\ got \in Seq(Seq(Nat)) /\ wire \in Seq(Nat) /\ buf \in Seq(Nat)
  BY <1>0 DEF PackTypes
<1>3. size \in Nat /\ Len(buf) \in Nat /\ Len(wire) \in Nat  BY <1>0, <1>1, <1>2 DEF PackTypes
<1>4. n \in Nat /\ n <= size /\ n <= Len(buf) /\ (n >= 1 \/ size = 0)
  <2>1. size = 0 \/ (size >= 1 /\ Len(buf) >= 1)
    <3>1. Len(buf) = 0 => buf = <<>>  BY <1>2
    <3> QED  BY <1>1, <1>3, <3>1
  <2> QED  BY <1>3, <2>1 DEF Pack!Smaller
<1> HIDE DEF n
<1>5. n \in 0..Len(buf)  BY <1>3, <1>4
<1>6. /\ t \in Seq(Nat) /\ Len(t) = n /\ (\A i \in 1..n : t[i] = buf[i]) /\ d \in Seq(Nat)
  BY <1>2, <1>5, TakeIs, DropIs
<1>7. /\ b \in Seq(Nat) /\ Len(b) = Len(buf) + Len(wire)
      /\ \A i \in 1..Len(buf) : b[i] = buf[i]
  BY <1>2, ConcatIs
<1>8. Pack!Drop(b, n) = d \o wire  BY <1>2, <1>5, DropOfBoth
<1> HIDE DEF b, d, t
<1>9. n \in 0..Len(b) /\ \A i \in 1..n : t[i] = b[i]
  <2>1. n \in 0..Len(b) /\ \A i \in 1..n : i \in 1..Len(buf)  BY <1>3, <1>5, <1>7
  <2> QED  BY <1>6, <1>7, <2>1
<1>10. m \in Seq(Nat)  BY <1>3, <1>4, <1>6, FilledIs
<1>11. PICK e : Marks(written, e) /\ (InStep(e, written, b, size, got) \/ OutOfStep(written, got))
  BY DEF PackInv, b
<1>12. InStep(e, written, d \o wire, -1, Append(got, m)) \/ OutOfStep(written, Append(got, m))
  <2>1. CASE OutOfStep(written, got)
    <3> HIDE DEF m
    <3> QED  BY <1>2, <1>10, <2>1, StaysOut
  <2>2. CASE InStep(e, written, b, size, got)
    <3>1. \/ InStep(e, written, Pack!Drop(b, n), -1, Append(got, m))
          \/ OutOfStep(written, Append(got, m))
      BY <1>0, <1>3, <1>4, <1>6, <1>7, <1>9, <1>11, <2>2, BodyRead
    <3> HIDE DEF m
    <3> QED  BY <1>8, <3>1, Zenon
  <2> QED  BY <1>11, <2>1, <2>2
<1> HIDE DEF m
<1>13. Append(got, m) \in Seq(Seq(Nat))  BY <1>2, <1>10
<1>14. PackTypes'  BY <1>0, <1>1, <1>6, <1>13 DEF PackTypes
<1> QED  BY <1>1, <1>11, <1>12, <1>14, Zenon DEF PackInv

LEMMA NextPack == PackInv /\ [Pack!Next]_(Pack!vars) => PackInv'
<1> SUFFICES ASSUME PackInv, [Pack!Next]_(Pack!vars)  PROVE PackInv'  OBVIOUS
<1>1. CASE UNCHANGED Pack!vars  BY <1>1 DEF Pack!vars, PackInv, PackTypes
<1> QED  BY <1>1, FillPack, ReadSizePack, ReadBodyPack, ReadDirectPack, WritePack DEF Pack!Next, Pack!unPacket

\* What agrees so far is a prefix.
LEMMA PrefixIs ==
  ASSUME NEW g \in Seq(Seq(Nat)), NEW w \in Seq(Seq(Nat)), NEW n \in 0..Len(g), n <= Len(w)
  PROVE  Pack!IsPrefix(Pack!Take(g, n), w) <=> \A i \in 1..n : g[i] = w[i]
<1> DEFINE t == Pack!Take(g, n)  u == Pack!Take(w, n)
<1>1. n \in 0..Len(w) /\ n \in Nat  OBVIOUS
<1>2. t \in Seq(Seq(Nat)) /\ Len(t) = n /\ \A i \in 1..n : t[i] = g[i]  BY TakeIs
<1>3. u \in Seq(Seq(Nat)) /\ Len(u) = n /\ \A i \in 1..n : u[i] = w[i]  BY <1>1, TakeIs
<1>4. u = SubSeq(w, 1, n)  BY DEF Pack!Take
<1> HIDE DEF t, u
<1>5. SubSeq(t, 1, Len(t)) = t  BY <1>2, SubSeqFull
<1>6. Pack!IsPrefix(t, w) <=> t = u  BY <1>2, <1>4, <1>5 DEF Pack!IsPrefix
<1>7. t = u <=> \A i \in 1..n : g[i] = w[i]
  <2>1. ASSUME t = u  PROVE \A i \in 1..n : g[i] = w[i]  BY <1>2, <1>3, <2>1
  <2>2. ASSUME \A i \in 1..n : g[i] = w[i]  PROVE t = u
    <3>1. \A i \in 1..Len(t) : t[i] = u[i]  BY <1>2, <1>3, <2>2
    <3> QED  BY <1>2, <1>3, <3>1, SeqEqual
  <2> QED  BY <2>1, <2>2
<1> QED  BY <1>6, <1>7 DEF t

\* shell_pack.go: for texts of any length, any size of the reader's buffer and however
\* the connection cuts the bytes up, the first message unPacket returns wrong is one
\* too long for its two bytes of length, or the beginning of the message written.
THEOREM FirstWrongIsItsBeginning == Pack!Spec => []FirstWrongIsTorn
<1>1. PackInv => FirstWrongIsTorn
  <2> SUFFICES ASSUME PackInv, NEW i \in DOMAIN got,
                      Pack!IsPrefix(Pack!Take(got, i - 1), written), ~Pack!IsPrefix(Pack!Take(got, i), written)
               PROVE  i <= Len(written) /\ (Len(written[i]) >= Radix * Radix \/ Pack!Torn(got[i], written[i]))
    BY DEF FirstWrongIsTorn, Pack!FirstWrongIsTorn
  <2>1. written \in Seq(Seq(Nat)) /\ got \in Seq(Seq(Nat))  BY DEF PackInv, PackTypes
  <2>2. Len(written) \in Nat /\ Len(got) \in Nat /\ i \in 1..Len(got) /\ i \in Nat /\ i - 1 \in 0..Len(got) /\ i \in 0..Len(got)
    BY <2>1
  <2>3. PICK e : Marks(written, e) /\ (InStep(e, written, buf \o wire, size, got) \/ OutOfStep(written, got))
    BY DEF PackInv
  <2>4. CASE InStep(e, written, buf \o wire, size, got)
    <3>1. Len(got) <= Len(written) /\ \A j \in 1..Len(got) : got[j] = written[j]  BY <2>4 DEF InStep
    <3>2. i <= Len(written) /\ \A j \in 1..i : got[j] = written[j]  BY <2>2, <3>1
    <3> QED  BY <2>1, <2>2, <3>2, PrefixIs
  <2>5. CASE OutOfStep(written, got)
    <3>1. PICK k \in 1..Len(written) :
            k <= Len(got) /\ Spoilt(got[k], written[k]) /\ \A j \in 1..k - 1 : got[j] = written[j]
      BY <2>5 DEF OutOfStep
    <3>2. k <= i
      <4>1. ASSUME i < k  PROVE FALSE
        <5>1. i <= Len(written) /\ \A j \in 1..i : got[j] = written[j]  BY <2>2, <3>1, <4>1
        <5> QED  BY <2>1, <2>2, <5>1, PrefixIs
      <4> QED  BY <2>2, <4>1
    <3>3. ~(k < i)
      <4>1. ASSUME k < i  PROVE FALSE
        <5> DEFINE t == Pack!Take(got, i - 1)  u == Pack!Take(written, i - 1)
        <5>1. t \in Seq(Seq(Nat)) /\ Len(t) = i - 1 /\ \A j \in 1..i - 1 : t[j] = got[j]  BY <2>1, <2>2, TakeIs
        <5>2. u = SubSeq(written, 1, i - 1)  BY DEF Pack!Take
        <5> HIDE DEF t
        <5>3. k \in 1..Len(t) /\ Len(t) \in Nat /\ got[k] # written[k]  BY <2>2, <3>1, <4>1, <5>1 DEF Spoilt
        <5>4. Len(t) <= Len(written) /\ SubSeq(t, 1, Len(t)) = SubSeq(written, 1, Len(t))
          BY <5>1 DEF Pack!IsPrefix, t
        <5> QED  BY <5>1, <5>3, <5>4, <2>1
      <4> QED  BY <4>1
    <3>4. k = i  BY <2>2, <3>2, <3>3
    <3> QED  BY <2>2, <3>1, <3>4 DEF Spoilt
  <2> QED  BY <2>3, <2>4, <2>5
<1> QED  BY <1>1, InitPack, NextPack, PTL DEF Pack!Spec
=============================================================================
