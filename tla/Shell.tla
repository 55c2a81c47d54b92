--------------------------------- MODULE Shell ---------------------------------
(***************************************************************************)
(* pkg/shell: the command server, with the App around it (app.go).  The    *)
(* accept loop gives each client a connection with a write goroutine and a *)
(* read goroutine; the read goroutine hands messages to App.OnMessage,     *)
(* which answers "app will quit" through server.Write and ends App.Run,    *)
(* whose deferred function closes the shell.  One message is one step here *)
(* (ShellPack has the bytes); a client stands for its connection and cid.  *)
(***************************************************************************)
EXTENDS Integers, Sequences, FiniteSets, Functions

CONSTANTS
  Clients,      \* the clients that may connect
  None,         \* no goroutine
  WriteChCap,   \* room in writeCh (10)
  SocketCap,    \* bound: replies a client may leave unread
  Script,       \* bound: the messages each client sends, or the first of them
  Adversity     \* "accept fails", "close fails"

ASSUME ShellAssumption ==
  /\ None \notin Clients
  /\ WriteChCap \in Nat \ {0} /\ SocketCap \in Nat \ {0}
  /\ Script \in [Clients -> Seq({"quit", "other"})]

VARIABLES
  app,        \* App.ctx
  main,       \* App.Run: "boot", "loop", "quit", "wait", "returned", "failed"
  listener,   \* "nil", "open", "closed"
  accepting,  \* the accept loop: "none", "accept", "add", "quit", "exited"
  taken,      \* the client the accept loop has accepted
  ctx,        \* server.ctx
  mu,         \* who holds server.mu
  conns,      \* server.conns
  wg,         \* server.wg
  sock,       \* per client, the server's end: "none", "open", "closed"
  writer,     \* per client, start's goroutine
  reader,     \* per client, handleRead
  writeCh,    \* per client, replies in writeCh
  unread,     \* per client, replies in the socket
  inbox,      \* per client, messages the server has not read
  sent,       \* messages each client has sent
  client,     \* per client: "away", "up", "left", "refused"
  asked,      \* history: the clients whose command to quit has been read
  told        \* history: the clients whose socket was given a reply

serverVars == <<app, main, listener, accepting, taken, ctx>>
lockVars == <<mu, conns, wg>>
connVars == <<sock, writer, reader, writeCh>>
clientVars == <<unread, inbox, sent, client>>
history == <<asked, told>>
vars == <<serverVars, lockVars, connVars, clientVars, history>>

Init ==
  /\ app = "live" /\ main = "boot"
  /\ listener = "nil" /\ accepting = "none" /\ taken = None /\ ctx = "live"
  /\ mu = None /\ conns = {} /\ wg = 0
  /\ sock = [c \in Clients |-> "none"]
  /\ writer = [c \in Clients |-> "none"]
  /\ reader = [c \in Clients |-> "none"]
  /\ writeCh = [c \in Clients |-> 0]
  /\ unread = [c \in Clients |-> 0]
  /\ inbox = [c \in Clients |-> << >>]
  /\ sent = [c \in Clients |-> 0]
  /\ client = [c \in Clients |-> "away"]
  /\ asked = {} /\ told = {}
-----------------------------------------------------------------------------
(* clients: dial, write, read, close; main.go's asks once and times out *)

Dial(c) ==
  /\ client[c] = "away" /\ listener = "open"
  /\ client' = [client EXCEPT ![c] = "up"]
  /\ UNCHANGED <<serverVars, lockVars, connVars, unread, inbox, sent, history>>

SendMessage(c) ==
  /\ client[c] = "up" /\ sock[c] # "closed" /\ sent[c] < Len(Script[c])
  /\ sent' = [sent EXCEPT ![c] = @ + 1]
  /\ inbox' = [inbox EXCEPT ![c] = Append(@, Script[c][sent[c] + 1])]
  /\ UNCHANGED <<serverVars, lockVars, connVars, unread, client, history>>

ReadReply(c) ==
  /\ client[c] = "up" /\ unread[c] > 0
  /\ unread' = [unread EXCEPT ![c] = @ - 1]
  /\ UNCHANGED <<serverVars, lockVars, connVars, inbox, sent, client, history>>

Leave(c) ==
  /\ client[c] = "up"
  /\ client' = [client EXCEPT ![c] = "left"]
  /\ unread' = [unread EXCEPT ![c] = 0]
  /\ UNCHANGED <<serverVars, lockVars, connVars, inbox, sent, history>>
-----------------------------------------------------------------------------
(* App.Run *)

\* app.cmd.Open: createServer may fail, and then Close finds no listener.
Open ==
  /\ main = "boot"
  /\ \/ main' = "loop" /\ listener' = "open" /\ accepting' = "accept"
     \/ main' = "failed" /\ UNCHANGED <<listener, accepting>>
  /\ UNCHANGED <<app, taken, ctx, lockVars, connVars, clientVars, history>>

\* The deferred app.cmd.Close, after the rest of the shutdown: the listener is
\* closed, and clients not accepted yet are refused.
CloseListener ==
  /\ main = "loop" /\ app = "cancelled"
  /\ main' = "quit" /\ listener' = "closed"
  /\ client' = [c \in Clients |->
       IF client[c] = "up" /\ sock[c] = "none" /\ taken # c THEN "refused" ELSE client[c]]
  /\ UNCHANGED <<app, accepting, taken, ctx, lockVars, connVars, unread, inbox, sent, history>>

\* listener.Close fails: Close returns its error and waits for nobody.
CloseFails ==
  /\ "close fails" \in Adversity
  /\ main = "loop" /\ app = "cancelled"
  /\ main' = "failed"
  /\ UNCHANGED <<app, listener, accepting, taken, ctx, lockVars, connVars, clientVars, history>>

\* <-s.quit, then s.cancel().
ReceiveQuit ==
  /\ main = "quit" /\ accepting = "quit"
  /\ main' = "wait" /\ accepting' = "exited" /\ ctx' = "cancelled"
  /\ UNCHANGED <<app, listener, taken, lockVars, connVars, clientVars, history>>

\* Mutant of WaitConns: Close returns as soon as everyone has been alerted.
DontWait ==
  /\ main = "wait"
  /\ main' = "returned"
  /\ UNCHANGED <<app, listener, accepting, taken, ctx, lockVars, connVars, clientVars, history>>

\* s.wg.Wait().
WaitConns ==
  /\ main = "wait" /\ wg = 0
  /\ main' = "returned"
  /\ UNCHANGED <<app, listener, accepting, taken, ctx, lockVars, connVars, clientVars, history>>
-----------------------------------------------------------------------------
(* the accept loop *)

Accept(c) ==
  /\ accepting = "accept" /\ listener = "open"
  /\ client[c] \in {"up", "left"} /\ sock[c] = "none"
  /\ accepting' = "add" /\ taken' = c
  /\ sock' = [sock EXCEPT ![c] = "open"]
  /\ UNCHANGED <<app, main, listener, ctx, lockVars, writer, reader, writeCh, clientVars, history>>

\* Accept fails: on a closed listener, or for good reason of the system's.
AcceptFails ==
  /\ accepting = "accept"
  /\ listener = "closed" \/ "accept fails" \in Adversity
  /\ accepting' = "quit"
  /\ UNCHANGED <<app, main, listener, taken, ctx, lockVars, connVars, clientVars, history>>

\* s.add, s.seq++, c.start(): the two goroutines run.
Add ==
  /\ accepting = "add" /\ mu = None
  /\ conns' = conns \cup {taken}
  /\ wg' = wg + 1
  /\ writer' = [writer EXCEPT ![taken] = "select"]
  /\ reader' = [reader EXCEPT ![taken] = "read"]
  /\ accepting' = "accept" /\ taken' = None
  /\ UNCHANGED <<app, main, listener, ctx, mu, sock, writeCh, clientVars, history>>
-----------------------------------------------------------------------------
(* start: the write goroutine of a connection *)

\* case <-c.ctx.Done(): c.close(); the loop goes on until the reader is done.
ServerQuits(c) ==
  /\ writer[c] = "select" /\ ctx = "cancelled" /\ sock[c] = "open"
  /\ sock' = [sock EXCEPT ![c] = "closed"]
  /\ UNCHANGED <<serverVars, lockVars, writer, reader, writeCh, clientVars, history>>

\* case <-done: the deferred c.close() and, next, onClosed.
ReceiveDone(c) ==
  /\ writer[c] = "select" /\ reader[c] = "done"
  /\ writer' = [writer EXCEPT ![c] = "onClosed"]
  /\ reader' = [reader EXCEPT ![c] = "exited"]
  /\ sock' = [sock EXCEPT ![c] = "closed"]
  /\ UNCHANGED <<serverVars, lockVars, writeCh, clientVars, history>>

\* case data := <-c.writeCh.
ReceiveReply(c) ==
  /\ writer[c] = "select" /\ writeCh[c] > 0
  /\ writeCh' = [writeCh EXCEPT ![c] = @ - 1]
  /\ writer' = [writer EXCEPT ![c] = "write"]
  /\ UNCHANGED <<serverVars, lockVars, sock, reader, clientVars, history>>

\* conn.Write waits for room; its error is dropped.
WriteReply(c) ==
  /\ writer[c] = "write"
  /\ \/ /\ sock[c] = "closed" \/ client[c] = "left"
        /\ UNCHANGED <<unread, told>>
     \/ /\ sock[c] = "open" /\ client[c] = "up" /\ unread[c] < SocketCap
        /\ unread' = [unread EXCEPT ![c] = @ + 1]
        /\ told' = told \cup {c}
  /\ writer' = [writer EXCEPT ![c] = "select"]
  /\ UNCHANGED <<serverVars, lockVars, sock, reader, writeCh, inbox, sent, client, asked>>

OnClosed(c) ==
  /\ writer[c] = "onClosed" /\ mu = None
  /\ conns' = conns \ {c}
  /\ wg' = wg - 1
  /\ writer' = [writer EXCEPT ![c] = "exited"]
  /\ UNCHANGED <<serverVars, mu, sock, reader, writeCh, clientVars, history>>
-----------------------------------------------------------------------------
(* handleRead: the read goroutine of a connection *)

\* Mutant of ReadMessage: OnMessage takes every message for a command.
ObeyAnything(c) ==
  /\ reader[c] = "read" /\ inbox[c] # << >>
  /\ inbox' = [inbox EXCEPT ![c] = Tail(@)]
  /\ reader' = [reader EXCEPT ![c] = "lock"]
  /\ asked' = IF Head(inbox[c]) = "quit" THEN asked \cup {c} ELSE asked
  /\ UNCHANGED <<serverVars, lockVars, sock, writer, writeCh, unread, sent, client, told>>

\* A message; OnMessage does nothing with one that is no command.  The bufio
\* reader may still have one when the socket has been closed.
ReadMessage(c) ==
  /\ reader[c] = "read" /\ inbox[c] # << >>
  /\ inbox' = [inbox EXCEPT ![c] = Tail(@)]
  /\ \/ /\ Head(inbox[c]) = "quit"
        /\ reader' = [reader EXCEPT ![c] = "lock"]
        /\ asked' = asked \cup {c}
     \/ /\ Head(inbox[c]) = "other"
        /\ UNCHANGED <<reader, asked>>
  /\ UNCHANGED <<serverVars, lockVars, sock, writer, writeCh, unread, sent, client, told>>

\* unPacket fails: the client left, or the server closed the connection.
ReadFails(c) ==
  /\ reader[c] = "read"
  /\ sock[c] = "closed" \/ (client[c] = "left" /\ inbox[c] = << >>)
  /\ reader' = [reader EXCEPT ![c] = "done"]
  /\ UNCHANGED <<serverVars, lockVars, sock, writer, writeCh, clientVars, history>>

\* server.Write: it finds the connection, which leaves conns only after its reader
\* has said that it is done, and keeps mu
\* while writeCh is full.
Lock(c) ==
  /\ reader[c] = "lock" /\ mu = None
  /\ mu' = c
  /\ reader' = [reader EXCEPT ![c] = "send"]
  /\ UNCHANGED <<serverVars, conns, wg, sock, writer, writeCh, clientVars, history>>

\* Mutant of Write: the lock is kept.
WriteKeepsMu(c) ==
  /\ reader[c] = "send" /\ writeCh[c] < WriteChCap
  /\ writeCh' = [writeCh EXCEPT ![c] = @ + 1]
  /\ reader' = [reader EXCEPT ![c] = "quit"]
  /\ UNCHANGED <<serverVars, lockVars, sock, writer, clientVars, history>>

Write(c) ==
  /\ reader[c] = "send" /\ writeCh[c] < WriteChCap
  /\ writeCh' = [writeCh EXCEPT ![c] = @ + 1]
  /\ mu' = None
  /\ reader' = [reader EXCEPT ![c] = "quit"]
  /\ UNCHANGED <<serverVars, conns, wg, sock, writer, clientVars, history>>

\* app.Quit().
Quit(c) ==
  /\ reader[c] = "quit"
  /\ app' = "cancelled"
  /\ reader' = [reader EXCEPT ![c] = "read"]
  /\ UNCHANGED <<main, listener, accepting, taken, ctx, lockVars, sock, writer, writeCh, clientVars, history>>
-----------------------------------------------------------------------------
Main == Open \/ CloseListener \/ CloseFails \/ ReceiveQuit \/ WaitConns
AcceptLoop == AcceptFails \/ Add \/ \E c \in Clients : Accept(c)
Writer(c) == ServerQuits(c) \/ ReceiveDone(c) \/ ReceiveReply(c) \/ WriteReply(c) \/ OnClosed(c)
Reader(c) == ReadMessage(c) \/ ReadFails(c) \/ Lock(c) \/ Write(c) \/ Quit(c)
Client(c) == Dial(c) \/ ReadReply(c) \/ Leave(c) \/ SendMessage(c)

Alive == main \notin {"returned", "failed"}

Do(A) == Alive /\ A

Next ==
  \/ Do(Main) \/ Do(AcceptLoop)
  \/ \E c \in Clients : Do(Writer(c)) \/ Do(Reader(c)) \/ Do(Client(c))

Spec == Init /\ [][Next]_vars

\* Goroutines run, and a client reads its reply or stops waiting for it and leaves
\* (main.go's after 10 seconds).  A select and a mutex serve those who wait in some
\* order; as clients and messages are finitely many, weak fairness is enough.
Fairness ==
  /\ WF_vars(Do(Main))
  /\ WF_vars(Do(AcceptLoop /\ (accepting' = "quit" => listener = "closed")))
  /\ \A c \in Clients :
       /\ WF_vars(Do(Reader(c))) /\ WF_vars(Do(Writer(c)))
       /\ WF_vars(Do(ReadReply(c) \/ Leave(c)))

FairSpec == Spec /\ Fairness
-----------------------------------------------------------------------------
TypeOK ==
  /\ app \in {"live", "cancelled"} /\ ctx \in {"live", "cancelled"}
  /\ main \in {"boot", "loop", "quit", "wait", "returned", "failed"}
  /\ listener \in {"nil", "open", "closed"}
  /\ accepting \in {"none", "accept", "add", "quit", "exited"}
  /\ taken \in Clients \cup {None} /\ mu \in Clients \cup {None}
  /\ conns \subseteq Clients /\ wg = Cardinality(conns)
  /\ sock \in [Clients -> {"none", "open", "closed"}]
  /\ writer \in [Clients -> {"none", "select", "write", "onClosed", "exited"}]
  /\ reader \in [Clients -> {"none", "read", "lock", "send", "quit", "done", "exited"}]
  /\ writeCh \in [Clients -> 0..WriteChCap]
  /\ unread \in [Clients -> 0..SocketCap]
  /\ \A c \in Clients : Len(inbox[c]) + unread[c] <= 2 * sent[c] /\ sent[c] <= Len(Script[c])
  /\ client \in [Clients -> {"away", "up", "left", "refused"}]
  /\ asked \subseteq Clients /\ told \subseteq asked

\* shell.go: "stop and wait all goroutine quit": no goroutine of the shell is
\* left when Close has returned, and none had begun to open a connection.
CloseWaits ==
  main = "returned" =>
    /\ accepting = "exited" /\ taken = None
    /\ \A c \in Clients : writer[c] \in {"none", "exited"} /\ reader[c] \in {"none", "exited"} /\ sock[c] # "open"

\* The shell is the service its clients and the App count on.
Service == INSTANCE ShellService WITH
  app <- IF main = "returned" THEN "down" ELSE IF app = "cancelled" THEN "stopping" ELSE "up",
  served <- {c \in Clients : sock[c] = "open"},
  left <- {c \in Clients : client[c] = "left"}

ImplementsService == Service!Spec

\* The accept loop has ended on an error, and c is not taken on any more.
Unheard(c) == accepting = "quit" /\ listener = "open" /\ sock[c] = "none"

\* README.md: "--cmd=stop stops faceserver": once a client has sent the command, the App
\* ends, and Close with it, whatever the other clients do and whether or not this one
\* waits for the reply; but not for a client the shell has refused or will never accept.
CommandStops ==
  \A c \in Clients : "quit" \in Range(inbox[c]) ~> (~Alive \/ client[c] = "refused" \/ Unheard(c))
=============================================================================
