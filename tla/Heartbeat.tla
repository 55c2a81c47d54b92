------------------------------- MODULE Heartbeat -------------------------------
(***************************************************************************)
(* server/conn.go: how one websocket connection finds out that its client  *)
(* is gone.  The write goroutine sends a ping every pingPeriod; a pong     *)
(* moves the read goroutine's deadline; a read past the deadline fails.    *)
(* WsServer leaves the failure of a read to chance; here there is time, in *)
(* ticks much longer than a goroutine needs for a step, so that time waits *)
(* for goroutines that can run.                                            *)
(***************************************************************************)
EXTENDS Integers

CONSTANTS
  PongWait,    \* pongWait, in ticks (60 s)
  RoundTrip,   \* the ticks a client that is there takes for a pong, at most
  SocketCap,   \* bound: responses and pings the client's window has room for
  MaxMessages, \* bound: the messages the client sends
  Adversity    \* "slow engine": DoFeature may take its time

ASSUME HeartbeatAssumption ==
  /\ PongWait \in Nat \ {0} /\ RoundTrip \in Nat \ {0}
  /\ SocketCap \in Nat /\ MaxMessages \in Nat

VARIABLES
  peer,      \* "there", "gone" (it reads and writes no more), "closed"
  sock,      \* "open", "closed"
  deadline,  \* ticks to the read deadline
  ticker,    \* ticks to the ticker's next value
  ticked,    \* values in ticker.C: 0 or 1
  owed,      \* ticks the oldest ping not answered has been out, or -1
  pongs,     \* pongs that wait to be read: 0 or 1
  writer,    \* "select", "write", "exited"
  what,      \* what is being written: "ping", "response", "nothing"
  reader,    \* "read", "submit", "done", "exited"
  cause,     \* why the reader ended: "none", "timeout", "closed", "message"
  messages,  \* messages the client has sent
  due,       \* responses that wait for the write goroutine
  unread,    \* what the client has not read of what was written
  ctx        \* server.ctx

clientVars == <<peer, messages>>
timeVars == <<deadline, ticker>>
writerVars == <<sock, ticked, writer, what>>
readerVars == <<reader, cause, pongs>>
flowVars == <<owed, due, unread>>
vars == <<clientVars, timeVars, writerVars, readerVars, flowVars, ctx>>

\* Mutant of PingPeriod: a ping every pongWait.
PingEveryPongWait == PongWait

PingPeriod == (PongWait * 9) \div 10

\* newConn, start and the first lines of handleRead.
Init ==
  /\ peer = "there" /\ sock = "open" /\ ctx = "live"
  /\ deadline = PongWait /\ ticker = PingPeriod /\ ticked = 0
  /\ owed = -1 /\ pongs = 0 /\ due = 0 /\ unread = 0
  /\ writer = "select" /\ what = "nothing"
  /\ reader = "read" /\ cause = "none"
  /\ messages = 0
-----------------------------------------------------------------------------
(* the client *)

\* The client reads everything at once and answers a ping.
Pong ==
  /\ peer = "there" /\ sock = "open" /\ owed >= 0
  /\ owed' = -1
  /\ pongs' = 1
  /\ UNCHANGED <<clientVars, timeVars, writerVars, reader, cause, due, unread, ctx>>

\* It stops: its machine is alive, the connection stays, nobody reads from it.
GoAway ==
  /\ peer = "there"
  /\ peer' = "gone"
  /\ owed' = -1
  /\ UNCHANGED <<messages, timeVars, writerVars, readerVars, due, unread, ctx>>

CloseConnection ==
  /\ peer = "there"
  /\ peer' = "closed"
  /\ owed' = -1
  /\ UNCHANGED <<messages, timeVars, writerVars, readerVars, due, unread, ctx>>
-----------------------------------------------------------------------------
(* handleRead *)

\* The pong handler, called by ReadMessage.
ReadPong ==
  /\ reader = "read" /\ deadline > 0 /\ sock = "open" /\ pongs = 1
  /\ pongs' = 0
  /\ deadline' = PongWait
  /\ UNCHANGED <<clientVars, ticker, writerVars, reader, cause, flowVars, ctx>>

\* A message: it is handed to the engine, which may not take it at once.  Its
\* response is due from then on.
ReadMessage ==
  /\ reader = "read" /\ deadline > 0 /\ sock = "open"
  /\ peer = "there" /\ messages < MaxMessages
  /\ messages' = messages + 1
  /\ reader' = "submit"
  /\ UNCHANGED <<peer, timeVars, writerVars, cause, pongs, flowVars, ctx>>

Submitted ==
  /\ reader = "submit"
  /\ reader' = "read"
  /\ due' = due + 1
  /\ UNCHANGED <<clientVars, timeVars, writerVars, cause, pongs, owed, unread, ctx>>

\* A message that is no JSON ends the goroutine.
BadMessage ==
  /\ reader = "read" /\ deadline > 0 /\ sock = "open"
  /\ peer = "there" /\ messages < MaxMessages
  /\ messages' = messages + 1
  /\ reader' = "done" /\ cause' = "message"
  /\ UNCHANGED <<peer, timeVars, writerVars, pongs, flowVars, ctx>>

\* Mutant of ReadFails: a timeout is taken for a temporary error.
ReadAfterTimeout ==
  /\ reader = "read"
  /\ sock = "closed" \/ peer = "closed"
  /\ cause' = "closed"
  /\ reader' = "done"
  /\ UNCHANGED <<clientVars, timeVars, writerVars, pongs, flowVars, ctx>>

ReadFails ==
  /\ reader = "read"
  /\ \/ (sock = "closed" \/ peer = "closed") /\ cause' = "closed"
     \/ deadline = 0 /\ sock = "open" /\ cause' = "timeout"
  /\ reader' = "done"
  /\ UNCHANGED <<clientVars, timeVars, writerVars, pongs, flowVars, ctx>>
-----------------------------------------------------------------------------
(* start: the write goroutine *)

ServerQuits ==
  /\ writer = "select" /\ ctx = "cancelled" /\ sock = "open"
  /\ sock' = "closed"
  /\ UNCHANGED <<clientVars, timeVars, ticked, writer, what, readerVars, flowVars, ctx>>

\* The ticker's value, or a response, is taken to be written.
TakePing ==
  /\ writer = "select" /\ ticked = 1
  /\ ticked' = 0
  /\ writer' = "write" /\ what' = "ping"
  /\ UNCHANGED <<clientVars, timeVars, sock, readerVars, flowVars, ctx>>

TakeResponse ==
  /\ writer = "select" /\ due > 0
  /\ due' = due - 1
  /\ writer' = "write" /\ what' = "response"
  /\ UNCHANGED <<clientVars, timeVars, sock, ticked, readerVars, owed, unread, ctx>>

Blocked == sock = "open" /\ peer = "gone" /\ unread = SocketCap

\* WriteMessage, which has no deadline: it waits for room.
Written ==
  /\ writer = "write" /\ ~Blocked
  /\ writer' = "select" /\ what' = "nothing"
  /\ unread' = IF peer = "gone" /\ sock = "open" THEN unread + 1 ELSE unread
  /\ owed' = IF what = "ping" /\ peer = "there" /\ owed = -1 THEN 0 ELSE owed
  /\ UNCHANGED <<clientVars, timeVars, sock, ticked, readerVars, due, ctx>>

\* Mutant of ReceiveDone: the goroutine only leaves the select.
DoneIsDropped ==
  /\ writer = "select" /\ reader = "done"
  /\ reader' = "exited"
  /\ UNCHANGED <<sock, writer, clientVars, timeVars, ticked, what, cause, pongs, flowVars, ctx>>

\* case <-done: close, and the goroutine ends.
ReceiveDone ==
  /\ writer = "select" /\ reader = "done"
  /\ reader' = "exited"
  /\ sock' = "closed"
  /\ writer' = "exited"
  /\ UNCHANGED <<clientVars, timeVars, ticked, what, cause, pongs, flowVars, ctx>>
-----------------------------------------------------------------------------
\* server.close cancels the context.
CancelServer ==
  /\ ctx = "live"
  /\ ctx' = "cancelled"
  /\ UNCHANGED <<clientVars, timeVars, writerVars, readerVars, flowVars>>

\* Some goroutine, or the client, has something to do that takes no time.
CanRun ==
  \/ writer = "select" /\ (ticked = 1 \/ due > 0 \/ reader = "done" \/ (ctx = "cancelled" /\ sock = "open"))
  \/ writer = "write" /\ ~Blocked
  \/ reader = "read" /\ (deadline = 0 \/ pongs = 1 \/ sock = "closed" \/ peer = "closed")
  \/ reader = "submit" /\ "slow engine" \notin Adversity
  \/ peer = "there" /\ owed = RoundTrip

Tick ==
  /\ ~CanRun /\ writer # "exited"
  /\ deadline' = IF deadline > 0 THEN deadline - 1 ELSE 0
  /\ owed' = IF owed >= 0 THEN owed + 1 ELSE owed
  /\ IF ticker > 1 THEN ticker' = ticker - 1 /\ UNCHANGED ticked
     ELSE ticker' = PingPeriod /\ ticked' = 1
  /\ UNCHANGED <<clientVars, sock, writer, what, readerVars, due, unread, ctx>>

Client == Pong \/ GoAway \/ CloseConnection
Reader == ReadPong \/ ReadMessage \/ Submitted \/ BadMessage \/ ReadFails
Writer == ServerQuits \/ TakePing \/ TakeResponse \/ Written \/ ReceiveDone

Next == Client \/ Reader \/ Writer \/ CancelServer \/ Tick

Spec == Init /\ [][Next]_vars

\* Time passes, goroutines run, each ready branch of a select is picked in the
\* end; the engine takes a request in the end.
FairSpec ==
  /\ Spec
  /\ WF_vars(Tick) /\ WF_vars(ReadPong) /\ WF_vars(Submitted) /\ WF_vars(ReadFails)
  /\ WF_vars(ServerQuits) /\ SF_vars(TakePing) /\ SF_vars(TakeResponse)
  /\ WF_vars(Written) /\ SF_vars(ReceiveDone)
-----------------------------------------------------------------------------
TypeOK ==
  /\ peer \in {"there", "gone", "closed"} /\ sock \in {"open", "closed"} /\ ctx \in {"live", "cancelled"}
  /\ deadline \in 0..PongWait /\ ticker \in 1..PingPeriod /\ ticked \in 0..1
  /\ owed \in -1..RoundTrip /\ pongs \in 0..1 /\ unread \in 0..SocketCap
  /\ writer \in {"select", "write", "exited"} /\ what \in {"ping", "response", "nothing"}
  /\ reader \in {"read", "submit", "done", "exited"}
  /\ cause \in {"none", "timeout", "closed", "message"}
  /\ messages \in 0..MaxMessages /\ due \in 0..MaxMessages

\* conn.go: "pongWait: the timeout for receiving a pong".  A client that answers
\* every ping in time does not lose its connection to the deadline.
AnsweringClientKept == cause = "timeout" => peer # "there"

\* The other way round: a client that has gone is noticed, and the connection's
\* goroutines end.
GoneClientNoticed == peer = "gone" ~> writer = "exited"

\* close waits for these goroutines: they end when the server quits.
EndsWithServer == ctx = "cancelled" ~> writer = "exited"
=============================================================================
