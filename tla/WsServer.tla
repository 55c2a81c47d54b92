------------------------------- MODULE WsServer -------------------------------
(***************************************************************************)
(* server/server.go and server/conn.go: the websocket server and its       *)
(* connections.  Five kinds of goroutine meet here:                        *)
(*   - the serve goroutine spawned by server.start (lpc);                  *)
(*   - the caller of server.close (cpc);                                   *)
(*   - one HTTP handler per connection, in server.handleConn (hpc);        *)
(*   - one write goroutine per connection, in wsConn.start (wpc), and the  *)
(*     read goroutine it spawns, wsConn.handleRead (rpc);                  *)
(*   - the threads that call server.send with a finished response (spc).   *)
(* writeCh, done and quit are unbuffered: a send and its receive are one   *)
(* step.  A critical section under server.mu with nothing blocking in it   *)
(* is one step; send keeps mu while it waits on writeCh, so it is several. *)
(* A call's local variables go back to their first value when it returns.  *)
(***************************************************************************)
EXTENDS Naturals, Sequences, FiniteSets, Functions

CONSTANTS
  Conns,      \* the websocket connections a run may see, each used once
  Threads,    \* the threads that call server.send
  Responses,  \* the responses they pass
  None,       \* no thread, no response
  MaxSeq,     \* bound: connections are accepted only while seq < MaxSeq
  MaxReq,     \* bound: messages are read only while nextId < MaxReq
  Adversity   \* what the environment may do beyond the normal, see below

(***************************************************************************)
(* Adversity may hold "overlapping upgrades" (two handlers run at once),   *)
(* "late upgrade" (a handler is still running when close is called),       *)
(* "early close" (close is called before the serve goroutine has run),     *)
(* "bind error" and "close error" (listening, closing the listener fails), *)
(* "unencodable" (a response that json.Marshal rejects).                   *)
(***************************************************************************)
ASSUME WsServerAssumption ==
  /\ IsFiniteSet(Conns)
  /\ None \notin Threads /\ None \notin Responses
  /\ MaxSeq \in Nat /\ MaxReq \in Nat

VARIABLES
  lpc, http, cpc, ctx, wg,            \* start, http.Server's shutdown flag, close, ctx, wg
  seq, conns, mu,                     \* the server's fields; mu: the thread holding it
  hpc, hseq, connSeq,                 \* handleConn: its place, the value of seq it read, wsConn.seq
  wpc, wcur, closed, out,             \* the write goroutine; the conns with isClosed; what each wrote
  rpc, rid, asked, nextId,            \* handleRead: its place, ReqId; ids it took (history); the id source
  spc, sconn, sresp, starget          \* server.send: its place, arguments, and the conn it found

closeVars == <<lpc, http, cpc, ctx>>
handlerVars == <<hpc, hseq, connSeq, seq>>
writerVars == <<wpc, wcur, closed, out>>
readerVars == <<rpc, rid, asked, nextId>>
senderVars == <<spc, sconn, sresp, starget>>
vars == <<closeVars, handlerVars, writerVars, readerVars, senderVars, conns, mu, wg>>

Init ==
  /\ lpc = "off" /\ http = "open" /\ cpc = "up" /\ ctx = "live" /\ wg = 0
  /\ seq = 0 /\ conns = [k \in {} |-> None] /\ mu = None
  /\ hpc = [c \in Conns |-> "idle"]
  /\ hseq = [c \in Conns |-> 0]
  /\ connSeq = [c \in Conns |-> 0]
  /\ wpc = [c \in Conns |-> "none"]
  /\ wcur = [c \in Conns |-> None]
  /\ closed = {}
  /\ out = [c \in Conns |-> << >>]
  /\ rpc = [c \in Conns |-> "none"]
  /\ rid = [c \in Conns |-> 0]
  /\ asked = [c \in Conns |-> {}]
  /\ nextId = 0
  /\ spc = [t \in Threads |-> "idle"]
  /\ sconn = [t \in Threads |-> 0]
  /\ sresp = [t \in Threads |-> None]
  /\ starget = [t \in Threads |-> None]
-----------------------------------------------------------------------------
(* server.start and server.close *)

\* newServer, and start's go statement.
Start ==
  /\ lpc = "off"
  /\ lpc' = "created"
  /\ UNCHANGED <<http, cpc, ctx, handlerVars, writerVars, readerVars, senderVars, conns, mu, wg>>

\* s.server = http.Server{...}: forgets a Close made on the zero value before.
AssignServer ==
  /\ lpc = "created"
  /\ lpc' = "assigned"
  /\ http' = "open"
  /\ UNCHANGED <<cpc, ctx, handlerVars, writerVars, readerVars, senderVars, conns, mu, wg>>

\* ListenAndServe begins: it refuses a server already shut, and may fail to bind.
Listen ==
  /\ lpc = "assigned"
  /\ \/ http = "open" /\ lpc' = "serving"
     \/ (http = "shut" \/ "bind error" \in Adversity) /\ lpc' = "quitting"
  /\ UNCHANGED <<http, cpc, ctx, handlerVars, writerVars, readerVars, senderVars, conns, mu, wg>>

ServeReturns ==
  /\ lpc = "serving" /\ http = "shut"
  /\ lpc' = "quitting"
  /\ UNCHANGED <<http, cpc, ctx, handlerVars, writerVars, readerVars, senderVars, conns, mu, wg>>

HandlersIdle == \A c \in Conns : hpc[c] \in {"idle", "done"}

\* close: http.Server.Close, which stops accepting but leaves hijacked
\* connections and their handlers alone.  On an error close returns at once.
CloseHttp ==
  /\ cpc = "up" /\ lpc # "off"
  /\ "early close" \in Adversity \/ lpc \notin {"created", "assigned"}
  /\ "late upgrade" \in Adversity \/ HandlersIdle
  /\ http' = "shut"
  /\ \/ cpc' = "quit"
     \/ "close error" \in Adversity /\ cpc' = "failed"
  /\ UNCHANGED <<lpc, ctx, handlerVars, writerVars, readerVars, senderVars, conns, mu, wg>>

\* close: <-s.quit and s.cancel(); the serve goroutine ends.
ReceiveQuit ==
  /\ cpc = "quit" /\ lpc = "quitting"
  /\ cpc' = "wait"
  /\ lpc' = "exited"
  /\ ctx' = "cancelled"
  /\ UNCHANGED <<http, handlerVars, writerVars, readerVars, senderVars, conns, mu, wg>>

\* Mutant of WaitConns: close returns without waiting for the group.
CloseWithoutWait ==
  /\ cpc = "wait"
  /\ cpc' = "closed"
  /\ UNCHANGED <<lpc, http, ctx, handlerVars, writerVars, readerVars, senderVars, conns, mu, wg>>

\* close: s.wg.Wait() returns.
WaitConns ==
  /\ cpc = "wait" /\ wg = 0
  /\ cpc' = "closed"
  /\ UNCHANGED <<lpc, http, ctx, handlerVars, writerVars, readerVars, senderVars, conns, mu, wg>>
-----------------------------------------------------------------------------
(* server.handleConn, one call per connection *)

\* A successful Upgrade, and newConn(ws, s.seq, s), which reads seq.
Upgrade(c) ==
  /\ hpc[c] = "idle" /\ lpc = "serving" /\ http = "open"
  /\ seq < MaxSeq
  /\ "overlapping upgrades" \in Adversity \/ HandlersIdle
  /\ connSeq' = [connSeq EXCEPT ![c] = seq]
  /\ hpc' = [hpc EXCEPT ![c] = "key"]
  /\ UNCHANGED <<hseq, seq, closeVars, writerVars, readerVars, senderVars, conns, mu, wg>>

\* The argument of onOpen(s.seq, conn): seq is read a second time.
ReadKey(c) ==
  /\ hpc[c] = "key"
  /\ hseq' = [hseq EXCEPT ![c] = seq]
  /\ hpc' = [hpc EXCEPT ![c] = "insert"]
  /\ UNCHANGED <<connSeq, seq, closeVars, writerVars, readerVars, senderVars, conns, mu, wg>>

OnOpen(c) ==
  /\ hpc[c] = "insert" /\ mu = None
  /\ conns' = [k \in DOMAIN conns \cup {hseq[c]} |-> IF k = hseq[c] THEN c ELSE conns[k]]
  /\ hpc' = [hpc EXCEPT ![c] = "add"]
  /\ UNCHANGED <<hseq, connSeq, seq, closeVars, writerVars, readerVars, senderVars, mu, wg>>

\* Mutant of AddConn: the group is not told of the new connection.
SkipAdd(c) ==
  /\ hpc[c] = "add"
  /\ hpc' = [hpc EXCEPT ![c] = "start"]
  /\ UNCHANGED <<hseq, connSeq, seq, closeVars, writerVars, readerVars, senderVars, conns, mu, wg>>

\* s.wg.Add(1).
AddConn(c) ==
  /\ hpc[c] = "add"
  /\ wg' = wg + 1
  /\ hpc' = [hpc EXCEPT ![c] = "start"]
  /\ UNCHANGED <<hseq, connSeq, seq, closeVars, writerVars, readerVars, senderVars, conns, mu>>

\* conn.start(), whose goroutine first spawns handleRead.
StartConn(c) ==
  /\ hpc[c] = "start"
  /\ wpc' = [wpc EXCEPT ![c] = "select"]
  /\ rpc' = [rpc EXCEPT ![c] = "read"]
  /\ hpc' = [hpc EXCEPT ![c] = "load"]
  /\ UNCHANGED <<hseq, connSeq, seq, closeVars, wcur, closed, out, rid, asked, nextId, senderVars, conns, mu, wg>>

\* s.seq++ is a load ...
LoadSeq(c) ==
  /\ hpc[c] = "load"
  /\ hseq' = [hseq EXCEPT ![c] = seq]
  /\ hpc' = [hpc EXCEPT ![c] = "store"]
  /\ UNCHANGED <<connSeq, seq, closeVars, writerVars, readerVars, senderVars, conns, mu, wg>>

\* ... and a store, and handleConn returns.
StoreSeq(c) ==
  /\ hpc[c] = "store"
  /\ seq' = hseq[c] + 1
  /\ hseq' = [hseq EXCEPT ![c] = 0]
  /\ hpc' = [hpc EXCEPT ![c] = "done"]
  /\ UNCHANGED <<connSeq, closeVars, writerVars, readerVars, senderVars, conns, mu, wg>>

Handler(c) ==
  Upgrade(c) \/ ReadKey(c) \/ OnOpen(c) \/ AddConn(c) \/ StartConn(c) \/ LoadSeq(c) \/ StoreSeq(c)
-----------------------------------------------------------------------------
(* wsConn.start: the write goroutine's select *)

\* ctx.Done: close() begins with conn.Close().  Once isClosed is set this branch
\* changes nothing and the goroutine loops until handleRead is done.
ServerQuits(c) ==
  /\ wpc[c] = "select" /\ ctx = "cancelled" /\ c \notin closed
  /\ wpc' = [wpc EXCEPT ![c] = "closeOnQuit"]
  /\ UNCHANGED <<wcur, closed, out, closeVars, handlerVars, readerVars, senderVars, conns, mu, wg>>

\* done: the read goroutine ends.  close() begins, or does nothing if isClosed.
ReadDone(c) ==
  /\ wpc[c] = "select" /\ rpc[c] = "done"
  /\ rpc' = [rpc EXCEPT ![c] = "exited"]
  /\ wpc' = [wpc EXCEPT ![c] = IF c \in closed THEN "return" ELSE "closeOnDone"]
  /\ UNCHANGED <<wcur, closed, out, rid, asked, nextId, closeVars, handlerVars, senderVars, conns, mu, wg>>

\* Mutant of OnClosed: the goroutine returns from the ctx.Done branch as well.
OnClosedReturns(c) ==
  /\ wpc[c] \in {"closeOnQuit", "closeOnDone"} /\ mu = None
  /\ conns' = Restrict(conns, DOMAIN conns \ {connSeq[c]})
  /\ closed' = closed \cup {c}
  /\ wpc' = [wpc EXCEPT ![c] = "return"]
  /\ UNCHANGED <<wcur, out, closeVars, handlerVars, readerVars, senderVars, mu, wg>>

\* close() goes on: server.onClosed(w.seq) under mu, then isClosed = true.
OnClosed(c) ==
  /\ wpc[c] \in {"closeOnQuit", "closeOnDone"} /\ mu = None
  /\ conns' = Restrict(conns, DOMAIN conns \ {connSeq[c]})
  /\ closed' = closed \cup {c}
  /\ wpc' = [wpc EXCEPT ![c] = IF wpc[c] = "closeOnQuit" THEN "select" ELSE "return"]
  /\ UNCHANGED <<wcur, out, closeVars, handlerVars, readerVars, senderVars, mu, wg>>

\* Mutant of WriterReturns: the deferred function forgets wg.Done.
ReturnWithoutDone(c) ==
  /\ wpc[c] = "return"
  /\ wpc' = [wpc EXCEPT ![c] = "exited"]
  /\ UNCHANGED <<wg, wcur, closed, out, closeVars, handlerVars, readerVars, senderVars, conns, mu>>

\* The deferred wg.Done.
WriterReturns(c) ==
  /\ wpc[c] = "return"
  /\ wg' = wg - 1
  /\ wpc' = [wpc EXCEPT ![c] = "exited"]
  /\ UNCHANGED <<wcur, closed, out, closeVars, handlerVars, readerVars, senderVars, conns, mu>>

\* ticker.C: a ping is written.
Ping(c) ==
  /\ wpc[c] = "select"
  /\ wpc' = [wpc EXCEPT ![c] = "writing"]
  /\ wcur' = [wcur EXCEPT ![c] = None]
  /\ UNCHANGED <<closed, out, closeVars, handlerVars, readerVars, senderVars, conns, mu, wg>>

\* writeCh: thread t's send meets the receive of c; t unlocks mu on its way out.
ReceiveResponse(t, c) ==
  /\ spc[t] = "chan" /\ starget[t] = c /\ wpc[c] = "select"
  /\ wpc' = [wpc EXCEPT ![c] = "writing"]
  /\ wcur' = [wcur EXCEPT ![c] = sresp[t]]
  /\ spc' = [spc EXCEPT ![t] = "return"]
  /\ mu' = None
  /\ UNCHANGED <<closed, out, sconn, sresp, starget, closeVars, handlerVars, readerVars, conns, wg>>

\* WriteMessage returns; whether it failed is only logged.  A response that
\* json.Marshal rejects (a feature that is NaN) is dropped without a word.
WriteReturns(c) ==
  /\ wpc[c] = "writing"
  /\ wpc' = [wpc EXCEPT ![c] = "select"]
  /\ \/ out' = [out EXCEPT ![c] = IF wcur[c] = None THEN @ ELSE Append(@, wcur[c])]
     \/ "unencodable" \in Adversity /\ wcur[c] # None /\ UNCHANGED out
  /\ wcur' = [wcur EXCEPT ![c] = None]
  /\ UNCHANGED <<closed, closeVars, handlerVars, readerVars, senderVars, conns, mu, wg>>

Writer(c) ==
  \/ ServerQuits(c) \/ ReadDone(c) \/ OnClosed(c) \/ WriterReturns(c)
  \/ Ping(c) \/ WriteReturns(c) \/ \E t \in Threads : ReceiveResponse(t, c)
-----------------------------------------------------------------------------
(* wsConn.handleRead *)

\* conn.Close has been called on c's socket.
SocketClosed(c) == c \in closed \/ wpc[c] \in {"closeOnQuit", "closeOnDone"}

\* A well-formed message arrives and gets its ReqId; the goroutine goes on to
\* XFace.DoFeature, a send on an unbuffered channel.
ReadMessage(c) ==
  /\ rpc[c] = "read" /\ ~SocketClosed(c)
  /\ nextId < MaxReq
  /\ rid' = [rid EXCEPT ![c] = nextId]
  /\ asked' = [asked EXCEPT ![c] = @ \cup {nextId}]
  /\ nextId' = nextId + 1
  /\ rpc' = [rpc EXCEPT ![c] = "submit"]
  /\ UNCHANGED <<closeVars, handlerVars, writerVars, senderVars, conns, mu, wg>>

\* ReadMessage or Unmarshal fails: the socket is closed, the client is gone, its
\* pong is overdue, or the message is not JSON.  The deferred send on done follows.
ReadFails(c) ==
  /\ rpc[c] = "read"
  /\ rpc' = [rpc EXCEPT ![c] = "done"]
  /\ UNCHANGED <<rid, asked, nextId, closeVars, handlerVars, writerVars, senderVars, conns, mu, wg>>

\* DoFeature returns: the engine has received the request.
Submitted(c) ==
  /\ rpc[c] = "submit"
  /\ rpc' = [rpc EXCEPT ![c] = "read"]
  /\ rid' = [rid EXCEPT ![c] = 0]
  /\ UNCHANGED <<asked, nextId, closeVars, handlerVars, writerVars, senderVars, conns, mu, wg>>

Reader(c) == ReadMessage(c) \/ ReadFails(c) \/ Submitted(c)
-----------------------------------------------------------------------------
(* server.send *)

\* Thread t calls send(k, r), which goes for mu.
Send(t, k, r) ==
  /\ spc[t] = "idle"
  /\ spc' = [spc EXCEPT ![t] = "lock"]
  /\ sconn' = [sconn EXCEPT ![t] = k]
  /\ sresp' = [sresp EXCEPT ![t] = r]
  /\ UNCHANGED <<starget, closeVars, handlerVars, writerVars, readerVars, conns, mu, wg>>

\* Mutant of SendLookup: the lock is released before the channel send.
LookupThenUnlock(t) ==
  /\ spc[t] = "lock" /\ mu = None
  /\ \/ /\ sconn[t] \in DOMAIN conns
        /\ starget' = [starget EXCEPT ![t] = conns[sconn[t]]]
        /\ spc' = [spc EXCEPT ![t] = "chan"]
     \/ /\ sconn[t] \notin DOMAIN conns
        /\ spc' = [spc EXCEPT ![t] = "return"]
        /\ UNCHANGED starget
  /\ UNCHANGED <<sconn, sresp, mu, closeVars, handlerVars, writerVars, readerVars, conns, wg>>

\* With mu held: the lookup.  A connection that is gone ends the call; otherwise
\* t waits on the connection's writeCh, and keeps mu.
SendLookup(t) ==
  /\ spc[t] = "lock" /\ mu = None
  /\ \/ /\ sconn[t] \in DOMAIN conns
        /\ mu' = t
        /\ starget' = [starget EXCEPT ![t] = conns[sconn[t]]]
        /\ spc' = [spc EXCEPT ![t] = "chan"]
     \/ /\ sconn[t] \notin DOMAIN conns
        /\ spc' = [spc EXCEPT ![t] = "return"]
        /\ UNCHANGED <<mu, starget>>
  /\ UNCHANGED <<sconn, sresp, closeVars, handlerVars, writerVars, readerVars, conns, wg>>

SendReturns(t) ==
  /\ spc[t] = "return"
  /\ spc' = [spc EXCEPT ![t] = "idle"]
  /\ sconn' = [sconn EXCEPT ![t] = 0]
  /\ sresp' = [sresp EXCEPT ![t] = None]
  /\ starget' = [starget EXCEPT ![t] = None]
  /\ UNCHANGED <<closeVars, handlerVars, writerVars, readerVars, conns, mu, wg>>
-----------------------------------------------------------------------------
Server == Start \/ AssignServer \/ Listen \/ ServeReturns \/ CloseHttp \/ ReceiveQuit \/ WaitConns

\* On its own the server is driven by threads that send anything to anyone.
Sender(t) ==
  \/ SendLookup(t) \/ SendReturns(t)
  \/ \E k \in 0..MaxSeq, r \in Responses : Send(t, k, r)

Next ==
  \/ Server
  \/ \E c \in Conns : Handler(c) \/ Writer(c) \/ Reader(c)
  \/ \E t \in Threads : Sender(t)

Spec == Init /\ [][Next]_vars
-----------------------------------------------------------------------------
Live(c) == wpc[c] \notin {"none", "exited"}

\* wg is a natural number: Go panics on a WaitGroup counter below zero.
TypeOK ==
  /\ lpc \in {"off", "created", "assigned", "serving", "quitting", "exited"}
  /\ http \in {"open", "shut"}
  /\ cpc \in {"up", "quit", "wait", "closed", "failed"}
  /\ ctx \in {"live", "cancelled"}
  /\ wg \in Nat /\ seq \in Nat /\ nextId \in Nat
  /\ DOMAIN conns \subseteq Nat /\ conns \in [DOMAIN conns -> Conns]
  /\ mu \in Threads \cup {None}
  /\ hpc \in [Conns -> {"idle", "key", "insert", "add", "start", "load", "store", "done"}]
  /\ hseq \in [Conns -> Nat] /\ connSeq \in [Conns -> Nat]
  /\ wpc \in [Conns -> {"none", "select", "closeOnQuit", "closeOnDone", "writing", "return", "exited"}]
  /\ wcur \in [Conns -> Responses \cup {None}]
  /\ closed \in SUBSET Conns
  /\ out \in [Conns -> Seq(Responses)]
  /\ rpc \in [Conns -> {"none", "read", "submit", "done", "exited"}]
  /\ rid \in [Conns -> Nat] /\ asked \in [Conns -> SUBSET Nat]
  /\ spc \in [Threads -> {"idle", "lock", "chan", "return"}]
  /\ sconn \in [Threads -> Nat]
  /\ sresp \in [Threads -> Responses \cup {None}]
  /\ starget \in [Threads -> Conns \cup {None}]

\* No two connections have been given the same number: s.seq is read and advanced
\* without a lock, so two handlers that run at a time give the same one.
OwnNumbers ==
  \A c, d \in Conns : hpc[c] # "idle" /\ hpc[d] # "idle" /\ connSeq[c] = connSeq[d] => c = d

\* As long as connections have numbers of their own, the one found by send(connId, ...)
\* stays the one registered under connId, with a goroutine that can still receive, until
\* the response is handed over: send never waits on a goroutine that is gone.
SendTargetStaysOpen ==
  OwnNumbers =>
    \A t \in Threads : spc[t] = "chan" =>
      /\ sconn[t] \in DOMAIN conns /\ conns[sconn[t]] = starget[t]
      /\ connSeq[starget[t]] = sconn[t]
      /\ wpc[starget[t]] \notin {"return", "exited"}

\* What the done channel is for (conn.go: "we cannot quit now, we have to wait
\* for the read goroutine"): the write goroutine never ends before the read one.
ReaderEndsFirst ==
  \A c \in Conns : wpc[c] \in {"return", "exited"} => rpc[c] = "exited"

\* wg counts the write goroutines and those about to be started, so when close returns
\* from wg.Wait no connection is running, and no handler is between Add and start.
WaitSeesEveryConn ==
  [][cpc = "wait" /\ cpc' = "closed" => \A c \in Conns : ~Live(c) /\ hpc[c] # "start"]_vars
=============================================================================
