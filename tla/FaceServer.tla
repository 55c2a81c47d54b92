------------------------------ MODULE FaceServer ------------------------------
(***************************************************************************)
(* server/app.go: the whole server process.  App.Run brings up the engine  *)
(* (XFace), the shell and the websocket server (WsServer), loops until a   *)
(* stop command, and takes everything down again in its deferred function. *)
(* The parts meet in joint steps:                                          *)
(*   - a read goroutine's DoFeature is received by run (Submit);           *)
(*   - run's and the workers' OnCompleted is server.send (Complete,        *)
(*     CompleteReturns): the threads of WsServer are those of XFace;       *)
(*   - Run's defer calls server.close and then XFace.UnInit.               *)
(* The shell appears as what it does to the App: a stop command, Close.    *)
(***************************************************************************)
EXTENDS Naturals, Sequences, FiniteSets, Functions

CONSTANTS
  Conns, Workers, Run, None,
  MaxSeq, MaxReq,       \* bounds: see WsServer
  CIntMod,              \* see XFace
  Adversity             \* what the environment may do: see below, WsServer and XFace

(***************************************************************************)
(* Adversity may also hold                                                 *)
(*   "abrupt leave": a client leaves with a request of its own unanswered; *)
(*   "abrupt stop": a stop command comes, or messages come after one,      *)
(*      while some client waits for an answer;                             *)
(*   "stop at boot": a stop command comes before the main loop has begun;  *)
(*   "boot error": the engine or the shell cannot be started.              *)
(***************************************************************************)
ReqIds == 0..(MaxReq - 1)
ConnIds == 0..MaxSeq

ASSUME FaceServerAssumption ==
  /\ IsFiniteSet(Conns)
  /\ Run \notin Workers /\ None \notin Workers \cup {Run}
  /\ None \notin [id : ReqIds, conn : ConnIds] \cup [req : ReqIds, img : ReqIds]
  /\ MaxSeq \in Nat /\ MaxReq \in Nat /\ CIntMod \in Nat \ {0}

VARIABLES
  apc,       \* App.Run's place
  stop       \* app.ctx

\* XFace's state and WsServer's, see there.
VARIABLES reqs, xmu, xctx, pc, job, img, inLib, lib, accepted, answered
VARIABLES lpc, http, cpc, ctx, wg, seq, conns, mu, hpc, hseq, connSeq,
          wpc, wcur, closed, out, rpc, rid, asked, nextId, spc, sconn, sresp, starget

E == INSTANCE XFace

Threads == E!EngineThreads
Responses == E!EngineResponses

W == INSTANCE WsServer

appVars == <<apc, stop>>
engineVars == <<reqs, xmu, xctx, pc, job, img, inLib, lib, accepted, answered>>
wsVars == <<lpc, http, cpc, ctx, wg, seq, conns, mu, hpc, hseq, connSeq,
            wpc, wcur, closed, out, rpc, rid, asked, nextId, spc, sconn, sresp, starget>>
vars == <<appVars, engineVars, wsVars>>

Init ==
  /\ apc = "init" /\ stop = "no"
  /\ E!Init /\ W!Init
-----------------------------------------------------------------------------
(* App.Run: each step of it, and the calls into the parts *)

AppGoto(there) == apc' = there /\ UNCHANGED stop

\* Init; on an error Run returns, and its defer finds neither ws nor cmd.
InitFace ==
  /\ apc = "init"
  /\ \/ E!InitEngine /\ AppGoto("open")
     \/ "boot error" \in Adversity /\ AppGoto("uninit") /\ UNCHANGED engineVars
  /\ UNCHANGED wsVars

\* app.cmd.Open: from its success on, stop commands are served.
OpenShell ==
  /\ apc = "open"
  /\ \/ AppGoto("start")
     \/ "boot error" \in Adversity /\ AppGoto("uninit")
  /\ UNCHANGED <<engineVars, wsVars>>

StartWs ==
  /\ apc = "start" /\ W!Start
  /\ AppGoto("loop")
  /\ UNCHANGED engineVars

\* The ticker's branch: State() goes for the server's mu ...
Tick ==
  /\ apc = "loop"
  /\ AppGoto("state")
  /\ UNCHANGED <<engineVars, wsVars>>

\* ... and reads the number of connections under it.
State ==
  /\ apc = "state" /\ mu = None
  /\ AppGoto("loop")
  /\ UNCHANGED <<engineVars, wsVars>>

LeaveLoop ==
  /\ apc = "loop" /\ stop = "yes"
  /\ AppGoto("close")
  /\ UNCHANGED <<engineVars, wsVars>>

\* Mutant of CloseWs: the engine is taken down at once.
CloseWsLast ==
  /\ apc = "close"
  /\ W!CloseHttp \/ W!ReceiveQuit \/ W!WaitConns
  /\ AppGoto("uninit")
  /\ UNCHANGED engineVars

\* The deferred app.ws.close(), whose error is ignored.
CloseWs ==
  /\ apc = "close"
  /\ W!CloseHttp \/ W!ReceiveQuit \/ W!WaitConns
  /\ AppGoto(IF cpc' \in {"closed", "failed"} THEN "uninit" ELSE "close")
  /\ UNCHANGED engineVars

\* The deferred UnInit: cancel, wait for run, free the library (if it was made).
UnInitFace ==
  /\ apc = "uninit"
  /\ \/ E!CancelEngine /\ AppGoto("uninit")
     \/ E!UnInitLib /\ AppGoto("cmdclose")
     \/ xctx = "cancelled" /\ lib = "nil" /\ AppGoto("cmdclose") /\ UNCHANGED engineVars
  /\ UNCHANGED wsVars

\* The deferred app.cmd.Close(); main returns and takes every goroutine with it.
Exit ==
  /\ apc = "cmdclose"
  /\ AppGoto("exited")
  /\ UNCHANGED <<engineVars, wsVars>>

App ==
  \/ InitFace \/ OpenShell \/ StartWs \/ Tick \/ State \/ LeaveLoop
  \/ CloseWs \/ UnInitFace \/ Exit
-----------------------------------------------------------------------------
(* the parts alone and together *)

\* The process is there until main returns or a panic ends it.
Alive == apc \notin {"exited", "crashed"}

EngineDo(A) == Alive /\ A /\ UNCHANGED <<appVars, wsVars>>
WsDo(A) == Alive /\ A /\ UNCHANGED <<appVars, engineVars>>
Jointly(A, B) == Alive /\ A /\ B /\ UNCHANGED appVars

Engine(k) == EngineDo(E!RunStep) \/ EngineDo(E!Worker(k))

\* run's panic ends the process.
Crash ==
  /\ E!Panic
  /\ apc' = "crashed"
  /\ UNCHANGED <<stop, wsVars>>

\* The serve goroutine; a connection's handler and write goroutine.
Serve == W!AssignServer \/ W!Listen \/ W!ServeReturns
Ws(c) == WsDo(Serve) \/ WsDo(W!Handler(c)) \/ WsDo(W!Writer(c))

\* Mutant of Submit: the ConnId is read off the server when the request is handed over.
SubmitAsLatest(c) == Jointly(W!Submitted(c), E!Accept([id |-> rid[c], conn |-> seq]))

\* DoFeature: handleRead's msg, with the ReqId and ConnId set, reaches run.
Submit(c) == Jointly(W!Submitted(c), E!Accept([id |-> rid[c], conn |-> connSeq[c]]))

\* onCompleted: OnCompleted(r.ConnId, resp) calls ws.send(connId, resp).
Complete(t) == Jointly(E!CallOnCompleted(t), W!Send(t, job[t].conn, E!ResponseOf(t)))
SendStep(t) == WsDo(W!SendLookup(t))
CompleteReturns(t) == Jointly(W!SendReturns(t), E!OnCompletedReturns(t))

\* The select of c's write goroutine takes a branch other than the ticker's.
Select(c) ==
  W!ServerQuits(c) \/ W!ReadDone(c) \/ \E t \in Threads : W!ReceiveResponse(t, c)
-----------------------------------------------------------------------------
(* the environment: the shell's clients, the websocket clients *)

Delivered(c, i) == \E k \in DOMAIN out[c] : out[c][k].req = i
\* A client is still there and has a request of its own unanswered.
Waiting(c) == rpc[c] \in {"read", "submit"} /\ \E i \in asked[c] : ~Delivered(c, i)

\* OnMessage with "stop" or "quit": app.Quit().
StopCommand ==
  /\ stop = "no"
  /\ apc \in {"loop", "state"} \/ ("stop at boot" \in Adversity /\ apc = "start")
  /\ (\A c \in Conns : ~Waiting(c)) \/ "abrupt stop" \in Adversity
  /\ stop' = "yes"
  /\ UNCHANGED <<apc, engineVars, wsVars>>

ClientSends(c) ==
  /\ stop = "no" \/ "abrupt stop" \in Adversity
  /\ WsDo(W!ReadMessage(c))

\* The client goes away, or sends what is not JSON.
ClientLeaves(c) ==
  /\ ~Waiting(c) \/ "abrupt leave" \in Adversity
  /\ WsDo(W!ReadFails(c))

\* The read goroutine notices that the server has closed the socket.
SocketFails(c) ==
  /\ W!SocketClosed(c)
  /\ WsDo(W!ReadFails(c))
-----------------------------------------------------------------------------
Next ==
  \/ App \/ Crash \/ StopCommand
  \/ \E k \in Workers : Engine(k)
  \/ \E c \in Conns : Ws(c) \/ Submit(c) \/ ClientSends(c) \/ ClientLeaves(c) \/ SocketFails(c)
  \/ \E t \in Threads : Complete(t) \/ SendStep(t) \/ CompleteReturns(t)

Spec == Init /\ [][Next]_vars

(***************************************************************************)
(* Go runs every goroutine (WF) and a select picks at random among its     *)
(* ready branches: pings and the App's ticker, which come for ever, do not *)
(* keep it from the others (SF).  The library calls back for every image,  *)
(* and a write to a client returns.  Clients and operators owe nothing.    *)
(* Mutexes and channels only get WF, though Go serves their waiters in     *)
(* turn: with MaxReq and MaxSeq they are contended finitely often.         *)
(***************************************************************************)
Fairness ==
  /\ WF_vars(App /\ apc # "loop") /\ SF_vars(LeaveLoop)
  /\ WF_vars(WsDo(Serve))
  /\ WF_vars(EngineDo(E!RunStep))
  /\ \A k \in Workers : WF_vars(EngineDo(E!Worker(k)))
  /\ \A t \in Threads : WF_vars(Complete(t) \/ SendStep(t) \/ CompleteReturns(t))
  /\ \A c \in Conns :
       /\ WF_vars(hpc[c] # "idle" /\ WsDo(W!Handler(c)))
       /\ SF_vars(WsDo(Select(c)))
       /\ WF_vars(WsDo(W!OnClosed(c) \/ W!WriteReturns(c) \/ W!WriterReturns(c)))
       /\ WF_vars(Submit(c)) /\ WF_vars(SocketFails(c))

FairSpec == Spec /\ Fairness
-----------------------------------------------------------------------------
TypeOK ==
  /\ apc \in {"init", "open", "start", "loop", "state", "close", "uninit", "cmdclose",
             "exited", "crashed"}
  /\ stop \in {"no", "yes"}
  /\ E!TypeOK /\ W!TypeOK

\* A response in a connection's hands is one of its own requests'.
AnswersOwn(c) ==
  /\ wcur[c] # None => wcur[c].req \in asked[c]
  /\ \A k \in DOMAIN out[c] : out[c][k].req \in asked[c]

\* A response carries the features of its own request's image, whichever connection
\* has it; and until two connections have been given one number, what a connection's
\* goroutine is writing, or has written, answers a request read from that connection
\* (server.go, send: "find the connection of connId and send the response to it").
RightConnection ==
  \A c \in Conns :
    /\ wcur[c] # None => wcur[c].img = wcur[c].req
    /\ \A k \in DOMAIN out[c] : out[c][k].img = out[c][k].req
    /\ W!OwnNumbers => AnswersOwn(c)

\* Whatever the goroutines do, clients see the service of FaceService: no request
\* answered twice or out of nothing, no response to another's request as long as no
\* two connections share a number.
Service == INSTANCE FaceService WITH
             inbox <- [c \in Conns |-> [k \in DOMAIN out[c] |-> out[c][k].req]],
             mixed <- ~W!OwnNumbers
ImplementsService == Service!Spec

\* The engine is taken down last (the order of Run's defer): once run has
\* stopped receiving, no read goroutine is left waiting in DoFeature and none
\* can still get there.
NoReaderStranded ==
  pc[Run] = "exited" => \A c \in Conns : rpc[c] \in {"none", "exited"}

\* README, "--cmd=stop  // stop faceserver": a stop command makes the process exit.
StopsOnCommand == (stop = "yes") ~> (apc = "exited")

\* Every request that a client's read goroutine hands over is eventually answered on
\* its connection, through the engine, x.mu, the server's mu and the connection's
\* goroutine, unless its callback was over before its registration (XFace).
EveryRequestDelivered ==
  \A c \in Conns, i \in ReqIds :
    (rpc[c] = "submit" /\ rid[c] = i) ~> (Delivered(c, i) \/ E!Dropped(i))
=============================================================================
