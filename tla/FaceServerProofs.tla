---------------------------- MODULE FaceServerProofs ----------------------------
(***************************************************************************)
(* The whole process, for any connections, library threads and bounds: its *)
(* steps are steps of XFace and of WsServer, so what is proved of the two  *)
(* holds of them here, and the two together keep what FaceService promises.*)
(***************************************************************************)
EXTENDS FaceServer, TLAPS

EP == INSTANCE XFaceProofs
WP == INSTANCE WsServerProofs

-----------------------------------------------------------------------------
(* The invariant *)

Places == {"init", "open", "start", "loop", "state", "close", "uninit", "cmdclose", "exited", "crashed"}

\* A thread is in server.send exactly while the engine has it in OnCompleted, with
\* the arguments onCompleted gave it.
Calls ==
  apc # "crashed" =>
    \A t \in Threads :
      /\ pc[t] = "inCall" <=> spc[t] # "idle"
      /\ pc[t] = "inCall" =>
           /\ sconn[t] = job[t].conn /\ sresp[t] = [req |-> job[t].id, img |-> img[t]]
           /\ job[t].id \in answered

\* The numbers of connections are small enough.
InRange == \A c \in Conns : connSeq[c] \in ConnIds

\* A request is asked for once, on one connection, and run has it only after that.
Asked ==
  /\ nextId <= MaxReq
  /\ \A c \in Conns :
       /\ \A i \in asked[c] : i < nextId
       /\ \A d \in Conns \ {c} : asked[c] \cap asked[d] = {}
       /\ rpc[c] = "submit" => rid[c] \in asked[c] /\ ~EP!Known(rid[c])

Origin(r, c) == r.id \in asked[c] /\ r.conn = connSeq[c] /\ hpc[c] # "idle"

Origins == \A r \in accepted : \E c \in Conns : Origin(r, c)

Glue == Calls /\ InRange /\ Asked /\ Origins
Base == apc \in Places /\ stop \in {"no", "yes"} /\ EP!Control /\ WP!Control /\ Glue

\* A response that has reached a connection carries its own request's image, and no
\* thread is still about to send one for that request; it is for that connection as
\* long as no two share a number.
Got(c, r) == wcur[c] = r \/ \E k \in DOMAIN out[c] : out[c][k] = r

Arrived(c, r) ==
  /\ r.img = r.req /\ r.req \in answered
  /\ \E d \in Conns : r.req \in asked[d]
  /\ WP!OwnNumbers => r.req \in asked[c]
  /\ apc # "crashed" =>
       \A t \in Threads : spc[t] \in {"lock", "chan"} => job[t].id # r.req

\* No two responses to one request have reached connections.
Arrivals ==
  /\ \A c \in Conns, r \in Responses : Got(c, r) => Arrived(c, r)
  /\ \A c, d \in Conns, r, s \in Responses : Got(c, r) /\ Got(d, s) /\ r.req = s.req => c = d
  /\ \A c \in Conns : \A k \in DOMAIN out[c] : wcur[c] # None => out[c][k].req # wcur[c].req

Answering == EP!Images /\ WP!Registered /\ Arrivals
Inv == Base /\ Answering

\* The App's order of shutdown: the server is closed before the engine is cancelled.
Order ==
  /\ apc \in {"init", "open", "start"} => lpc = "off"
  /\ apc \in {"uninit", "cmdclose", "exited"} => cpc = "closed" \/ lpc = "off"
  /\ apc = "crashed" => pc[Run] = "panicked"
  /\ xctx = "cancelled" => apc \in {"uninit", "cmdclose", "exited", "crashed"}
  /\ pc[Run] = "exited" => xctx = "cancelled"

Shutdown == WP!Quiet /\ Order

-----------------------------------------------------------------------------
(* FaceServer's parts, E and W, are the ones the theorems of EP and WP are about *)

LEMMA EngineSteps ==
  /\ E!InitEngine \/ E!CancelEngine \/ E!UnInitLib \/ E!RunStep \/ E!Panic => EP!Next
  /\ \A k \in Workers : E!Worker(k) => EP!Next
  /\ \A r \in EP!Requests : EP!Fresh(r) /\ E!Accept(r) => EP!Next
  /\ \A t \in Threads : E!CallOnCompleted(t) \/ E!OnCompletedReturns(t) => EP!Next
<1> USE DEF E!EngineThreads, EP!EngineThreads, E!Goto, EP!Goto
<1>1. E!InitEngine \/ E!CancelEngine \/ E!UnInitLib \/ E!Panic => EP!Next
  BY DEF E!InitEngine, EP!InitEngine, E!CancelEngine, EP!CancelEngine, E!UnInitLib, EP!UnInitLib,
         E!Panic, EP!Panic, EP!Next
<1>2. E!RunStep => EP!Next
  BY DEF E!RunStep, EP!RunStep, E!RunReturns, EP!RunReturns, E!LoadImage, EP!LoadImage,
         E!FeatureCall, EP!FeatureCall, E!Register, EP!Register, EP!Next
<1>3. ASSUME NEW k \in Workers PROVE E!Worker(k) => EP!Next
  BY DEF E!Worker, EP!Worker, E!Lookup, EP!Lookup, E!CInt, EP!CInt, E!StartCallback,
         EP!StartCallback, EP!Next
<1>4. ASSUME NEW r \in EP!Requests PROVE EP!Fresh(r) /\ E!Accept(r) => EP!Next
  BY DEF E!Accept, EP!Accept, EP!Next
<1>5. ASSUME NEW t \in Threads PROVE E!CallOnCompleted(t) \/ E!OnCompletedReturns(t) => EP!Next
  BY DEF Threads, EP!Completion, E!CallOnCompleted, EP!CallOnCompleted, E!OnCompletedReturns,
         EP!OnCompletedReturns, EP!Next
<1> QED
  BY <1>1, <1>2, <1>3, <1>4, <1>5

LEMMA ServerSteps ==
  /\ W!Start \/ Serve \/ W!CloseHttp \/ W!ReceiveQuit \/ W!WaitConns => WP!Next
  /\ \A c \in Conns : W!Handler(c) \/ W!Writer(c) \/ W!Reader(c) => WP!Next
  /\ \A t \in Threads : W!SendLookup(t) \/ W!SendReturns(t) => WP!Next
  /\ \A t \in Threads, k \in ConnIds, r \in Responses : W!Send(t, k, r) => WP!Next
<1> USE DEF W!closeVars, W!handlerVars, W!writerVars, W!readerVars, W!senderVars,
            WP!closeVars, WP!handlerVars, WP!writerVars, WP!readerVars, WP!senderVars
<1>1. W!Start \/ Serve \/ W!CloseHttp \/ W!ReceiveQuit \/ W!WaitConns => WP!Server
  BY DEF Serve, WP!Server, W!Start, WP!Start, W!AssignServer, WP!AssignServer, W!Listen, WP!Listen,
         W!ServeReturns, WP!ServeReturns, W!CloseHttp, WP!CloseHttp, W!HandlersIdle,
         WP!HandlersIdle, W!ReceiveQuit, WP!ReceiveQuit, W!WaitConns, WP!WaitConns
<1>2. ASSUME NEW c \in Conns PROVE W!Handler(c) => WP!Handler(c)
  BY DEF W!Handler, WP!Handler, W!Upgrade, WP!Upgrade, W!HandlersIdle, WP!HandlersIdle, W!ReadKey,
         WP!ReadKey, W!OnOpen, WP!OnOpen, W!AddConn, WP!AddConn, W!StartConn, WP!StartConn, W!LoadSeq, WP!LoadSeq,
         W!StoreSeq, WP!StoreSeq
<1>3. ASSUME NEW c \in Conns PROVE W!Writer(c) => WP!Writer(c)
  BY DEF W!Writer, WP!Writer, W!ServerQuits, WP!ServerQuits, W!ReadDone, WP!ReadDone, W!OnClosed,
         WP!OnClosed, W!Restrict, WP!Restrict, W!WriterReturns, WP!WriterReturns, W!Ping, WP!Ping, W!WriteReturns,
         WP!WriteReturns, W!ReceiveResponse, WP!ReceiveResponse
<1>4. ASSUME NEW c \in Conns PROVE W!Reader(c) => WP!Reader(c)
  BY DEF W!Reader, WP!Reader, W!ReadMessage, WP!ReadMessage, W!SocketClosed, WP!SocketClosed,
         W!ReadFails, WP!ReadFails, W!Submitted, WP!Submitted
<1>5. ASSUME NEW t \in Threads PROVE W!SendLookup(t) \/ W!SendReturns(t) => WP!Sender(t)
  BY DEF WP!Sender, W!SendLookup, WP!SendLookup, W!SendReturns, WP!SendReturns
<1>6. ASSUME NEW t \in Threads, NEW k \in ConnIds, NEW r \in Responses
      PROVE  W!Send(t, k, r) => WP!Sender(t)
  BY DEF ConnIds, WP!Sender, W!Send, WP!Send
<1> QED
  BY <1>1, <1>2, <1>3, <1>4, <1>5, <1>6 DEF WP!Next

LEMMA EngineAssumption == EP!XFaceAssumption
<1>1. ReqIds \subseteq Nat /\ ConnIds \subseteq Nat
  BY FaceServerAssumption DEF ReqIds, ConnIds
<1> QED
  BY <1>1, FaceServerAssumption

LEMMA ServerAssumption == WP!WsServerAssumption
<1>1. None \notin Threads
  BY FaceServerAssumption DEF Threads, E!EngineThreads
<1>2. None \notin Responses
  BY FaceServerAssumption DEF Responses, E!EngineResponses
<1> QED
  BY <1>1, <1>2, FaceServerAssumption DEF IsFiniteSet, WP!IsFiniteSet

LEMMA PartTypes == EP!TypeOK /\ WP!TypeOK => E!TypeOK /\ W!TypeOK
<1>1. EP!TypeOK => E!TypeOK
  BY DEF E!TypeOK, EP!TypeOK, E!Requests, EP!Requests, E!EngineThreads, EP!EngineThreads
<1>2. WP!TypeOK => W!TypeOK
  BY DEF W!TypeOK, WP!TypeOK
<1> QED
  BY <1>1, <1>2

LEMMA Starts == Init => EP!Init /\ WP!Init
  BY DEF Init, E!Init, EP!Init, W!Init, WP!Init, E!EngineThreads, EP!EngineThreads

\* What run is handed by a read goroutine is a request, and a new one.
LEMMA SubmitIsAccept ==
  ASSUME Base, NEW c \in Conns, Submit(c)
  PROVE  LET r == [id |-> rid[c], conn |-> connSeq[c]]
         IN  r \in EP!Requests /\ EP!Fresh(r) /\ E!Accept(r)
<1>1. rpc[c] = "submit" /\ E!Accept([id |-> rid[c], conn |-> connSeq[c]])
  BY DEF Submit, Jointly, W!Submitted
<1>2. rid[c] \in asked[c] /\ ~EP!Known(rid[c]) /\ rid[c] < nextId /\ nextId <= MaxReq
  BY <1>1 DEF Base, Glue, Asked
<1>3. rid[c] \in Nat /\ nextId \in Nat /\ connSeq[c] \in ConnIds
  BY DEF Base, Glue, InRange, WP!Control, WP!TypeOK
<1>4. rid[c] \in ReqIds
  BY <1>2, <1>3, FaceServerAssumption DEF ReqIds
<1> QED
  BY <1>1, <1>2, <1>3, <1>4 DEF EP!Requests, EP!Fresh, EP!Known

\* What onCompleted passes to server.send.
LEMMA CompleteSends ==
  ASSUME Base, NEW t \in Threads, pc[t] \in {"call", "inCall"}
  PROVE  job[t].conn \in ConnIds /\ job[t].id \in ReqIds /\ E!ResponseOf(t) \in Responses
<1>1. job[t] \in EP!Requests /\ img[t] \in ReqIds
  BY DEF Threads, E!EngineThreads, Base, EP!Control, EP!TypeOK, EP!EngineThreads
<1> QED
  BY <1>1 DEF EP!Requests, Responses, E!EngineResponses, E!ResponseOf

LEMMA StepsOfParts == Base /\ [Next]_vars => [EP!Next]_(EP!vars) /\ [WP!Next]_(WP!vars)
<1> SUFFICES ASSUME Base, [Next]_vars PROVE [EP!Next]_(EP!vars) /\ [WP!Next]_(WP!vars)
  OBVIOUS
<1>e. UNCHANGED engineVars => UNCHANGED EP!vars
  BY DEF engineVars, EP!vars
<1>w. UNCHANGED wsVars => UNCHANGED WP!vars
  BY DEF wsVars, WP!vars, WP!closeVars, WP!handlerVars, WP!writerVars, WP!readerVars, WP!senderVars
<1>1. CASE App
  BY <1>1, <1>e, <1>w, EngineSteps, ServerSteps
     DEF App, InitFace, OpenShell, StartWs, Tick, State, LeaveLoop, CloseWs, UnInitFace, Exit
<1>2. CASE Crash
  BY <1>2, <1>w, EngineSteps DEF Crash
<1>3. CASE StopCommand
  BY <1>3, <1>e, <1>w DEF StopCommand
<1>4. ASSUME NEW k \in Workers, Engine(k) PROVE EP!Next /\ UNCHANGED WP!vars
  BY <1>4, <1>w, EngineSteps DEF Engine, EngineDo
<1>5. ASSUME NEW c \in Conns, Ws(c) \/ ClientSends(c) \/ ClientLeaves(c) \/ SocketFails(c)
      PROVE  WP!Next /\ UNCHANGED EP!vars
  BY <1>5, <1>e, ServerSteps DEF Ws, ClientSends, ClientLeaves, SocketFails, WsDo, W!Reader
<1>6. ASSUME NEW c \in Conns, Submit(c) PROVE EP!Next /\ WP!Next
  BY <1>6, SubmitIsAccept, EngineSteps, ServerSteps DEF Submit, Jointly, W!Reader
<1>7. ASSUME NEW t \in Threads, Complete(t) PROVE EP!Next /\ WP!Next
  <2>1. pc[t] = "call"
    BY <1>7 DEF Complete, Jointly, E!CallOnCompleted
  <2> QED
    BY <1>7, <2>1, CompleteSends, EngineSteps, ServerSteps DEF Complete, Jointly
<1>8. ASSUME NEW t \in Threads, SendStep(t) PROVE WP!Next /\ UNCHANGED EP!vars
  BY <1>8, <1>e, ServerSteps DEF SendStep, WsDo
<1>9. ASSUME NEW t \in Threads, CompleteReturns(t) PROVE EP!Next /\ WP!Next
  BY <1>9, EngineSteps, ServerSteps DEF CompleteReturns, Jointly
<1>10. CASE UNCHANGED vars
  BY <1>10, <1>e, <1>w DEF vars
<1> QED
  BY <1>1, <1>2, <1>3, <1>4, <1>5, <1>6, <1>7, <1>8, <1>9, <1>10 DEF Next

LEMMA NextControls == Base /\ [Next]_vars => EP!Control' /\ WP!Control'
<1> SUFFICES ASSUME Base, [Next]_vars PROVE EP!Control' /\ WP!Control'
  OBVIOUS
<1>1. EP!Control /\ WP!Control /\ [EP!Next]_(EP!vars) /\ [WP!Next]_(WP!vars)
  BY StepsOfParts DEF Base
<1>2. EP!Control'
  BY <1>1, EngineAssumption, EP!NextControl
<1>3. WP!Control'
  BY <1>1, ServerAssumption, WP!NextControl
<1> QED
  BY <1>2, <1>3

LEMMA NextImagesAndRegistered ==
  EP!NoWrap /\ Inv /\ [Next]_vars => EP!Images' /\ WP!Registered'
<1> SUFFICES ASSUME EP!NoWrap, Inv, [Next]_vars PROVE EP!Images' /\ WP!Registered'
  OBVIOUS
<1>1. EP!Control /\ WP!Control /\ EP!Images /\ WP!Registered
  BY DEF Inv, Base, Answering
<1>2. [EP!Next]_(EP!vars) /\ [WP!Next]_(WP!vars)
  BY StepsOfParts DEF Inv
<1>3. EP!Images'
  BY <1>1, <1>2, EngineAssumption, EP!NextImages
<1>4. WP!Registered'
  BY <1>1, <1>2, ServerAssumption, WP!NextRegistered
<1> QED
  BY <1>3, <1>4

\* What two connections share they keep.
LEMMA OwnBefore == Base /\ [Next]_vars => (WP!OwnNumbers' => WP!OwnNumbers)
<1> SUFFICES ASSUME Base, [Next]_vars PROVE WP!OwnNumbers' => WP!OwnNumbers
  OBVIOUS
<1>1. WP!Control /\ [WP!Next]_(WP!vars)
  BY StepsOfParts DEF Base
<1> QED
  BY <1>1, ServerAssumption, WP!OwnBefore
-----------------------------------------------------------------------------
(* Glue and Arrivals are preserved.  Most steps leave what they are about alone. *)

Frame ==
  /\ UNCHANGED <<connSeq, asked, nextId, rid, accepted, answered, sconn, sresp, out>>
  /\ \A c \in Conns :
       /\ hpc[c] = "idle" <=> hpc'[c] = "idle"
       /\ rpc'[c] = "submit" => rpc[c] = "submit"
       /\ wcur'[c] \in {wcur[c], None}
  /\ apc' # "crashed" =>
       /\ apc # "crashed"
       /\ \A t \in Threads :
            /\ pc'[t] = "inCall" <=> pc[t] = "inCall"
            /\ pc[t] = "inCall" => job'[t] = job[t] /\ img'[t] = img[t]
            /\ spc'[t] = "idle" <=> spc[t] = "idle"
            /\ spc'[t] \in {"lock", "chan"} => spc[t] \in {"lock", "chan"}

LEMMA FrameKeepsGlue == Base /\ Frame => Glue'
<1> SUFFICES ASSUME Base, Frame PROVE Glue'
  OBVIOUS
<1>1. Calls'
  <2> SUFFICES ASSUME apc' # "crashed", NEW t \in Threads
               PROVE  /\ pc'[t] = "inCall" <=> spc'[t] # "idle"
                      /\ pc'[t] = "inCall" =>
                           /\ sconn'[t] = job'[t].conn /\ job'[t].id \in answered'
                           /\ sresp'[t] = [req |-> job'[t].id, img |-> img'[t]]
    BY DEF Calls
  <2>1. /\ pc[t] = "inCall" <=> spc[t] # "idle"
        /\ pc[t] = "inCall" =>
             /\ sconn[t] = job[t].conn /\ job[t].id \in answered
             /\ sresp[t] = [req |-> job[t].id, img |-> img[t]]
    BY DEF Base, Glue, Calls, Frame
  <2> QED
    BY <2>1 DEF Frame
<1>2. InRange'
  BY DEF Base, Glue, InRange, Frame
<1>3. Asked'
  BY DEF Base, Glue, Asked, Frame, EP!Known
<1>4. Origins'
  BY DEF Base, Glue, Origins, Origin, Frame
<1> QED
  BY <1>1, <1>2, <1>3, <1>4 DEF Glue

LEMMA FrameKeepsArrivals == Base /\ Arrivals /\ Frame => Arrivals'
<1> SUFFICES ASSUME Base, Arrivals, Frame PROVE Arrivals'
  OBVIOUS
<1>1. ASSUME NEW c \in Conns, NEW r \in Responses, Got(c, r)' PROVE Got(c, r)
  <2>1. None \notin Responses
    BY FaceServerAssumption DEF Responses, E!EngineResponses
  <2> QED
    BY <1>1, <2>1 DEF Got, Frame
<1>2. WP!OwnNumbers' <=> WP!OwnNumbers
  BY DEF WP!OwnNumbers, Frame
<1>3. ASSUME NEW c \in Conns, NEW r \in Responses, Arrived(c, r) PROVE Arrived(c, r)'
  <2>1. ASSUME apc' # "crashed", NEW t \in Threads, spc'[t] \in {"lock", "chan"}
        PROVE  job'[t].id # r.req
    <3>1. apc # "crashed" /\ spc[t] \in {"lock", "chan"}
      BY <2>1 DEF Frame
    <3>2. pc[t] = "inCall"
      BY <3>1 DEF Base, Glue, Calls
    <3> QED
      BY <1>3, <2>1, <3>1, <3>2 DEF Frame, Arrived
  <2>2. UNCHANGED <<asked, answered>>
    BY DEF Frame
  <2> QED
    BY <1>2, <1>3, <2>1, <2>2 DEF Arrived
<1>4. ASSUME NEW c \in Conns, NEW k \in DOMAIN out'[c], wcur'[c] # None
      PROVE  out'[c][k].req # wcur'[c].req
  BY <1>4 DEF Arrivals, Frame
<1> QED
  BY <1>1, <1>3, <1>4 DEF Arrivals

LEMMA AppFrame == Base /\ (App \/ Crash \/ StopCommand \/ UNCHANGED vars) => Frame
<1> SUFFICES ASSUME Base, App \/ Crash \/ StopCommand \/ UNCHANGED vars PROVE Frame
  OBVIOUS
<1>t. /\ pc \in [Threads -> {"none", "select", "load", "feature", "register", "exited",
                             "panicked", "idle", "lock", "call", "inCall"}]
      /\ Run \in Threads
  BY DEF Base, EP!Control, EP!TypeOK, EP!EngineThreads, Threads, E!EngineThreads
<1> USE DEF appVars, engineVars, wsVars
<1>1. CASE Crash
  BY <1>1 DEF Crash, E!Panic, Frame
<1>2. CASE StopCommand \/ UNCHANGED vars
  BY <1>2 DEF StopCommand, vars, Frame
<1>3. CASE App
  <2> USE DEF AppGoto
  <2>1. CASE InitFace \/ UnInitFace
    BY <1>t, <2>1 DEF InitFace, UnInitFace, E!InitEngine, E!CancelEngine, E!UnInitLib, E!Goto, Frame
  <2>2. CASE OpenShell \/ Tick \/ State \/ LeaveLoop \/ Exit
    BY <2>2 DEF OpenShell, Tick, State, LeaveLoop, Exit, Frame
  <2>3. CASE StartWs \/ CloseWs
    BY <2>3 DEF StartWs, CloseWs, W!Start, W!CloseHttp, W!ReceiveQuit, W!WaitConns, W!closeVars,
                W!handlerVars, W!writerVars, W!readerVars, W!senderVars, Frame
  <2> QED
    BY <1>3, <2>1, <2>2, <2>3 DEF App
<1> QED
  BY <1>1, <1>2, <1>3

LEMMA EngineFrame == ASSUME Base, NEW k \in Workers, Engine(k) PROVE Frame
<1>t. /\ pc \in [Threads -> {"none", "select", "load", "feature", "register", "exited",
                             "panicked", "idle", "lock", "call", "inCall"}]
      /\ job \in [Threads -> EP!Requests \cup {None}] /\ img \in [Threads -> ReqIds \cup {0}]
      /\ Run \in Threads /\ k \in Threads
  BY DEF Base, EP!Control, EP!TypeOK, EP!EngineThreads, Threads, E!EngineThreads
<1> USE DEF EngineDo, Alive, appVars, wsVars, E!Goto, Frame
<1>1. CASE EngineDo(E!RunReturns) \/ EngineDo(E!LoadImage) \/ EngineDo(E!FeatureCall)
  BY <1>1, <1>t DEF E!RunReturns, E!LoadImage, E!FeatureCall
<1>2. CASE EngineDo(E!Register)
  BY <1>2, <1>t DEF E!Register
<1>3. CASE EngineDo(E!Lookup(k))
  BY <1>3, <1>t DEF E!Lookup
<1>4. ASSUME NEW i \in inLib, EngineDo(E!StartCallback(k, i)) PROVE Frame
  BY <1>4, <1>t DEF E!StartCallback
<1> QED
  BY <1>1, <1>2, <1>3, <1>4 DEF Engine, E!RunStep, E!Worker

\* Of the server's own steps, those that are not among the joint ones below.
LEMMA ServerFrame ==
  ASSUME Base, NEW c \in Conns,
         \/ Ws(c) /\ ~WsDo(W!Upgrade(c)) /\ ~WsDo(W!WriteReturns(c))
                  /\ ~\E t \in Threads : WsDo(W!ReceiveResponse(t, c))
         \/ ClientLeaves(c) \/ SocketFails(c)
  PROVE  Frame
<1>t. /\ hpc \in [Conns -> {"idle", "key", "insert", "add", "start", "load", "store", "done"}]
      /\ rpc \in [Conns -> {"none", "read", "submit", "done", "exited"}]
      /\ wcur \in [Conns -> Responses \cup {None}]
  BY DEF Base, WP!Control, WP!TypeOK
<1> USE DEF WsDo, Alive, appVars, engineVars, Frame, W!closeVars, W!handlerVars, W!writerVars,
            W!readerVars, W!senderVars
<1>1. CASE WsDo(Serve)
  BY <1>1 DEF Serve, W!AssignServer, W!Listen, W!ServeReturns
<1>2. CASE WsDo(W!ReadKey(c)) \/ WsDo(W!OnOpen(c)) \/ WsDo(W!AddConn(c))
           \/ WsDo(W!StartConn(c)) \/ WsDo(W!LoadSeq(c)) \/ WsDo(W!StoreSeq(c))
  BY <1>2, <1>t DEF W!ReadKey, W!OnOpen, W!AddConn, W!StartConn, W!LoadSeq, W!StoreSeq
<1>3. CASE WsDo(W!ServerQuits(c)) \/ WsDo(W!ReadDone(c)) \/ WsDo(W!OnClosed(c))
           \/ WsDo(W!WriterReturns(c)) \/ WsDo(W!Ping(c))
  BY <1>3, <1>t DEF W!ServerQuits, W!ReadDone, W!OnClosed, W!WriterReturns, W!Ping
<1>4. CASE ClientLeaves(c) \/ SocketFails(c)
  BY <1>4, <1>t DEF ClientLeaves, SocketFails, W!ReadFails
<1> QED
  BY <1>1, <1>2, <1>3, <1>4 DEF Ws, W!Handler, W!Writer

LEMMA SendFrame == ASSUME Base, NEW t \in Threads, SendStep(t) PROVE Frame
<1>t. spc \in [Threads -> {"idle", "lock", "chan", "return"}]
  BY DEF Base, WP!Control, WP!TypeOK
<1> QED
  BY <1>t DEF SendStep, WsDo, Alive, W!SendLookup, appVars, engineVars, Frame, W!closeVars,
              W!handlerVars, W!writerVars, W!readerVars, W!senderVars
-----------------------------------------------------------------------------
(* The steps at which the parts meet, one by one *)

\* The joint facts that the steps below rest on.
Typed ==
  /\ pc \in [Threads -> {"none", "select", "load", "feature", "register", "exited",
                         "panicked", "idle", "lock", "call", "inCall"}]
  /\ job \in [Threads -> EP!Requests \cup {None}] /\ img \in [Threads -> ReqIds \cup {0}]
  /\ spc \in [Threads -> {"idle", "lock", "chan", "return"}]
  /\ sconn \in [Threads -> Nat] /\ sresp \in [Threads -> Responses \cup {None}]
  /\ connSeq \in [Conns -> Nat] /\ nextId \in Nat /\ seq \in Nat
  /\ hpc \in [Conns -> {"idle", "key", "insert", "add", "start", "load", "store", "done"}]
  /\ rpc \in [Conns -> {"none", "read", "submit", "done", "exited"}]
  /\ rid \in [Conns -> Nat] /\ asked \in [Conns -> SUBSET Nat]
  /\ wcur \in [Conns -> Responses \cup {None}] /\ out \in [Conns -> Seq(Responses)]
  /\ None \notin Responses /\ Run \in Threads

LEMMA BaseTyped == Base => Typed
<1> SUFFICES ASSUME Base PROVE Typed
  OBVIOUS
<1>1. EP!TypeOK /\ WP!TypeOK
  BY DEF Base, EP!Control, WP!Control
<1>2. None \notin Responses /\ Run \in Threads /\ Threads = EP!EngineThreads
  BY FaceServerAssumption DEF Responses, E!EngineResponses, Threads, E!EngineThreads, EP!EngineThreads
<1> QED
  BY <1>1, <1>2 DEF Typed, EP!TypeOK, WP!TypeOK

\* A thread that reports has the request whose image it has, no other thread has
\* it too, and nobody has reported it before the call.
LEMMA Reporting ==
  ASSUME EP!Images, NEW t \in Threads, pc[t] \in {"call", "inCall"}
  PROVE  /\ job[t] \in accepted /\ job[t].id = img[t]
         /\ pc[t] = "call" => job[t].id \notin answered
         /\ \A u \in Threads \ {t} : pc[u] \in {"call", "inCall"} => job[u].id # job[t].id
  BY DEF EP!Images, EP!WorkersImage, EP!RunsImage, Threads, E!EngineThreads

\* A later state keeps what has arrived, while no thread has begun to send it again.
LEMMA StillArrived ==
  ASSUME NEW c \in Conns, NEW r \in Responses, Arrived(c, r),
         \A d \in Conns : asked[d] \subseteq asked'[d], answered \subseteq answered',
         WP!OwnNumbers' => WP!OwnNumbers,
         apc' # "crashed" =>
           /\ apc # "crashed"
           /\ \A t \in Threads : spc'[t] \in {"lock", "chan"} =>
                (spc[t] \in {"lock", "chan"} /\ job'[t] = job[t]) \/ job'[t].id # r.req
  PROVE  Arrived(c, r)'
  BY DEF Arrived

\* Nor does a connection get a response by such a step.
LEMMA StillArrivals ==
  ASSUME Arrivals, UNCHANGED <<wcur, out>>,
         \A c \in Conns, r \in Responses : Arrived(c, r) => Arrived(c, r)'
  PROVE  Arrivals'
<1>1. \A c \in Conns, r \in Responses : Got(c, r)' <=> Got(c, r)
  BY DEF Got
<1> QED
  BY <1>1 DEF Arrivals

LEMMA UpgradeKeepsGlue ==
  ASSUME Base, NEW c \in Conns, WsDo(W!Upgrade(c)) PROVE Glue' /\ (Arrivals => Arrivals')
<1>t. Typed /\ Glue
  BY BaseTyped DEF Base
<1>1. /\ hpc[c] = "idle" /\ seq < MaxSeq /\ apc # "crashed"
      /\ connSeq' = [connSeq EXCEPT ![c] = seq] /\ hpc' = [hpc EXCEPT ![c] = "key"]
      /\ UNCHANGED <<apc, engineVars, wpc, wcur, out, rpc, rid, asked, nextId, spc, sconn, sresp>>
  BY DEF WsDo, Alive, W!Upgrade, appVars, W!writerVars, W!readerVars, W!senderVars
<1>2. Calls' /\ Asked'
  BY <1>t, <1>1 DEF Glue, Calls, Asked, EP!Known, engineVars
<1>3. seq \in ConnIds
  BY <1>t, <1>1, FaceServerAssumption DEF Typed, ConnIds
<1>4. InRange'
  BY <1>t, <1>1, <1>3 DEF Typed, Glue, InRange
<1>5. Origins'
  BY <1>t, <1>1 DEF Typed, Glue, Origins, Origin, engineVars
<1>6. WP!OwnNumbers' => WP!OwnNumbers
  BY <1>t, <1>1 DEF Typed, WP!OwnNumbers
<1>7. ASSUME NEW d \in Conns, NEW r \in Responses, Arrived(d, r) PROVE Arrived(d, r)'
  BY <1>t, <1>1, <1>6, <1>7, StillArrived DEF engineVars
<1>8. Arrivals => Arrivals'
  BY <1>1, <1>7, StillArrivals
<1> QED
  BY <1>2, <1>4, <1>5, <1>8 DEF Glue

LEMMA ClientSendsKeepsGlue ==
  ASSUME Base, NEW c \in Conns, ClientSends(c) PROVE Glue' /\ (Arrivals => Arrivals')
<1>t. Typed /\ Glue
  BY BaseTyped DEF Base
<1>1. /\ nextId < MaxReq /\ nextId' = nextId + 1
      /\ rid' = [rid EXCEPT ![c] = nextId] /\ rpc' = [rpc EXCEPT ![c] = "submit"]
      /\ asked' = [asked EXCEPT ![c] = @ \cup {nextId}]
      /\ UNCHANGED <<apc, engineVars, hpc, connSeq, wcur, out, spc, sconn, sresp>>
  BY DEF ClientSends, WsDo, W!ReadMessage, appVars, W!handlerVars, W!writerVars, W!senderVars
<1>2. Calls' /\ InRange'
  BY <1>t, <1>1 DEF Glue, Calls, InRange, engineVars
<1>3. Origins'
  BY <1>t, <1>1 DEF Typed, Glue, Origins, Origin, engineVars
<1>4. Asked'
  <2>1. ~EP!Known(nextId)
    BY <1>t DEF Typed, Glue, Asked, Origins, Origin, EP!Known
  <2>2. nextId' <= MaxReq
    BY <1>t, <1>1, FaceServerAssumption DEF Typed
  <2>3. \A i : EP!Known(i)' <=> EP!Known(i)
    BY <1>1 DEF EP!Known, engineVars
  <2>4. ASSUME NEW d \in Conns PROVE \A i \in asked'[d] : i < nextId'
    BY <1>t, <1>1 DEF Typed, Glue, Asked
  <2>5. \A d \in Conns : nextId \notin asked[d]
    BY <1>t DEF Typed, Glue, Asked
  <2>6. ASSUME NEW d \in Conns, NEW e \in Conns \ {d} PROVE asked'[d] \cap asked'[e] = {}
    BY <1>t, <1>1, <2>5 DEF Typed, Glue, Asked
  <2>7. ASSUME NEW d \in Conns, rpc'[d] = "submit" PROVE rid'[d] \in asked'[d] /\ ~EP!Known(rid[d])'
    <3>1. CASE d = c
      BY <1>t, <1>1, <2>1, <2>3, <3>1 DEF Typed
    <3>2. CASE d # c
      BY <1>t, <1>1, <2>3, <2>7, <3>2 DEF Typed, Glue, Asked
    <3> QED
      BY <3>1, <3>2
  <2> QED
    BY <2>2, <2>4, <2>6, <2>7 DEF Asked
<1>5. WP!OwnNumbers' => WP!OwnNumbers
  BY <1>1 DEF WP!OwnNumbers
<1>6. ASSUME NEW d \in Conns, NEW r \in Responses, Arrived(d, r) PROVE Arrived(d, r)'
  BY <1>t, <1>1, <1>5, <1>6, StillArrived DEF Typed, engineVars
<1>7. Arrivals => Arrivals'
  BY <1>1, <1>6, StillArrivals
<1> QED
  BY <1>2, <1>3, <1>4, <1>7 DEF Glue

LEMMA SubmitKeepsGlue ==
  ASSUME Base, NEW c \in Conns, Submit(c) PROVE Glue' /\ (Arrivals => Arrivals')
<1>t. Typed /\ Glue /\ WP!Lives
  BY BaseTyped DEF Base, WP!Control
<1> DEFINE new == [id |-> rid[c], conn |-> connSeq[c]]
<1>1. /\ apc # "crashed" /\ rpc[c] = "submit" /\ pc[Run] = "select"
      /\ rpc' = [rpc EXCEPT ![c] = "read"] /\ rid' = [rid EXCEPT ![c] = 0]
      /\ accepted' = accepted \cup {new}
      /\ pc' = [pc EXCEPT ![Run] = "load"]
      /\ \A t \in Threads \ {Run} : job'[t] = job[t] /\ img'[t] = img[t]
      /\ UNCHANGED <<apc, answered, hpc, connSeq, wcur, out, spc, sconn, sresp, asked, nextId>>
  BY <1>t DEF Typed, Submit, Jointly, Alive, W!Submitted, E!Accept, E!Goto, appVars, W!handlerVars,
              W!writerVars, W!senderVars
<1>2. Calls' /\ InRange'
  BY <1>t, <1>1 DEF Typed, Glue, Calls, InRange
<1>3. Asked'
  BY <1>t, <1>1 DEF Typed, Glue, Asked, EP!Known
<1>4. Origin(new, c)
  BY <1>t, <1>1 DEF Glue, Asked, Origin, WP!Lives
<1>5. Origins'
  BY <1>t, <1>1, <1>4 DEF Glue, Origins, Origin
<1>6. spc[Run] = "idle"
  BY <1>t, <1>1 DEF Typed, Glue, Calls
<1>7. WP!OwnNumbers' => WP!OwnNumbers
  BY <1>1 DEF WP!OwnNumbers
<1>8. ASSUME NEW d \in Conns, NEW r \in Responses, Arrived(d, r) PROVE Arrived(d, r)'
  BY <1>1, <1>6, <1>7, <1>8, StillArrived
<1>9. Arrivals => Arrivals'
  BY <1>1, <1>8, StillArrivals
<1> QED
  BY <1>2, <1>3, <1>5, <1>9 DEF Glue

LEMMA CompleteKeepsGlue ==
  ASSUME Base, NEW t \in Threads, Complete(t) PROVE Glue' /\ (EP!Images /\ Arrivals => Arrivals')
<1>t. Typed /\ Glue
  BY BaseTyped DEF Base
<1>1. /\ apc # "crashed" /\ pc[t] = "call" /\ spc[t] = "idle"
      /\ pc' = [pc EXCEPT ![t] = "inCall"] /\ spc' = [spc EXCEPT ![t] = "lock"]
      /\ answered' = answered \cup {job[t].id}
      /\ sconn' = [sconn EXCEPT ![t] = job[t].conn]
      /\ sresp' = [sresp EXCEPT ![t] = [req |-> job[t].id, img |-> img[t]]]
      /\ UNCHANGED <<apc, job, img, accepted, hpc, connSeq, wcur, out, rpc, rid, asked, nextId>>
  BY DEF Complete, Jointly, Alive, E!CallOnCompleted, E!ResponseOf, E!Goto, W!Send, appVars,
         W!handlerVars, W!writerVars, W!readerVars
<1>2. Calls'
  BY <1>t, <1>1 DEF Typed, Glue, Calls
<1>3. InRange' /\ Asked' /\ Origins'
  BY <1>t, <1>1 DEF Glue, InRange, Asked, EP!Known, Origins, Origin
<1>4. ASSUME EP!Images, Arrivals PROVE Arrivals'
  <2>1. job[t].id \notin answered
    BY <1>1, <1>4, Reporting
  <2>2. WP!OwnNumbers' => WP!OwnNumbers
    BY <1>1 DEF WP!OwnNumbers
  <2>3. ASSUME NEW d \in Conns, NEW r \in Responses, Arrived(d, r) PROVE Arrived(d, r)'
    <3>1. job[t].id # r.req
      BY <2>1, <2>3 DEF Arrived
    <3> QED
      BY <1>t, <1>1, <2>2, <2>3, <3>1, StillArrived DEF Typed
  <2> QED
    BY <1>1, <1>4, <2>3, StillArrivals
<1> QED
  BY <1>2, <1>3, <1>4 DEF Glue

\* The connection that a waiting thread has found is the one its request came from.
LEMMA TargetAsked ==
  ASSUME Inv, apc # "crashed", NEW t \in Threads, spc[t] = "chan", starget[t] \in Conns
  PROVE  /\ \E d \in Conns : job[t].id \in asked[d]
         /\ WP!OwnNumbers => job[t].id \in asked[starget[t]]
         /\ job[t].id \in answered /\ img[t] = job[t].id
         /\ sresp[t] = [req |-> job[t].id, img |-> img[t]]
<1>t. Typed /\ Glue /\ WP!TypeOK /\ EP!Images /\ WP!Registered
  BY BaseTyped DEF Inv, Base, Answering, WP!Control
<1>1. /\ pc[t] = "inCall" /\ sconn[t] = job[t].conn /\ job[t].id \in answered
      /\ sresp[t] = [req |-> job[t].id, img |-> img[t]]
  BY <1>t DEF Glue, Calls
<1>2. job[t] \in accepted /\ img[t] = job[t].id
  BY <1>t, <1>1, Reporting
<1>3. PICK d \in Conns : Origin(job[t], d)
  BY <1>t, <1>2 DEF Glue, Origins
<1>4. ASSUME WP!OwnNumbers PROVE starget[t] = d
  <2>1. WP!Entries /\ WP!Targets
    BY <1>t, <1>4 DEF WP!Registered, WP!Registry
  <2>2. connSeq[starget[t]] = sconn[t] /\ hpc[starget[t]] # "idle"
    BY <1>t, <2>1 DEF WP!Targets, WP!Entries, WP!TypeOK
  <2> QED
    BY <1>1, <1>3, <1>4, <2>2 DEF Origin, WP!OwnNumbers
<1> QED
  BY <1>1, <1>2, <1>3, <1>4 DEF Origin

LEMMA ReceiveKeepsGlue ==
  ASSUME Base, NEW c \in Conns, NEW t \in Threads, WsDo(W!ReceiveResponse(t, c))
  PROVE  Glue' /\ (Answering => Arrivals')
<1>t. Typed /\ Glue
  BY BaseTyped DEF Base
<1>1. /\ apc # "crashed" /\ spc[t] = "chan" /\ starget[t] = c
      /\ wcur' = [wcur EXCEPT ![c] = sresp[t]] /\ spc' = [spc EXCEPT ![t] = "return"]
      /\ UNCHANGED <<apc, engineVars, hpc, connSeq, rpc, rid, asked, nextId, out, sconn, sresp>>
  BY DEF WsDo, Alive, W!ReceiveResponse, appVars, W!handlerVars, W!readerVars
<1>2. Calls' /\ InRange' /\ Asked' /\ Origins'
  BY <1>t, <1>1 DEF Typed, Glue, Calls, InRange, Asked, EP!Known, Origins, Origin, engineVars
<1>3. ASSUME Answering PROVE Arrivals'
  <2>t. EP!Images /\ Arrivals /\ Inv
    BY <1>3 DEF Answering, Inv
  <2>1. /\ \E d \in Conns : job[t].id \in asked[d]
        /\ WP!OwnNumbers => job[t].id \in asked[c]
        /\ job[t].id \in answered /\ sresp[t].req = job[t].id /\ sresp[t].img = job[t].id
    <3>1. /\ \E d \in Conns : job[t].id \in asked[d]
          /\ WP!OwnNumbers => job[t].id \in asked[c]
          /\ job[t].id \in answered /\ img[t] = job[t].id
          /\ sresp[t] = [req |-> job[t].id, img |-> img[t]]
      BY <1>1, <2>t, TargetAsked
    <3> QED
      BY <3>1
  <2>2. ASSUME NEW u \in Threads \ {t}, spc[u] \in {"lock", "chan"} PROVE job[u].id # job[t].id
    <3>1. pc[t] = "inCall" /\ pc[u] = "inCall"
      BY <1>t, <1>1, <2>2 DEF Glue, Calls
    <3> QED
      BY <2>t, <3>1, Reporting
  <2>3. WP!OwnNumbers' <=> WP!OwnNumbers
    BY <1>1 DEF WP!OwnNumbers
  <2>4. ASSUME NEW r \in Responses, r = sresp[t] PROVE Arrived(c, r)'
    BY <1>t, <1>1, <2>1, <2>2, <2>3, <2>4 DEF Typed, Arrived, engineVars
  <2>5. ASSUME NEW d \in Conns, NEW r \in Responses, Arrived(d, r) PROVE Arrived(d, r)'
    BY <1>t, <1>1, <2>3, <2>5, StillArrived DEF Typed, engineVars
  <2>6. \A d \in Conns, r \in Responses : Got(d, r)' => Got(d, r) \/ (d = c /\ r = sresp[t])
    BY <1>t, <1>1 DEF Typed, Got
  <2>7. ASSUME NEW d \in Conns, NEW r \in Responses, Got(d, r)' PROVE Arrived(d, r)'
    <3>1. CASE Got(d, r)
      BY <2>t, <2>5, <3>1 DEF Arrivals
    <3> QED
      BY <2>4, <2>6, <2>7, <3>1
  <2>8. ASSUME NEW d \in Conns, NEW r \in Responses, Got(d, r) PROVE r.req # sresp[t].req
    BY <1>1, <2>t, <2>1, <2>8 DEF Arrivals, Arrived
  <2>9. ASSUME NEW d \in Conns, NEW e \in Conns, NEW r \in Responses, NEW s \in Responses,
               Got(d, r)', Got(e, s)', r.req = s.req
        PROVE  d = e
    <3>1. Got(d, r) \/ (d = c /\ r = sresp[t])
      BY <2>6, <2>9
    <3>2. Got(e, s) \/ (e = c /\ s = sresp[t])
      BY <2>6, <2>9
    <3> QED
      BY <2>t, <2>8, <2>9, <3>1, <3>2 DEF Arrivals
  <2>10. ASSUME NEW d \in Conns, NEW k \in DOMAIN out'[d], wcur'[d] # None
         PROVE  out'[d][k].req # wcur'[d].req
    <3>1. out[d][k] \in Responses /\ Got(d, out[d][k])
      BY <1>t, <1>1, <2>10 DEF Typed, Got
    <3>2. CASE d = c
      BY <1>t, <1>1, <2>8, <3>1, <3>2 DEF Typed
    <3>3. CASE d # c
      BY <1>t, <1>1, <2>t, <2>10, <3>3 DEF Typed, Arrivals
    <3> QED
      BY <3>2, <3>3
  <2> QED
    BY <2>7, <2>9, <2>10 DEF Arrivals
<1> QED
  BY <1>2, <1>3 DEF Glue

LEMMA WriteReturnsKeepsGlue ==
  ASSUME Base, NEW c \in Conns, WsDo(W!WriteReturns(c)) PROVE Glue' /\ (Arrivals => Arrivals')
<1>t. Typed /\ Glue
  BY BaseTyped DEF Base
<1>1. /\ apc # "crashed" /\ wcur' = [wcur EXCEPT ![c] = None]
      /\ \/ out' = [out EXCEPT ![c] = Append(@, wcur[c])] /\ wcur[c] # None
         \/ out' = out
      /\ UNCHANGED <<apc, engineVars, hpc, connSeq, rpc, rid, asked, nextId, spc, sconn, sresp>>
  BY <1>t DEF Typed, WsDo, Alive, W!WriteReturns, appVars, W!handlerVars, W!readerVars, W!senderVars
<1>2. Calls' /\ InRange' /\ Asked' /\ Origins'
  BY <1>t, <1>1 DEF Typed, Glue, Calls, InRange, Asked, EP!Known, Origins, Origin, engineVars
<1>o. WP!OwnNumbers' => WP!OwnNumbers
  BY <1>1 DEF WP!OwnNumbers
<1>3. ASSUME NEW d \in Conns, NEW r \in Responses, Arrived(d, r) PROVE Arrived(d, r)'
  BY <1>t, <1>1, <1>o, <1>3, StillArrived DEF Typed, engineVars
<1>4. ASSUME NEW d \in Conns, NEW r \in Responses, Got(d, r)' PROVE Got(d, r)
  <2>1. CASE d # c \/ out' = out
    BY <1>t, <1>1, <1>4, <2>1 DEF Typed, Got
  <2>2. CASE d = c /\ wcur[c] # None /\ out' = [out EXCEPT ![c] = Append(@, wcur[c])]
    <3>1. wcur[c] \in Responses /\ out[c] \in Seq(Responses) /\ out'[c] = Append(out[c], wcur[c])
      BY <1>t, <2>2 DEF Typed
    <3>2. wcur'[c] # r
      BY <1>t, <1>1 DEF Typed
    <3>3. PICK k \in DOMAIN out'[c] : out'[c][k] = r
      BY <1>4, <2>2, <3>2 DEF Got
    <3> QED
      BY <2>2, <3>1, <3>3 DEF Got
  <2> QED
    BY <1>1, <2>1, <2>2
<1>5. ASSUME Arrivals, NEW d \in Conns, NEW k \in DOMAIN out'[d], wcur'[d] # None
      PROVE  out'[d][k].req # wcur'[d].req
  <2>1. d # c
    BY <1>t, <1>1, <1>5 DEF Typed
  <2> QED
    BY <1>t, <1>1, <1>5, <2>1 DEF Typed, Arrivals
<1>6. Arrivals => Arrivals'
  BY <1>3, <1>4, <1>5 DEF Arrivals
<1> QED
  BY <1>2, <1>6 DEF Glue

LEMMA CompleteReturnsKeepsGlue ==
  ASSUME Base, NEW t \in Threads, CompleteReturns(t) PROVE Glue' /\ (Arrivals => Arrivals')
<1>t. Typed /\ Glue
  BY BaseTyped DEF Base
<1>1. /\ apc # "crashed" /\ pc[t] = "inCall" /\ spc[t] = "return"
      /\ pc' = [pc EXCEPT ![t] = IF t = Run THEN "select" ELSE "idle"]
      /\ spc' = [spc EXCEPT ![t] = "idle"]
      /\ \A u \in Threads \ {t} : /\ job'[u] = job[u] /\ img'[u] = img[u]
                                  /\ sconn'[u] = sconn[u] /\ sresp'[u] = sresp[u]
      /\ UNCHANGED <<apc, accepted, answered, hpc, connSeq, wcur, out, rpc, rid, asked, nextId>>
  BY <1>t DEF Typed, CompleteReturns, Jointly, Alive, E!OnCompletedReturns, E!Goto, W!SendReturns,
              appVars, W!handlerVars, W!writerVars, W!readerVars
<1>2. Calls'
  BY <1>t, <1>1 DEF Typed, Glue, Calls
<1>3. InRange' /\ Asked' /\ Origins'
  BY <1>t, <1>1 DEF Glue, InRange, Asked, EP!Known, Origins, Origin
<1>o. WP!OwnNumbers' => WP!OwnNumbers
  BY <1>1 DEF WP!OwnNumbers
<1>4. ASSUME NEW d \in Conns, NEW r \in Responses, Arrived(d, r) PROVE Arrived(d, r)'
  BY <1>t, <1>1, <1>o, <1>4, StillArrived DEF Typed
<1>5. Arrivals => Arrivals'
  BY <1>1, <1>4, StillArrivals
<1> QED
  BY <1>2, <1>3, <1>5 DEF Glue
-----------------------------------------------------------------------------
LEMMA InitInv == Init => Inv
<1> SUFFICES ASSUME Init PROVE Inv
  OBVIOUS
<1>1. EP!Init /\ WP!Init
  BY Starts
<1>2. EP!Control /\ EP!Images
  BY <1>1, EngineAssumption, EP!InitControl, EP!InitImages
<1>3. WP!Control
  BY <1>1, ServerAssumption, WP!InitControl
<1>4. WP!Registered
  BY <1>1, ServerAssumption, WP!InitRegistry DEF WP!Registered
<1>5. Calls
  BY <1>1, FaceServerAssumption DEF EP!Init, WP!Init, Calls, Threads, E!EngineThreads, EP!EngineThreads
<1>6. InRange /\ Asked /\ Origins
  BY <1>1, FaceServerAssumption DEF EP!Init, WP!Init, InRange, ConnIds, Asked, Origins
<1>7. Arrivals
  <2>1. None \notin Responses
    BY FaceServerAssumption DEF Responses, E!EngineResponses
  <2> QED
    BY <1>1, <2>1 DEF WP!Init, Arrivals, Got
<1> QED
  BY <1>2, <1>3, <1>4, <1>5, <1>6, <1>7 DEF Init, Inv, Places, Base, Answering, Glue

LEMMA NextBase == Base /\ [Next]_vars => Base'
<1> SUFFICES ASSUME Base, [Next]_vars PROVE Base'
  OBVIOUS
<1>1. apc' \in Places /\ stop' \in {"no", "yes"}
  BY DEF Base, Places, Next, App, InitFace, OpenShell, StartWs, Tick, State, LeaveLoop, CloseWs,
         UnInitFace, Exit, Crash, StopCommand, Engine, Ws, Submit, ClientSends, ClientLeaves,
         SocketFails, Complete, SendStep, CompleteReturns, AppGoto, EngineDo, WsDo, Jointly, vars,
         appVars
<1>2. Glue'
  <2>1. CASE App \/ Crash \/ StopCommand \/ UNCHANGED vars
    BY <2>1, AppFrame, FrameKeepsGlue
  <2>2. ASSUME NEW k \in Workers, Engine(k) PROVE Glue'
    BY <2>2, EngineFrame, FrameKeepsGlue
  <2>3. ASSUME NEW c \in Conns, Ws(c) \/ ClientLeaves(c) \/ SocketFails(c) PROVE Glue'
    BY <2>3, ServerFrame, FrameKeepsGlue, UpgradeKeepsGlue, ReceiveKeepsGlue, WriteReturnsKeepsGlue
  <2>4. ASSUME NEW c \in Conns, Submit(c) \/ ClientSends(c) PROVE Glue'
    BY <2>4, SubmitKeepsGlue, ClientSendsKeepsGlue
  <2>5. ASSUME NEW t \in Threads, Complete(t) \/ SendStep(t) \/ CompleteReturns(t) PROVE Glue'
    BY <2>5, CompleteKeepsGlue, CompleteReturnsKeepsGlue, SendFrame, FrameKeepsGlue
  <2> QED
    BY <2>1, <2>2, <2>3, <2>4, <2>5 DEF Next
<1> QED
  BY <1>1, <1>2, NextControls DEF Base

LEMMA NextArrivals == Inv /\ [Next]_vars => Arrivals'
<1> SUFFICES ASSUME Inv, [Next]_vars PROVE Arrivals'
  OBVIOUS
<1>t. Base /\ Answering /\ EP!Images /\ Arrivals
  BY DEF Inv, Answering
<1>1. CASE App \/ Crash \/ StopCommand \/ UNCHANGED vars
  BY <1>t, <1>1, AppFrame, FrameKeepsArrivals
<1>2. ASSUME NEW k \in Workers, Engine(k) PROVE Arrivals'
  BY <1>t, <1>2, EngineFrame, FrameKeepsArrivals
<1>3. ASSUME NEW c \in Conns, Ws(c) \/ ClientLeaves(c) \/ SocketFails(c) PROVE Arrivals'
  BY <1>t, <1>3, ServerFrame, FrameKeepsArrivals, UpgradeKeepsGlue, ReceiveKeepsGlue, WriteReturnsKeepsGlue
<1>4. ASSUME NEW c \in Conns, Submit(c) \/ ClientSends(c) PROVE Arrivals'
  BY <1>t, <1>4, SubmitKeepsGlue, ClientSendsKeepsGlue
<1>5. ASSUME NEW t \in Threads, Complete(t) \/ SendStep(t) \/ CompleteReturns(t) PROVE Arrivals'
  BY <1>t, <1>5, CompleteKeepsGlue, CompleteReturnsKeepsGlue, SendFrame, FrameKeepsArrivals
<1> QED
  BY <1>1, <1>2, <1>3, <1>4, <1>5 DEF Next

LEMMA NextInv == EP!NoWrap /\ Inv /\ [Next]_vars => Inv'
  BY NextBase, NextImagesAndRegistered, NextArrivals DEF Inv, Answering

\* The variables of App.Run and of both parts have their types, whatever clients,
\* operators and the library do (app.go).
THEOREM TypeCorrect == Spec => []TypeOK
<1>1. Base => TypeOK
  BY PartTypes DEF Base, EP!Control, WP!Control, Places, TypeOK
<1>2. Init => Base
  BY InitInv DEF Inv
<1> QED
  BY <1>1, <1>2, NextBase, PTL DEF Spec

\* Whatever the process does, clients that connect at the same time included, is for
\* the engine a behaviour of XFace on its own: the requests it is handed are new ones
\* (UniqueID, handleRead).
THEOREM EngineIsXFace == Spec => EP!Spec
<1>1. Base /\ [Next]_vars => Base' /\ [EP!Next]_(EP!vars)
  BY NextBase, StepsOfParts
<1>2. Init => Base /\ EP!Init
  BY InitInv, Starts DEF Inv
<1> QED
  BY <1>1, <1>2, PTL DEF Spec, EP!Spec

\* Whatever the process does is for the server a behaviour of WsServer on its own,
\* overlapping handlers included: the engine's threads call send, once per report,
\* with a response (onCompleted).
THEOREM ServerIsWsServer == Spec => WP!Spec
<1>1. Base /\ [Next]_vars => Base' /\ [WP!Next]_(WP!vars)
  BY NextBase, StepsOfParts
<1>2. Init => Base /\ WP!Init
  BY InitInv, Starts DEF Inv
<1> QED
  BY <1>1, <1>2, PTL DEF Spec, WP!Spec

LEMMA SameOwn == W!OwnNumbers <=> WP!OwnNumbers
  BY DEF W!OwnNumbers, WP!OwnNumbers

\* Whatever handlers overlap: a response carries the features of its own request's
\* image, and until two connections have been given one number it goes to the
\* connection its request was read from (ConnId, ReqId, send).
THEOREM EachOnItsConnection == EP!NoWrap => (Spec => []RightConnection)
<1> SUFFICES ASSUME EP!NoWrap PROVE Spec => []RightConnection
  OBVIOUS
<1>1. Inv => RightConnection
  <2> SUFFICES ASSUME Inv, NEW c \in Conns
               PROVE  /\ wcur[c] # None => wcur[c].img = wcur[c].req
                      /\ \A k \in DOMAIN out[c] : out[c][k].img = out[c][k].req
                      /\ WP!OwnNumbers => AnswersOwn(c)
    BY SameOwn DEF RightConnection
  <2>t. Typed /\ Arrivals
    BY BaseTyped DEF Inv, Answering
  <2>1. wcur[c] # None => Arrived(c, wcur[c])
    BY <2>t DEF Typed, Arrivals, Got
  <2>2. ASSUME NEW k \in DOMAIN out[c] PROVE Arrived(c, out[c][k])
    BY <2>t DEF Typed, Arrivals, Got
  <2> QED
    BY <2>1, <2>2 DEF Arrived, AnswersOwn
<1>2. Inv /\ [Next]_vars => Inv'
  BY NextInv
<1> QED
  BY <1>1, <1>2, InitInv, PTL DEF Spec
-----------------------------------------------------------------------------
(* The service: what the clients see of all this *)

Inbox(c) == [k \in DOMAIN out[c] |-> out[c][k].req]

\* What clients see changes only when one of them sends and when a write returns.
LEMMA SeenByClients ==
  ASSUME Base, [Next]_vars
  PROVE  \/ \E c \in Conns : ClientSends(c) \/ WsDo(W!WriteReturns(c))
         \/ UNCHANGED <<asked, out>>
<1>1. CASE App \/ Crash \/ StopCommand \/ UNCHANGED vars
  BY <1>1, AppFrame DEF Frame
<1>2. ASSUME NEW k \in Workers, Engine(k) PROVE UNCHANGED <<asked, out>>
  BY <1>2, EngineFrame DEF Frame
<1>3. ASSUME NEW c \in Conns, Ws(c) \/ ClientLeaves(c) \/ SocketFails(c), ~WsDo(W!WriteReturns(c))
      PROVE  UNCHANGED <<asked, out>>
  BY <1>3, ServerFrame
     DEF Frame, WsDo, W!Upgrade, W!ReceiveResponse, W!writerVars, W!readerVars
<1>4. ASSUME NEW c \in Conns, Submit(c) PROVE UNCHANGED <<asked, out>>
  BY <1>4 DEF Submit, Jointly, W!Submitted, W!writerVars
<1>5. ASSUME NEW t \in Threads, Complete(t) \/ SendStep(t) \/ CompleteReturns(t)
      PROVE  UNCHANGED <<asked, out>>
  BY <1>5, SendFrame DEF Frame, Complete, CompleteReturns, Jointly, W!Send, W!SendReturns,
                         W!writerVars, W!readerVars
<1> QED
  BY <1>1, <1>2, <1>3, <1>4, <1>5 DEF Next

LEMMA SendsIsAsk == ASSUME Base, NEW c \in Conns, ClientSends(c) PROVE Service!Ask(c)
<1>t. Typed /\ Asked
  BY BaseTyped DEF Base, Glue
<1>1. asked' = [asked EXCEPT ![c] = @ \cup {nextId}] /\ UNCHANGED <<out, hpc, connSeq>>
  BY DEF ClientSends, WsDo, W!ReadMessage, W!writerVars, W!handlerVars
<1>2. nextId \notin UNION Service!Range(asked)
  BY <1>t DEF Typed, Asked, Service!Range
<1>3. nextId \in asked'[c]
  BY <1>t, <1>1 DEF Typed
<1>4. W!OwnNumbers' <=> W!OwnNumbers
  BY <1>1 DEF W!OwnNumbers
<1> QED
  BY <1>1, <1>2, <1>3, <1>4 DEF Service!Ask

\* The ids of a response appended to the others.
LEMMA AppendInbox ==
  ASSUME NEW S, NEW s \in Seq(S), NEW w \in S
  PROVE  [k \in DOMAIN Append(s, w) |-> Append(s, w)[k].req]
           = Append([k \in DOMAIN s |-> s[k].req], w.req)
  OBVIOUS

LEMMA WriteIsAnswer ==
  ASSUME Base, Arrivals, NEW c \in Conns, WsDo(W!WriteReturns(c))
  PROVE  [Service!Next]_(Service!svars)
<1>t. Typed
  BY BaseTyped
<1>1. UNCHANGED <<asked, hpc, connSeq>>
  BY DEF WsDo, W!WriteReturns, W!readerVars, W!handlerVars
<1>o. W!OwnNumbers' <=> W!OwnNumbers
  BY <1>1 DEF W!OwnNumbers
<1>2. CASE UNCHANGED out
  BY <1>1, <1>o, <1>2 DEF Service!svars
<1>3. CASE ~UNCHANGED out
  <2>1. wcur[c] # None /\ out' = [out EXCEPT ![c] = Append(@, wcur[c])]
    BY <1>t, <1>3 DEF Typed, WsDo, W!WriteReturns
  <2>2. wcur[c] \in Responses /\ out[c] \in Seq(Responses)
    BY <1>t, <2>1 DEF Typed
  <2>3. Arrived(c, wcur[c])
    BY <2>2 DEF Arrivals, Got
  <2>4. wcur[c].req \in UNION Service!Range(asked) /\ (wcur[c].req \in asked[c] \/ ~W!OwnNumbers)
    BY <1>t, <2>3, SameOwn DEF Arrived, Typed, Service!Range
  <2>5. ASSUME NEW d \in Conns, NEW k \in DOMAIN out[d] PROVE out[d][k].req # wcur[c].req
    <3>1. out[d][k] \in Responses /\ Got(d, out[d][k]) /\ Got(c, wcur[c])
      BY <1>t, <2>5 DEF Typed, Got
    <3>2. CASE d = c
      BY <2>1, <2>5, <3>2 DEF Arrivals
    <3>3. CASE d # c
      BY <2>2, <3>1, <3>3 DEF Arrivals
    <3> QED
      BY <3>2, <3>3
  <2>6. \A d \in Conns : wcur[c].req \notin Service!Range(Inbox(d))
    BY <2>5 DEF Inbox, Service!Range
  <2>7. out'[c] = Append(out[c], wcur[c]) /\ \A d \in Conns \ {c} : out'[d] = out[d]
    BY <1>t, <2>1 DEF Typed
  <2>8. Inbox(c)' = Append(Inbox(c), wcur[c].req)
    BY <2>2, <2>7, AppendInbox DEF Inbox
  <2>9. \A d \in Conns \ {c} : Inbox(d)' = Inbox(d)
    BY <2>7 DEF Inbox
  <2>10. [d \in Conns |-> Inbox(d)]' = [[d \in Conns |-> Inbox(d)] EXCEPT ![c] = Append(@, wcur[c].req)]
    BY <2>8, <2>9
  <2>11. ~Service!Answered(wcur[c].req)
    BY <2>6 DEF Service!Answered, Inbox
  <2>12. Service!Answer(c)
    BY <1>1, <1>o, <2>4, <2>10, <2>11 DEF Service!Answer, Inbox
  <2> QED
    BY <2>12 DEF Service!Next
<1> QED
  BY <1>2, <1>3

\* The process implements FaceService, whatever handlers overlap: no request is answered
\* twice and none out of nothing, and as long as no two connections share a number every
\* response a client gets answers a request of its own (send, conn.go).
THEOREM ServesAsPromised == EP!NoWrap => (Spec => ImplementsService)
<1> SUFFICES ASSUME EP!NoWrap PROVE Spec => ImplementsService
  OBVIOUS
<1>1. Init => Service!Init
  BY DEF Init, W!Init, Service!Init, W!OwnNumbers
<1>2. Inv /\ [Next]_vars => [Service!Next]_(Service!svars)
  <2> SUFFICES ASSUME Inv, [Next]_vars PROVE [Service!Next]_(Service!svars)
    OBVIOUS
  <2>t. Base /\ Arrivals
    BY DEF Inv, Answering
  <2>1. CASE UNCHANGED <<asked, out>>
    <3>1. W!OwnNumbers' => W!OwnNumbers
      BY <2>t, OwnBefore, SameOwn DEF W!OwnNumbers, WP!OwnNumbers
    <3>2. CASE W!OwnNumbers' <=> W!OwnNumbers
      BY <2>1, <3>2 DEF Service!svars
    <3>3. CASE ~(W!OwnNumbers' <=> W!OwnNumbers)
      BY <2>1, <3>1, <3>3 DEF Service!Mix, Service!Next
    <3> QED
      BY <3>2, <3>3
  <2>2. ASSUME NEW c \in Conns, ClientSends(c) \/ WsDo(W!WriteReturns(c))
        PROVE  [Service!Next]_(Service!svars)
    BY <2>t, <2>2, SendsIsAsk, WriteIsAnswer DEF Service!Next
  <2> QED
    BY <2>t, <2>1, <2>2, SeenByClients
<1>3. Inv /\ [Next]_vars => Inv'
  BY NextInv
<1> QED
  BY <1>1, <1>2, <1>3, InitInv, PTL DEF Spec, ImplementsService, Service!Spec
-----------------------------------------------------------------------------
(* The order of shutdown *)

\* Apart from the App, and from run's panic, nothing cancels the engine or starts
\* or closes the server for good.
OrderFrame ==
  /\ UNCHANGED <<apc, xctx>> /\ apc # "crashed"
  /\ lpc = "off" <=> lpc' = "off"
  /\ cpc' = cpc
  /\ pc'[Run] = "exited" => pc[Run] = "exited" \/ xctx = "cancelled"

LEMMA FrameKeepsOrder == Order /\ OrderFrame => Order'
  BY DEF Order, OrderFrame

LEMMA PartsKeepOrder ==
  ASSUME Base,
         \/ \E k \in Workers : Engine(k)
         \/ \E c \in Conns :
              Ws(c) \/ Submit(c) \/ ClientSends(c) \/ ClientLeaves(c) \/ SocketFails(c)
         \/ \E t \in Threads : Complete(t) \/ SendStep(t) \/ CompleteReturns(t)
  PROVE  OrderFrame
<1>t. Typed /\ \A k \in Workers : k \in Threads /\ k # Run
  BY BaseTyped, FaceServerAssumption DEF Threads, E!EngineThreads
<1> USE DEF Alive, appVars, engineVars, wsVars, E!Goto, OrderFrame, W!closeVars, W!handlerVars,
            W!writerVars, W!readerVars, W!senderVars
<1>1. ASSUME NEW k \in Workers, Engine(k) PROVE OrderFrame
  BY <1>1, <1>t DEF Typed, Engine, EngineDo, E!RunStep, E!RunReturns, E!LoadImage, E!FeatureCall,
                    E!Register, E!Worker, E!Lookup, E!StartCallback
<1>2. ASSUME NEW c \in Conns, WsDo(Serve) \/ WsDo(W!Handler(c)) PROVE OrderFrame
  BY <1>2 DEF WsDo, Serve, W!AssignServer, W!Listen, W!ServeReturns, W!Handler, W!Upgrade,
              W!ReadKey, W!OnOpen, W!AddConn, W!StartConn, W!LoadSeq, W!StoreSeq
<1>3. ASSUME NEW c \in Conns, WsDo(W!Writer(c)) PROVE OrderFrame
  BY <1>3 DEF WsDo, W!Writer, W!ServerQuits, W!ReadDone, W!OnClosed, W!WriterReturns, W!Ping,
              W!WriteReturns, W!ReceiveResponse
<1>4. ASSUME NEW c \in Conns, Submit(c) PROVE OrderFrame
  BY <1>4, <1>t DEF Typed, Submit, Jointly, W!Submitted, E!Accept
<1>5. ASSUME NEW c \in Conns, ClientSends(c) \/ ClientLeaves(c) \/ SocketFails(c) PROVE OrderFrame
  BY <1>5 DEF ClientSends, ClientLeaves, SocketFails, WsDo, W!ReadMessage, W!ReadFails
<1>6. ASSUME NEW t \in Threads, Complete(t) \/ SendStep(t) \/ CompleteReturns(t) PROVE OrderFrame
  BY <1>6, <1>t DEF Typed, Complete, SendStep, CompleteReturns, Jointly, WsDo, E!CallOnCompleted,
                    E!OnCompletedReturns, W!Send, W!SendLookup, W!SendReturns
<1> QED
  BY <1>1, <1>2, <1>3, <1>4, <1>5, <1>6 DEF Ws

LEMMA AppKeepsOrder == ASSUME Base, WP!Quiet', Order, App PROVE Order'
<1>t. Typed
  BY BaseTyped
<1> USE DEF AppGoto, engineVars, wsVars, E!Goto, W!closeVars, W!handlerVars, W!writerVars,
            W!readerVars, W!senderVars, Order
<1>1. CASE InitFace
  BY <1>1, <1>t DEF Typed, InitFace, E!InitEngine
<1>2. CASE OpenShell \/ Tick \/ State \/ LeaveLoop \/ Exit
  BY <1>2 DEF OpenShell, Tick, State, LeaveLoop, Exit
<1>3. CASE StartWs
  BY <1>3 DEF StartWs, W!Start
<1>4. CASE CloseWs
  BY <1>4 DEF CloseWs, W!CloseHttp, W!ReceiveQuit, W!WaitConns, WP!Quiet
<1>5. CASE UnInitFace
  BY <1>5 DEF UnInitFace, E!CancelEngine, E!UnInitLib
<1> QED
  BY <1>1, <1>2, <1>3, <1>4, <1>5 DEF App

LEMMA NextOrder == Base /\ WP!Quiet' /\ Order /\ [Next]_vars => Order'
<1> SUFFICES ASSUME Base, WP!Quiet', Order, [Next]_vars PROVE Order'
  OBVIOUS
<1>1. CASE App
  BY <1>1, AppKeepsOrder
<1>2. CASE Crash
  BY <1>2 DEF Crash, E!Panic, E!EngineThreads, Order, wsVars
<1>3. CASE StopCommand
  BY <1>3 DEF StopCommand, Order, engineVars, wsVars
<1>4. CASE UNCHANGED vars
  BY <1>4 DEF vars, appVars, engineVars, wsVars, Order
<1> QED
  BY <1>1, <1>2, <1>3, <1>4, PartsKeepOrder, FrameKeepsOrder DEF Next

\* While http.Server.Close is called between two handlers and does not fail: once run no
\* longer receives, no read goroutine is left in DoFeature and none can get there.  Run's
\* defer closes the server, which waits for every connection, before it cancels the engine.
THEOREM NoReaderIsStranded == WP!PromptClose => (Spec => []NoReaderStranded)
<1> SUFFICES ASSUME WP!PromptClose PROVE Spec => []NoReaderStranded
  OBVIOUS
<1>1. Init => Base /\ Shutdown
  <2> SUFFICES ASSUME Init PROVE Shutdown
    BY InitInv DEF Inv
  <2>1. EP!Init /\ WP!Init
    BY Starts
  <2>2. WP!Quiet
    BY <2>1, ServerAssumption, WP!InitQuiet
  <2>3. Order
    BY <2>1, FaceServerAssumption DEF Init, EP!Init, WP!Init, EP!EngineThreads, Order
  <2> QED
    BY <2>2, <2>3 DEF Shutdown
<1>2. Base /\ Shutdown /\ [Next]_vars => Base' /\ Shutdown'
  <2> SUFFICES ASSUME Base, Shutdown, [Next]_vars PROVE Shutdown'
    BY NextBase
  <2>1. WP!Control /\ WP!Quiet /\ Order /\ [WP!Next]_(WP!vars)
    BY StepsOfParts DEF Base, Shutdown
  <2>2. WP!Quiet'
    BY <2>1, ServerAssumption, WP!NextQuiet
  <2> QED
    BY <2>1, <2>2, NextOrder DEF Shutdown
<1>3. Base /\ Shutdown => NoReaderStranded
  <2> SUFFICES ASSUME Base, Shutdown, pc[Run] = "exited", NEW c \in Conns
               PROVE  rpc[c] \in {"none", "exited"}
    BY DEF NoReaderStranded
  <2>1. cpc = "closed" \/ lpc = "off"
    BY DEF Shutdown, Order
  <2>2. wpc[c] \in {"none", "exited"}
    BY <2>1 DEF Shutdown, WP!Quiet, WP!Live, Base, WP!Control, WP!Lives
  <2> QED
    BY <2>2 DEF Base, WP!Control, WP!Lives
<1> QED
  BY <1>1, <1>2, <1>3, PTL DEF Spec
=============================================================================
