--------------------------------- MODULE XFace ---------------------------------
(***************************************************************************)
(* face/face.go with face/face.c: the wrapper around the asynchronous face *)
(* library.  One goroutine, run, takes requests from the unbuffered        *)
(* channel writeCh and submits their images; the library's worker threads  *)
(* call back with the features, each callback looking its request up in    *)
(* reqs.  run and the callbacks report through OnCompleted, a call that    *)
(* may block.  x.mu guards reqs; a callback keeps it across OnCompleted.   *)
(***************************************************************************)
EXTENDS Integers, FiniteSets

CONSTANTS
  Workers,    \* the library's threads
  Run,        \* the run goroutine
  None,       \* no thread, no request
  ReqIds,     \* the ReqIds that may be asked for
  ConnIds,    \* the ConnIds they may come from
  CIntMod,    \* the number of values of a C.int (2^32)
  Adversity   \* "empty image": see Panic

ASSUME XFaceAssumption ==
  /\ Run \notin Workers /\ None \notin Workers \cup {Run}
  /\ ReqIds \subseteq Nat /\ ConnIds \subseteq Nat
  /\ CIntMod \in Nat \ {0}
  /\ None \notin [id : ReqIds, conn : ConnIds]

EngineThreads == Workers \cup {Run}
Requests == [id : ReqIds, conn : ConnIds]

\* A response carries the ID and Cmd of the request req and was computed, or
\* failed to be, from the image of the request img.
EngineResponses == [req : ReqIds, img : ReqIds]

VARIABLES
  reqs,       \* XFace.reqs
  xmu,        \* the thread holding x.mu
  xctx,       \* x.ctx
  pc,         \* where run and each worker are
  job,        \* run: the request r; worker: the request found in reqs
  img,        \* the id of the image a thread is dealing with
  inLib,      \* ids submitted to the library and not yet called back
  lib,        \* gInstance: "nil" before Init and after UnInit
  accepted,   \* history: the requests run has taken from writeCh
  answered    \* history: the ids OnCompleted has been called for

vars == <<reqs, xmu, xctx, pc, job, img, inLib, lib, accepted, answered>>

Init ==
  /\ reqs = [i \in {} |-> None]
  /\ xmu = None
  /\ xctx = "live"
  /\ pc = [t \in EngineThreads |-> IF t = Run THEN "none" ELSE "idle"]
  /\ job = [t \in EngineThreads |-> None]
  /\ img = [t \in EngineThreads |-> 0]
  /\ inLib = {}
  /\ lib = "nil"
  /\ accepted = {}
  /\ answered = {}

\* Mutant of CInt: seq comes back as a narrower integer still.
CShort(i) == i % (CIntMod \div 4)

\* callbackOnCgo takes seq as a C.int: the low bits of the ReqId, read as signed.
CInt(i) == ((i + CIntMod \div 2) % CIntMod) - CIntMod \div 2

Goto(t, there) == pc' = [pc EXCEPT ![t] = there]
-----------------------------------------------------------------------------
(* Init, UnInit *)

\* Init succeeds: gInstance is made and run is started.
InitEngine ==
  /\ pc[Run] = "none" /\ xctx = "live"
  /\ lib' = "up"
  /\ Goto(Run, "select")
  /\ UNCHANGED <<reqs, xmu, xctx, job, img, inLib, accepted, answered>>

\* UnInit: x.cancel().
CancelEngine ==
  /\ xctx = "live" /\ pc[Run] # "panicked"
  /\ xctx' = "cancelled"
  /\ UNCHANGED <<reqs, xmu, pc, job, img, inLib, lib, accepted, answered>>

\* run: the branch of its select that returns.
RunReturns ==
  /\ pc[Run] = "select" /\ xctx = "cancelled"
  /\ Goto(Run, "exited")
  /\ UNCHANGED <<reqs, xmu, xctx, job, img, inLib, lib, accepted, answered>>

\* UnInit after x.wg.Wait(): UnInitFaceLib.  HobotXFaceFree is taken to wait for
\* the callbacks in progress and to drop the images it has not started.
UnInitLib ==
  /\ xctx = "cancelled" /\ lib = "up"
  /\ pc[Run] \in {"none", "exited"}
  /\ \A k \in Workers : pc[k] = "idle"
  /\ lib' = "nil"
  /\ inLib' = {}
  /\ UNCHANGED <<reqs, xmu, xctx, pc, job, img, accepted, answered>>
-----------------------------------------------------------------------------
(* run and doRequest *)

\* run receives r from writeCh.
Accept(r) ==
  /\ pc[Run] = "select"
  /\ job' = [job EXCEPT ![Run] = r]
  /\ img' = [img EXCEPT ![Run] = r.id]
  /\ accepted' = accepted \cup {r}
  /\ Goto(Run, "load")
  /\ UNCHANGED <<reqs, xmu, xctx, inLib, lib, answered>>

\* loadFile or decode: a failure is reported to the client.
LoadImage ==
  /\ pc[Run] = "load"
  /\ Goto(Run, "feature") \/ Goto(Run, "call")
  /\ UNCHANGED <<reqs, xmu, xctx, job, img, inLib, lib, accepted, answered>>

\* Mutant of FeatureCall: a refused request is forgotten before it is reported.
RefusedIsForgotten ==
  /\ pc[Run] = "feature"
  /\ \/ lib = "up" /\ Goto(Run, "register") /\ inLib' = inLib \cup {img[Run]} /\ UNCHANGED job
     \/ Goto(Run, "call") /\ job' = [job EXCEPT ![Run] = None] /\ UNCHANGED inLib
  /\ UNCHANGED <<reqs, xmu, xctx, img, lib, accepted, answered>>

\* feature and DoFeature: the library takes the image, or refuses it, which is
\* reported to the client.
FeatureCall ==
  /\ pc[Run] = "feature"
  /\ \/ lib = "up" /\ Goto(Run, "register") /\ inLib' = inLib \cup {img[Run]}
     \/ Goto(Run, "call") /\ UNCHANGED inLib
  /\ UNCHANGED <<reqs, xmu, xctx, job, img, lib, accepted, answered>>

\* feature: an image of no bytes has no &b[0].  Nothing recovers run's panic: the
\* process ends with all its threads.
Panic ==
  /\ "empty image" \in Adversity /\ pc[Run] = "feature"
  /\ pc' = [t \in EngineThreads |-> "panicked"]
  /\ UNCHANGED <<reqs, xmu, xctx, job, img, inLib, lib, accepted, answered>>

\* Mutant of Register: the request is filed under its connection's id.
RegisterByConn ==
  /\ pc[Run] = "register" /\ xmu = None
  /\ reqs' = [i \in DOMAIN reqs \cup {job[Run].conn} |->
                IF i = job[Run].conn THEN job[Run] ELSE reqs[i]]
  /\ job' = [job EXCEPT ![Run] = None]
  /\ img' = [img EXCEPT ![Run] = 0]
  /\ Goto(Run, "select")
  /\ UNCHANGED <<xmu, xctx, inLib, lib, accepted, answered>>

\* Only now, with x.mu, is the request put where its callback looks for it.
Register ==
  /\ pc[Run] = "register" /\ xmu = None
  /\ reqs' = [i \in DOMAIN reqs \cup {job[Run].id} |->
                IF i = job[Run].id THEN job[Run] ELSE reqs[i]]
  /\ job' = [job EXCEPT ![Run] = None]
  /\ img' = [img EXCEPT ![Run] = 0]
  /\ Goto(Run, "select")
  /\ UNCHANGED <<xmu, xctx, inLib, lib, accepted, answered>>
-----------------------------------------------------------------------------
(* the library's callbacks: OnFeature, callbackOnCgo, onCallback *)

\* The library is done with an image, with or without features: a worker calls
\* back, which may be before doRequest has put the request into reqs.
StartCallback(k, i) ==
  /\ pc[k] = "idle" /\ i \in inLib /\ lib = "up"
  /\ inLib' = inLib \ {i}
  /\ img' = [img EXCEPT ![k] = i]
  /\ Goto(k, "lock")
  /\ UNCHANGED <<reqs, xmu, xctx, job, lib, accepted, answered>>

\* Mutant of Lookup: x.mu is released before OnCompleted is called.
LookupThenUnlock(k) ==
  /\ pc[k] = "lock" /\ xmu = None
  /\ \/ /\ CInt(img[k]) \in DOMAIN reqs
        /\ job' = [job EXCEPT ![k] = reqs[CInt(img[k])]]
        /\ Goto(k, "call")
        /\ UNCHANGED img
     \/ /\ CInt(img[k]) \notin DOMAIN reqs
        /\ Goto(k, "idle")
        /\ img' = [img EXCEPT ![k] = 0]
        /\ UNCHANGED job
  /\ UNCHANGED <<reqs, xmu, xctx, inLib, lib, accepted, answered>>

\* onCallback: with x.mu held, the request is found, or the callback is dropped.
Lookup(k) ==
  /\ pc[k] = "lock" /\ xmu = None
  /\ \/ /\ CInt(img[k]) \in DOMAIN reqs
        /\ xmu' = k
        /\ job' = [job EXCEPT ![k] = reqs[CInt(img[k])]]
        /\ Goto(k, "call")
        /\ UNCHANGED img
     \/ /\ CInt(img[k]) \notin DOMAIN reqs
        /\ Goto(k, "idle")
        /\ img' = [img EXCEPT ![k] = 0]
        /\ UNCHANGED <<xmu, job>>
  /\ UNCHANGED <<reqs, xctx, inLib, lib, accepted, answered>>
-----------------------------------------------------------------------------
(* OnCompleted, called by run (sendErrorResponse) and by the workers *)

ResponseOf(t) == [req |-> job[t].id, img |-> img[t]]

CallOnCompleted(t) ==
  /\ pc[t] = "call"
  /\ answered' = answered \cup {job[t].id}
  /\ Goto(t, "inCall")
  /\ UNCHANGED <<reqs, xmu, xctx, job, img, inLib, lib, accepted>>

\* Mutant of OnCompletedReturns: doRequest does not return after reporting an error.
ErrorFallsThrough(t) ==
  /\ pc[t] = "inCall"
  /\ Goto(t, IF t = Run THEN "feature" ELSE "idle")
  /\ xmu' = IF t = Run THEN xmu ELSE None
  /\ UNCHANGED <<job, img, reqs, xctx, inLib, lib, accepted, answered>>

\* Mutant of OnCompletedReturns: a worker returns without unlocking x.mu.
CallbackKeepsMu(t) ==
  /\ pc[t] = "inCall"
  /\ Goto(t, IF t = Run THEN "select" ELSE "idle")
  /\ job' = [job EXCEPT ![t] = None]
  /\ img' = [img EXCEPT ![t] = 0]
  /\ UNCHANGED <<xmu, reqs, xctx, inLib, lib, accepted, answered>>

\* run goes on with its loop; a worker unlocks x.mu and releases the features.
OnCompletedReturns(t) ==
  /\ pc[t] = "inCall"
  /\ Goto(t, IF t = Run THEN "select" ELSE "idle")
  /\ xmu' = IF t = Run THEN xmu ELSE None
  /\ job' = [job EXCEPT ![t] = None]
  /\ img' = [img EXCEPT ![t] = 0]
  /\ UNCHANGED <<reqs, xctx, inLib, lib, accepted, answered>>
-----------------------------------------------------------------------------
RunStep == RunReturns \/ LoadImage \/ FeatureCall \/ Register
Worker(k) == Lookup(k) \/ \E i \in inLib : StartCallback(k, i)
Completion(t) == CallOnCompleted(t) \/ OnCompletedReturns(t)

\* Readers hand over requests with ids never used before (UniqueID).
Fresh(r) == \A q \in accepted : q.id # r.id

Next ==
  \/ InitEngine \/ CancelEngine \/ UnInitLib
  \/ \E r \in Requests : Fresh(r) /\ Accept(r)
  \/ RunStep \/ Panic
  \/ \E k \in Workers : Worker(k)
  \/ \E t \in EngineThreads : Completion(t)

Spec == Init /\ [][Next]_vars

\* Go runs every goroutine and hands a contended mutex over in arrival order;
\* the library calls back for every image and OnCompleted returns.
Fairness ==
  /\ WF_vars(LoadImage) /\ WF_vars(FeatureCall) /\ SF_vars(Register)
  /\ \A k \in Workers : SF_vars(Lookup(k))
  /\ \A i \in ReqIds : SF_vars(\E k \in Workers : StartCallback(k, i))
  /\ \A t \in EngineThreads : WF_vars(Completion(t))

FairSpec == Spec /\ Fairness
-----------------------------------------------------------------------------
\* A thread that works on a request, or reports on it, has the request.
TypeOK ==
  /\ DOMAIN reqs \subseteq ReqIds /\ reqs \in [DOMAIN reqs -> Requests]
  /\ xmu \in Workers \cup {None}
  /\ xctx \in {"live", "cancelled"} /\ lib \in {"nil", "up"}
  /\ pc \in [EngineThreads -> {"none", "select", "load", "feature", "register", "exited",
                               "panicked", "idle", "lock", "call", "inCall"}]
  /\ job \in [EngineThreads -> Requests \cup {None}]
  /\ \A t \in EngineThreads : pc[t] \in {"load", "feature", "register", "call", "inCall"} => job[t] \in Requests
  /\ img \in [EngineThreads -> ReqIds \cup {0}]
  /\ \A t \in EngineThreads : pc[t] \notin {"none", "select", "exited", "panicked", "idle"} => img[t] \in ReqIds
  /\ inLib \in SUBSET ReqIds
  /\ accepted \in SUBSET Requests
  /\ answered \in SUBSET ReqIds

\* A request is reported at most once, by run or by one callback, never by both
\* (doRequest returns after an error; a callback comes once per image).
AnsweredOnce ==
  \A t \in EngineThreads : pc[t] = "call" =>
    /\ job[t].id \notin answered
    /\ \A u \in EngineThreads \ {t} : pc[u] = "call" => job[u].id # job[t].id

\* What is reported was accepted from that connection, and carries the features
\* of its own image: reqs, keyed by the id the library hands back, is never
\* mixed up (conn.go: "we generate a unique request id").
AnswersOwnRequest ==
  \A t \in EngineThreads : pc[t] \in {"call", "inCall"} => job[t] \in accepted /\ img[t] = job[t].id

\* While a callback reports, it holds x.mu: no other callback reports, and run
\* cannot be changing reqs (onCallback's deferred unlock).
CallbacksExclusive ==
  \A k \in Workers : pc[k] \in {"call", "inCall"} => xmu = k

\* The callback for image i has come and gone before run has registered the request:
\* its features are lost.
Dropped(i) ==
  /\ pc[Run] = "register" /\ img[Run] = i
  /\ i \notin inLib /\ \A k \in Workers : pc[k] # "idle" => img[k] # i

\* run has just taken request i from writeCh.
Taken(i) == pc[Run] = "load" /\ img[Run] = i

Ended == xctx = "cancelled" \/ pc[Run] = "panicked"

\* Every request run takes is eventually reported, unless the engine is stopped or
\* run has panicked, or the callback was over before the registration, which
\* face.go:238-240 does not prevent and which loses the response - although app.go
\* says of onCompleted: "when a request is completed, we must tell the network module".
EveryRequestAnswered ==
  \A i \in ReqIds : Taken(i) ~> (i \in answered \/ Ended \/ Dropped(i))
=============================================================================
