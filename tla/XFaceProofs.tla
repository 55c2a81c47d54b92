------------------------------ MODULE XFaceProofs ------------------------------
(***************************************************************************)
(* For any library threads, requests and connections.  Of the library only *)
(* what StartCallback and FeatureCall say is used: one callback per image  *)
(* it took, at any moment, before or after the request's registration.     *)
(***************************************************************************)
EXTENDS XFace, TLAPS

\* Which places run and the workers can be in.
Places ==
  /\ pc[Run] \notin {"idle", "lock"}
  /\ \A k \in Workers : pc[k] \in {"idle", "lock", "call", "inCall", "panicked"}

Control == TypeOK /\ Places /\ CallbacksExclusive

LEMMA InitControl == Init => Control
  BY XFaceAssumption
     DEF Init, Control, TypeOK, Places, CallbacksExclusive, EngineThreads, Requests

LEMMA NextControl == Control /\ [Next]_vars => Control'
<1> SUFFICES ASSUME Control, [Next]_vars PROVE Control'
  OBVIOUS
<1> USE XFaceAssumption DEF EngineThreads, Goto
<1>t. TypeOK /\ Places /\ CallbacksExclusive
  BY DEF Control
<1>1. CASE InitEngine
  BY <1>1, <1>t DEF InitEngine, Control, TypeOK, Places, CallbacksExclusive
<1>2. CASE CancelEngine
  BY <1>2, <1>t DEF CancelEngine, Control, TypeOK, Places, CallbacksExclusive
<1>3. CASE UnInitLib
  BY <1>3, <1>t DEF UnInitLib, Control, TypeOK, Places, CallbacksExclusive
<1>4. ASSUME NEW r \in Requests, Accept(r) PROVE Control'
  BY <1>4, <1>t DEF Accept, Requests, Control, TypeOK, Places, CallbacksExclusive
<1>5. CASE RunReturns
  BY <1>5, <1>t DEF RunReturns, Control, TypeOK, Places, CallbacksExclusive
<1>6. CASE LoadImage
  BY <1>6, <1>t DEF LoadImage, Control, TypeOK, Places, CallbacksExclusive
<1>7. CASE FeatureCall
  <2>1. /\ pc[Run] = "feature" /\ inLib \subseteq inLib' /\ inLib' \subseteq inLib \cup {img[Run]}
        /\ UNCHANGED <<reqs, xmu, xctx, job, img, lib, accepted, answered>>
        /\ \/ pc' = [pc EXCEPT ![Run] = "register"]
           \/ pc' = [pc EXCEPT ![Run] = "call"] /\ UNCHANGED inLib
    BY <1>7 DEF FeatureCall
  <2>2. TypeOK'
    BY <2>1, <1>t DEF TypeOK, Places
  <2>3. Places' /\ CallbacksExclusive'
    BY <2>1, <1>t DEF TypeOK, Places, CallbacksExclusive
  <2> QED
    BY <2>2, <2>3 DEF Control
<1>8. CASE Register
  BY <1>8, <1>t DEF Register, Requests, Control, TypeOK, Places, CallbacksExclusive
<1>9. ASSUME NEW k \in Workers, NEW i \in inLib, StartCallback(k, i) PROVE Control'
  BY <1>9, <1>t DEF StartCallback, Control, TypeOK, Places, CallbacksExclusive
<1>10. ASSUME NEW k \in Workers, Lookup(k) PROVE Control'
  BY <1>10, <1>t DEF Lookup, Control, TypeOK, Places, CallbacksExclusive
<1>11. ASSUME NEW t \in EngineThreads, CallOnCompleted(t) PROVE Control'
  BY <1>11, <1>t DEF CallOnCompleted, Requests, Control, TypeOK, Places, CallbacksExclusive
<1>12. ASSUME NEW t \in EngineThreads, OnCompletedReturns(t) PROVE Control'
  BY <1>12, <1>t DEF OnCompletedReturns, Control, TypeOK, Places, CallbacksExclusive
<1>13. CASE Panic
  BY <1>13, <1>t DEF Panic, Control, TypeOK, Places, CallbacksExclusive
<1>14. CASE UNCHANGED vars
  BY <1>14, <1>t DEF vars, Control, TypeOK, Places, CallbacksExclusive
<1> QED
  BY <1>1, <1>2, <1>3, <1>4, <1>5, <1>6, <1>7, <1>8, <1>9, <1>10, <1>11, <1>12, <1>13, <1>14
     DEF Next, RunStep, Worker, Completion

\* The variables have their types, and no thread works on a request it has not
\* got (doRequest, and onCallback's miss).
THEOREM TypeCorrect == Spec => []TypeOK
<1>1. Control => TypeOK
  BY DEF Control
<1> QED
  BY <1>1, InitControl, NextControl, PTL DEF Spec

\* A callback holds x.mu for as long as it reports (onCallback).
THEOREM ExclusiveCallbacks == Spec => []CallbacksExclusive
<1>1. Control => CallbacksExclusive
  BY DEF Control
<1> QED
  BY <1>1, InitControl, NextControl, PTL DEF Spec

-----------------------------------------------------------------------------
(* Reports: while every id fits a C.int, each request is reported once *)

NoWrap == \A i \in ReqIds : CInt(i) = i

LEMMA SmallIdsFit ==
  ASSUME CIntMod % 2 = 0, \A i \in ReqIds : i < CIntMod \div 2
  PROVE  NoWrap
  BY XFaceAssumption DEF NoWrap, CInt

Known(i) == \E r \in accepted : r.id = i

\* Accepted requests have distinct ids, and only accepted ids go any further.
Accepted ==
  /\ \A q, r \in accepted : q.id = r.id => q = r
  /\ \A i \in inLib \cup answered : Known(i)
  /\ \A i \in DOMAIN reqs : reqs[i] \in accepted /\ reqs[i].id = i

\* A worker calls back for an image of its own, which has left the library.
WorkersImage(k) ==
  pc[k] \in {"lock", "call", "inCall"} =>
    /\ Known(img[k]) /\ img[k] \notin inLib
    /\ \A j \in Workers \ {k} : pc[j] \in {"lock", "call", "inCall"} => img[j] # img[k]
    /\ pc[k] # "inCall" => img[k] \notin answered
    /\ pc[k] # "lock" => job[k] \in accepted /\ job[k].id = img[k]

\* Until run has handed an image to the library nobody else knows of it.
RunsImage ==
  /\ pc[Run] \in {"load", "feature", "register", "call", "inCall"} =>
       job[Run] \in accepted /\ job[Run].id = img[Run]
  /\ pc[Run] \in {"load", "feature", "call", "inCall"} =>
       /\ img[Run] \notin inLib
       /\ pc[Run] # "inCall" => img[Run] \notin answered
       /\ \A k \in Workers : pc[k] \in {"lock", "call", "inCall"} => img[k] # img[Run]

\* Answered or not, an image still in the library has not been reported.
InLibUnanswered == inLib \cap answered = {}

Images == Accepted /\ (\A k \in Workers : WorkersImage(k)) /\ RunsImage /\ InLibUnanswered

LEMMA InitImages == Init => Images
  BY XFaceAssumption
     DEF Init, Images, Accepted, WorkersImage, RunsImage, InLibUnanswered, EngineThreads

LEMMA NextImages == NoWrap /\ Control /\ Images /\ [Next]_vars => Images'
<1> SUFFICES ASSUME NoWrap, Control, Images, [Next]_vars PROVE Images'
  OBVIOUS
<1> USE XFaceAssumption DEF EngineThreads, Goto
<1>t. TypeOK /\ Places
  BY DEF Control
<1>i. Accepted /\ (\A k \in Workers : WorkersImage(k)) /\ RunsImage /\ InLibUnanswered
  BY DEF Images
<1>1. CASE InitEngine
  BY <1>1, <1>t, <1>i DEF InitEngine, TypeOK, Places, Images, Accepted, WorkersImage, RunsImage, InLibUnanswered, Known
<1>2. CASE CancelEngine
  BY <1>2, <1>t, <1>i DEF CancelEngine, TypeOK, Places, Images, Accepted, WorkersImage, RunsImage, InLibUnanswered, Known
<1>3. CASE UnInitLib
  BY <1>3, <1>t, <1>i DEF UnInitLib, TypeOK, Places, Images, Accepted, WorkersImage, RunsImage, InLibUnanswered, Known
<1>4. ASSUME NEW r \in Requests, Fresh(r), Accept(r) PROVE Images'
  BY <1>4, <1>t, <1>i DEF Accept, Fresh, Requests, TypeOK, Places, Images, Accepted, WorkersImage, RunsImage, InLibUnanswered, Known
<1>5. CASE RunReturns
  BY <1>5, <1>t, <1>i DEF RunReturns, TypeOK, Places, Images, Accepted, WorkersImage, RunsImage, InLibUnanswered, Known
<1>6. CASE LoadImage
  BY <1>6, <1>t, <1>i DEF LoadImage, TypeOK, Places, Images, Accepted, WorkersImage, RunsImage, InLibUnanswered, Known
<1>7. CASE FeatureCall
  <2>1. /\ pc[Run] = "feature" /\ inLib \subseteq inLib' /\ inLib' \subseteq inLib \cup {img[Run]}
        /\ UNCHANGED <<reqs, xmu, xctx, job, img, lib, accepted, answered>>
        /\ \/ pc' = [pc EXCEPT ![Run] = "register"]
           \/ pc' = [pc EXCEPT ![Run] = "call"] /\ UNCHANGED inLib
    BY <1>7 DEF FeatureCall
  <2>2. Known(img[Run])
    BY <2>1, <1>i, <1>t DEF RunsImage, Known
  <2>3. Accepted' /\ InLibUnanswered'
    BY <2>1, <2>2, <1>i, <1>t DEF TypeOK, Accepted, RunsImage, InLibUnanswered, Known
  <2>4. ASSUME NEW k \in Workers PROVE WorkersImage(k)'
    BY <2>1, <1>i, <1>t DEF TypeOK, RunsImage, WorkersImage, Known
  <2>5. RunsImage'
    BY <2>1, <1>i, <1>t DEF TypeOK, RunsImage
  <2> QED
    BY <2>3, <2>4, <2>5 DEF Images
<1>8. CASE Register
  BY <1>8, <1>t, <1>i DEF Register, Requests, TypeOK, Places, Images, Accepted, WorkersImage, RunsImage, InLibUnanswered, Known
<1>9. ASSUME NEW k \in Workers, NEW i \in inLib, StartCallback(k, i) PROVE Images'
  BY <1>9, <1>t, <1>i DEF StartCallback, TypeOK, Places, Images, Accepted, WorkersImage, RunsImage, InLibUnanswered, Known
<1>10. ASSUME NEW k \in Workers, Lookup(k) PROVE Images'
  BY <1>10, <1>t, <1>i DEF NoWrap, Lookup, Requests, TypeOK, Places, Images, Accepted, WorkersImage, RunsImage, InLibUnanswered, Known
<1>11. ASSUME NEW t \in EngineThreads, CallOnCompleted(t) PROVE Images'
  BY <1>11, <1>t, <1>i DEF CallOnCompleted, Requests, TypeOK, Places, Images, Accepted, WorkersImage, RunsImage, InLibUnanswered, Known
<1>12. ASSUME NEW t \in EngineThreads, OnCompletedReturns(t) PROVE Images'
  BY <1>12, <1>t, <1>i DEF OnCompletedReturns, TypeOK, Places, Images, Accepted, WorkersImage, RunsImage, InLibUnanswered, Known
<1>13. CASE Panic
  BY <1>13, <1>t, <1>i DEF Panic, TypeOK, Places, Images, Accepted, WorkersImage, RunsImage, InLibUnanswered, Known
<1>14. CASE UNCHANGED vars
  BY <1>14, <1>t, <1>i DEF vars, TypeOK, Places, Images, Accepted, WorkersImage, RunsImage, InLibUnanswered, Known
<1> QED
  BY <1>1, <1>2, <1>3, <1>4, <1>5, <1>6, <1>7, <1>8, <1>9, <1>10, <1>11, <1>12, <1>13, <1>14
     DEF Next, RunStep, Worker, Completion

\* While ids fit a C.int, a request is reported at most once and never by two
\* threads at a time (doRequest's returns, one callback per image).
THEOREM ReportedOnce == NoWrap => (Spec => []AnsweredOnce)
<1> SUFFICES ASSUME NoWrap PROVE Spec => []AnsweredOnce
  OBVIOUS
<1>1. Control /\ Images => AnsweredOnce
  BY XFaceAssumption DEF Control, Places, Images, WorkersImage, RunsImage, AnsweredOnce, EngineThreads
<1>2. Control /\ Images /\ [Next]_vars => Images'
  BY NextImages
<1> QED
  BY <1>1, <1>2, InitControl, NextControl, InitImages, PTL DEF Spec

\* While ids fit a C.int, every report is about the request whose image it was
\* computed from, and goes to the connection the request came from (callbackOnCgo).
THEOREM ReportsOwnRequest == NoWrap => (Spec => []AnswersOwnRequest)
<1> SUFFICES ASSUME NoWrap PROVE Spec => []AnswersOwnRequest
  OBVIOUS
<1>1. Control /\ Images => AnswersOwnRequest
  BY XFaceAssumption DEF Control, Places, Images, WorkersImage, RunsImage, AnswersOwnRequest, EngineThreads
<1>2. Control /\ Images /\ [Next]_vars => Images'
  BY NextImages
<1> QED
  BY <1>1, <1>2, InitControl, NextControl, InitImages, PTL DEF Spec
=============================================================================
