----------------------------- MODULE FaceLibProofs -----------------------------
(***************************************************************************)
(* What FaceLib shows of the C layer with two threads, two images and      *)
(* three members of the file, for any of them.  TLC has checked Inv with   *)
(* the bounds of FaceLib.cfg.                                              *)
(***************************************************************************)
EXTENDS FaceLib, TLAPS

\* How far gInstance and the engine are wherever the caller is; "armed" is seen only
\* from outside, with the handle in gInstance.
Stages ==
  /\ at = "out" => IF gInstance = "held" THEN engine = "armed" ELSE engine = "none"
  /\ at = "create" => gInstance = "bare" /\ engine = "none"
  /\ at \in {"model", "members"} => gInstance = "bare" /\ engine = "made"
  /\ at = "arm" => gInstance = "bare" /\ engine = "ready"
  /\ at = "free" => gInstance # "null" /\ engine = "none"

\* After the first n members the file leaves key k with value v.
Leaves(n, k, v) ==
  \E i \in 1..n :
    /\ conf[i] = [key |-> k, value |-> v] /\ v \in Good
    /\ \A j \in (i + 1)..n : conf[j].key = k => conf[j].value \notin Good

\* The library has been told the first n members, and nothing else.
Reflects(n) ==
  \A k \in Keys, v \in Values : Leaves(n, k, v) <=> (k \in DOMAIN config /\ config[k] = v)

\* The configuration is made with the handle, member by member, and goes with it.
Settings ==
  /\ engine = "none" \/ at = "model" => DOMAIN config = {}
  /\ at = "members" => c \in 1..(Len(conf) + 1) /\ Reflects(c - 1)
  /\ engine \in {"ready", "armed"} => Reflects(Len(conf))

\* The library's threads are in OnFeature only while there is an armed engine.
Threads == \A w \in Workers : pc[w] # "idle" => engine = "armed"

Inv == TypeOK /\ Stages /\ Settings
-----------------------------------------------------------------------------
(* The members of the file and what they leave *)

\* The file has at most MaxConf members, each a key and a value.
LEMMA ConfIsASequence ==
  ASSUME conf \in Confs
  PROVE  Len(conf) \in 0..MaxConf /\ conf \in [1..Len(conf) -> Members]
<1>1. PICK n \in 0..MaxConf : conf \in [1..n -> Members]  BY DEF Confs
<1>2. conf \in Seq(Members) /\ Len(conf) = n  BY <1>1, FaceLibAssumption
<1> QED  BY <1>1, <1>2

\* Before the first member the file leaves nothing.
LEMMA LeavesNothing == \A k, v : ~Leaves(0, k, v)
BY DEF Leaves

\* One member on, a key is left with the new value when that one is good, with the old
\* one when the member is refused or about another key.
LEMMA LeavesNext ==
  ASSUME NEW n \in Nat \ {0}, n <= Len(conf), conf \in [1..Len(conf) -> Members],
         Len(conf) \in Nat, NEW k, NEW v
  PROVE  Leaves(n, k, v) <=>
           \/ conf[n].key = k /\ conf[n].value = v /\ v \in Good
           \/ Leaves(n - 1, k, v) /\ ~(conf[n].key = k /\ conf[n].value \in Good)
<1>1. conf[n] \in Members /\ n \in 1..n /\ 1..n = 1..(n - 1) \cup {n}
  OBVIOUS
<1>2. ASSUME conf[n].key = k, conf[n].value = v, v \in Good  PROVE Leaves(n, k, v)
  <2>1. conf[n] = [key |-> k, value |-> v]  BY <1>1, <1>2 DEF Members
  <2>2. (n + 1)..n = {}  OBVIOUS
  <2> QED  BY <1>1, <1>2, <2>1, <2>2 DEF Leaves
<1>3. ASSUME Leaves(n - 1, k, v), ~(conf[n].key = k /\ conf[n].value \in Good)
      PROVE  Leaves(n, k, v)
  <2>1. PICK i \in 1..(n - 1) :
          /\ conf[i] = [key |-> k, value |-> v] /\ v \in Good
          /\ \A j \in (i + 1)..(n - 1) : conf[j].key = k => conf[j].value \notin Good
    BY <1>3 DEF Leaves
  <2>2. \A j \in (i + 1)..n : j \in (i + 1)..(n - 1) \/ j = n  OBVIOUS
  <2>3. i \in 1..n  OBVIOUS
  <2> QED  BY <1>3, <2>1, <2>2, <2>3 DEF Leaves
<1>4. ASSUME Leaves(n, k, v)
      PROVE  \/ conf[n].key = k /\ conf[n].value = v /\ v \in Good
             \/ Leaves(n - 1, k, v) /\ ~(conf[n].key = k /\ conf[n].value \in Good)
  <2>1. PICK i \in 1..n :
          /\ conf[i] = [key |-> k, value |-> v] /\ v \in Good
          /\ \A j \in (i + 1)..n : conf[j].key = k => conf[j].value \notin Good
    BY <1>4 DEF Leaves
  <2>2. CASE i = n  BY <2>1, <2>2
  <2>3. CASE i # n
    <3>1. i \in 1..(n - 1) /\ n \in (i + 1)..n  BY <2>3
    <3>2. \A j \in (i + 1)..(n - 1) : j \in (i + 1)..n  OBVIOUS
    <3> QED  BY <2>1, <3>1, <3>2 DEF Leaves
  <2> QED  BY <2>2, <2>3
<1> QED  BY <1>2, <1>3, <1>4

\* What is told of a member, or not, reflects the file one member further.
LEMMA ReflectsNext ==
  ASSUME TypeOK, c \in 1..Len(conf), Reflects(c - 1), SetMember
  PROVE  Reflects(c - 1)'
<1>1. Len(conf) \in Nat /\ conf \in [1..Len(conf) -> Members]
  BY ConfIsASequence, FaceLibAssumption DEF TypeOK
<1>2. conf[c] \in Members /\ c \in Nat \ {0} /\ c <= Len(conf)  BY <1>1
<1>3. conf' = conf /\ c' = c + 1 /\ c' - 1 = c  BY <1>2 DEF SetMember
<1> SUFFICES ASSUME NEW k \in Keys, NEW v \in Values
             PROVE  Leaves(c - 1, k, v)' <=> (k \in DOMAIN config' /\ config'[k] = v)
  BY DEF Reflects
<1>4. Leaves(c - 1, k, v)' <=> Leaves(c, k, v)  BY <1>3 DEF Leaves
<1>5. Leaves(c, k, v) <=>
        \/ conf[c].key = k /\ conf[c].value = v /\ v \in Good
        \/ Leaves(c - 1, k, v) /\ ~(conf[c].key = k /\ conf[c].value \in Good)
  BY <1>1, <1>2, LeavesNext
<1>6. Leaves(c - 1, k, v) <=> (k \in DOMAIN config /\ config[k] = v)  BY DEF Reflects
<1>7. CASE conf[c].value \in Good /\ config' = Told(conf[c])
  <2>1. /\ DOMAIN config' = DOMAIN config \cup {conf[c].key}
        /\ k \in DOMAIN config' =>
             config'[k] = IF k = conf[c].key THEN conf[c].value ELSE config[k]
    BY <1>7 DEF Told
  <2> QED  BY <1>4, <1>5, <1>6, <1>7, <2>1
<1>8. CASE conf[c].value \notin Good /\ config' = config
  BY <1>4, <1>5, <1>6, <1>8
<1> QED  BY <1>7, <1>8 DEF SetMember
-----------------------------------------------------------------------------
(* The types *)

LEMMA InitInv == Init => Inv
<1> SUFFICES ASSUME Init  PROVE Inv  OBVIOUS
<1>1. TypeOK  BY FaceLibAssumption DEF Init, TypeOK
<1>2. Stages  BY DEF Init, Stages
<1>3. Settings  BY DEF Init, Settings
<1> QED  BY <1>1, <1>2, <1>3 DEF Inv

LEMMA NextTypes == Inv /\ [Next]_vars => TypeOK'
<1> SUFFICES ASSUME TypeOK, Settings, [Next]_vars  PROVE TypeOK'
  BY DEF Inv
<1> USE FaceLibAssumption DEF TypeOK, life, main, work, Return
<1>0. Len(conf) \in 0..MaxConf /\ conf \in [1..Len(conf) -> Members]  BY ConfIsASequence
<1>1. CASE InitAgain  BY <1>1 DEF InitAgain
<1>2. CASE InitFaceLib  BY <1>2 DEF InitFaceLib
<1>3. CASE Create  BY <1>3 DEF Create
<1>e. [k \in {} |-> None] \in [{} -> Good] /\ DOMAIN [k \in {} |-> None] = {}  OBVIOUS
<1>4. CASE SetModel
  <2>1. DOMAIN config' \subseteq Keys /\ config' \in [DOMAIN config' -> Good]
    BY <1>4, <1>e DEF SetModel
  <2> QED  BY <1>4, <2>1 DEF SetModel
<1>5. CASE SetMember
  <2>1. c \in 1..Len(conf) /\ conf[c] \in Members  BY <1>0, <1>5 DEF SetMember, Settings
  <2>2. DOMAIN config' \subseteq Keys /\ config' \in [DOMAIN config' -> Good]
    BY <1>5, <2>1 DEF SetMember, Told, Members
  <2>3. c' \in 0..(MaxConf + 1)  BY <1>0, <1>5, <2>1 DEF SetMember
  <2> QED  BY <1>5, <2>2, <2>3 DEF SetMember
<1>6. CASE InitEngine
  <2>1. DOMAIN config' \subseteq Keys /\ config' \in [DOMAIN config' -> Good]
    BY <1>6, <1>e DEF InitEngine
  <2> QED  BY <1>6, <2>1 DEF InitEngine
<1>7. CASE SetCallback  BY <1>7 DEF SetCallback
<1>8. CASE UnInitFaceLib  BY <1>8 DEF UnInitFaceLib, FreesEngine
<1>9. CASE FreeInstance  BY <1>9 DEF FreeInstance
<1>10. ASSUME NEW i \in Images, DoFeature(i)  PROVE TypeOK'  BY <1>10 DEF DoFeature
<1>11. ASSUME NEW w \in Workers, NEW i \in Images, Callback(w, i)  PROVE TypeOK'
  BY <1>11 DEF Callback, Goto
<1>12. ASSUME NEW w \in Workers, Work(w)  PROVE TypeOK'
  <2>1. CASE TestInstance(w)  BY <2>1 DEF TestInstance, Goto
  <2>2. CASE CallBack(w)  BY <2>2 DEF CallBack, Goto
  <2>3. CASE Release(w)  BY <2>3 DEF Release, Goto
  <2> QED  BY <1>12, <2>1, <2>2, <2>3 DEF Work
<1>13. CASE UNCHANGED vars  BY <1>13 DEF vars
<1> QED
  BY <1>1, <1>2, <1>3, <1>4, <1>5, <1>6, <1>7, <1>8, <1>9, <1>10, <1>11, <1>12, <1>13
  DEF Next, InitXFace
-----------------------------------------------------------------------------
(* gInstance, the engine and what it has been told *)

\* The library's threads and DoFeature leave everything else alone.
LEMMA ThreadsKeepLife ==
  ASSUME \/ \E i \in Images : DoFeature(i)
         \/ \E w \in Workers, i \in Images : Callback(w, i)
         \/ \E w \in Workers : Work(w)
         \/ UNCHANGED vars
  PROVE  UNCHANGED <<gInstance, engine, config, conf, c, at>>
BY DEF DoFeature, Callback, Work, TestInstance, CallBack, Release, vars, life, main

LEMMA NextStages == Inv /\ [Next]_vars => Stages'
<1> SUFFICES ASSUME TypeOK, Stages, [Next]_vars  PROVE Stages'
  BY DEF Inv
<1> USE DEF TypeOK, Stages, life, main, work, Return
<1>1. CASE InitAgain  BY <1>1 DEF InitAgain
<1>2. CASE InitFaceLib  BY <1>2 DEF InitFaceLib
<1>3. CASE InitXFace
  BY <1>3 DEF InitXFace, Create, SetModel, SetMember, InitEngine, SetCallback
<1>4. CASE UnInitFaceLib  BY <1>4 DEF UnInitFaceLib, FreesEngine
<1>5. CASE FreeInstance  BY <1>5 DEF FreeInstance
<1>6. ASSUME UNCHANGED <<gInstance, engine, config, conf, c, at>>  PROVE Stages'  BY <1>6
<1> QED  BY <1>1, <1>2, <1>3, <1>4, <1>5, <1>6, ThreadsKeepLife DEF Next

LEMMA NextSettings == Inv /\ [Next]_vars => Settings'
<1> SUFFICES ASSUME Inv, [Next]_vars  PROVE Settings'  OBVIOUS
<1> USE DEF Inv, Stages, Settings, life, main, Return
<1>0. Len(conf) \in Nat /\ (TypeOK => c \in Nat)
  BY ConfIsASequence, FaceLibAssumption DEF TypeOK
<1>1. CASE InitAgain  BY <1>1 DEF InitAgain, Reflects, Leaves
<1>2. CASE InitFaceLib  BY <1>2 DEF InitFaceLib
<1>3. CASE Create  BY <1>3 DEF Create
<1>4. CASE SetModel
  <2>1. engine' # "none" => at' = "members" /\ c' = 1 /\ config' = config /\ conf' = conf
    BY <1>4 DEF SetModel
  <2>2. ASSUME at' = "members"  PROVE Reflects(c - 1)'
    <3>1. c' - 1 = 0 /\ config' = config /\ DOMAIN config = {}  BY <1>4, <2>2 DEF SetModel
    <3>2. \A k, v : ~Leaves(c - 1, k, v)'  BY <3>1 DEF Leaves
    <3> QED  BY <3>1, <3>2 DEF Reflects
  <2> QED  BY <1>0, <1>4, <2>2 DEF SetModel, TypeOK
<1>5. CASE SetMember
  <2>1. c \in 1..Len(conf) /\ Reflects(c - 1)' /\ c' = c + 1 /\ conf' = conf
    BY <1>0, <1>5, ReflectsNext DEF SetMember
  <2> QED  BY <1>0, <1>5, <2>1 DEF SetMember
<1>6. CASE InitEngine
  <2>1. c = Len(conf) + 1 /\ Reflects(Len(conf))  BY <1>0, <1>6 DEF InitEngine
  <2>2. engine' = "ready" => Reflects(Len(conf))'
    BY <1>6, <2>1 DEF InitEngine, Reflects, Leaves
  <2> QED  BY <1>6, <2>2 DEF InitEngine
<1>7. CASE SetCallback  BY <1>7 DEF SetCallback, Reflects, Leaves
<1>8. CASE UnInitFaceLib  BY <1>8 DEF UnInitFaceLib, FreesEngine
<1>9. CASE FreeInstance  BY <1>9 DEF FreeInstance
<1>10. ASSUME UNCHANGED <<gInstance, engine, config, conf, c, at>>  PROVE Settings'
  BY <1>10 DEF Reflects, Leaves
<1> QED
  BY <1>1, <1>2, <1>3, <1>4, <1>5, <1>6, <1>7, <1>8, <1>9, <1>10, ThreadsKeepLife
  DEF Next, InitXFace
-----------------------------------------------------------------------------
(* The library's threads *)

LEMMA NextThreads ==
  ASSUME "late callback" \notin Adversity, Inv, Threads, [Next]_vars
  PROVE  Threads'
<1> USE DEF Threads, Inv, Stages, TypeOK, life, main, work, Return
<1>1. CASE InitAgain  BY <1>1 DEF InitAgain
<1>2. CASE InitFaceLib  BY <1>2 DEF InitFaceLib
<1>3. CASE InitXFace
  BY <1>3 DEF InitXFace, Create, SetModel, SetMember, InitEngine, SetCallback
<1>4. CASE UnInitFaceLib  BY <1>4 DEF UnInitFaceLib, FreesEngine
<1>5. CASE FreeInstance  BY <1>5 DEF FreeInstance
<1>6. ASSUME NEW i \in Images, DoFeature(i)  PROVE Threads'  BY <1>6 DEF DoFeature
<1>7. ASSUME NEW w \in Workers, NEW i \in Images, Callback(w, i)  PROVE Threads'
  BY <1>7 DEF Callback, Goto
<1>8. ASSUME NEW w \in Workers, Work(w)  PROVE Threads'
  BY <1>8 DEF Work, TestInstance, CallBack, Release, Goto
<1>9. CASE UNCHANGED vars  BY <1>9 DEF vars
<1> QED  BY <1>1, <1>2, <1>3, <1>4, <1>5, <1>6, <1>7, <1>8, <1>9 DEF Next
-----------------------------------------------------------------------------
(* The theorems *)

LEMMA Invariance == Spec => []Inv
<1>1. Inv /\ [Next]_vars => Inv'  BY NextTypes, NextStages, NextSettings DEF Inv
<1> QED  BY InitInv, <1>1, PTL DEF Spec

\* Every variable of the layer keeps its type, and the library holds none but accepted
\* values of the file's keys.
THEOREM TypeCorrect == Spec => []TypeOK
BY Invariance, PTL DEF Inv

\* Whatever the file says, the engine runs with all of it that the library accepts, each
\* key at its last good value: a member refused stops neither the loop nor the start.
THEOREM StartsWithItsFile == Spec => []ConfigIsTheFiles
<1>1. Inv => ConfigIsTheFiles
  BY DEF Inv, Settings, Reflects, Leaves, ConfigIsTheFiles, LastGood
<1> QED  BY <1>1, Invariance, PTL

\* When HobotXFaceFree waits for the callbacks under way, gInstance stands for the engine
\* whichever step of InitXFace failed and however often the layer is taken away and made
\* again, and UnInitFaceLib never frees it under a thread that is past OnFeature's test.
THEOREM InstanceStandsForEngine ==
  ASSUME "late callback" \notin Adversity
  PROVE  Spec => []InstanceTracksEngine
<1>1. Init => Threads  BY DEF Init, Threads
<1>2. Inv /\ Threads /\ [Next]_vars => Threads'  BY NextThreads
<1>3. Inv /\ Threads => InstanceTracksEngine
  <2> SUFFICES ASSUME Inv, Threads  PROVE InstanceTracksEngine  OBVIOUS
  <2>1. engine = "armed" => gInstance = "held"  BY DEF Inv, Stages, TypeOK
  <2>2. \A w \in Workers : pc[w] \in {"callback", "release"} => pc[w] # "idle"  OBVIOUS
  <2> QED  BY <2>1, <2>2 DEF Inv, Stages, Threads, InstanceTracksEngine
<1> QED  BY <1>1, <1>2, <1>3, Invariance, PTL DEF Spec
=============================================================================
