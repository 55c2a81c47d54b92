-------------------------------- MODULE FaceLib --------------------------------
(***************************************************************************)
(* face/face.c: the C layer under XFace.  InitFaceLib makes gInstance and  *)
(* takes the face library through its calls in order; OnFeature runs on    *)
(* the library's threads and reads gInstance; UnInitFaceLib takes it away. *)
(* XFace has all of this as one variable, lib.                             *)
(***************************************************************************)
EXTENDS Integers, Sequences

CONSTANTS
  Workers,    \* the library's threads
  Images,     \* the images DoFeature may be called with
  None,       \* no image
  Keys,       \* the names of the members of the configuration file
  Values,     \* their values
  Good,       \* those the library accepts
  MaxConf,    \* bound: the members of the file
  MaxInits,   \* bound: the calls of InitFaceLib (App.Run makes one)
  Adversity   \* "late callback": HobotXFaceFree does not wait for callbacks

ASSUME FaceLibAssumption ==
  /\ None \notin Images
  /\ Good \subseteq Values
  /\ MaxConf \in Nat /\ MaxInits \in Nat

Members == [key : Keys, value : Values]
Confs == UNION {[1..n -> Members] : n \in 0..MaxConf}

VARIABLES
  gInstance,  \* "null", "bare" (its handle is NULL) or "held"
  engine,     \* the library's handle: "none", "made", "ready", "armed"
  conf,       \* the members of the file, none when it is not JSON
  c,          \* InitXFace's c, as a position in conf
  config,     \* what the library has been told: key -> value
  at,         \* where the caller of InitFaceLib, UnInitFaceLib is
  answer,     \* what InitFaceLib returned: "none", "ok", "failed"
  inits,      \* calls of InitFaceLib so far
  pc,         \* where each worker is
  image,      \* the image whose features a worker has
  features    \* per image: "no", "asked", "refused", "out", "released", "lost"

life == <<gInstance, engine, config>>
main == <<conf, c, at, answer, inits>>
work == <<pc, image, features>>
vars == <<life, main, work>>

Init ==
  /\ gInstance = "null" /\ engine = "none"
  /\ conf \in Confs /\ c = 0
  /\ config = [k \in {} |-> None]
  /\ at = "out" /\ answer = "none" /\ inits = 0
  /\ pc = [w \in Workers |-> "idle"]
  /\ image = [w \in Workers |-> None]
  /\ features = [i \in Images |-> "no"]

Return(result) == at' = "out" /\ answer' = result
-----------------------------------------------------------------------------
(* InitFaceLib and InitXFace *)

\* InitFaceLib returns at once when gInstance is there, whatever its handle.
InitAgain ==
  /\ at = "out" /\ inits < MaxInits /\ gInstance # "null"
  /\ inits' = inits + 1
  /\ Return("ok")
  /\ UNCHANGED <<life, work, conf, c>>

InitFaceLib ==
  /\ at = "out" /\ inits < MaxInits /\ gInstance = "null"
  /\ inits' = inits + 1
  /\ gInstance' = "bare"
  /\ at' = "create" /\ answer' = "none"
  /\ UNCHANGED <<engine, config, work, conf, c>>

Create ==
  /\ at = "create"
  /\ \/ engine' = "made" /\ at' = "model" /\ UNCHANGED answer
     \/ Return("failed") /\ UNCHANGED engine
  /\ UNCHANGED <<gInstance, config, work, conf, c, inits>>

\* Mutant of SetModel: the handle is forgotten, not freed, when it fails.
SetModelOrForget ==
  /\ at = "model"
  /\ \/ at' = "members" /\ c' = 1 /\ UNCHANGED <<engine, config, answer>>
     \/ Return("failed") /\ UNCHANGED <<engine, config, c>>
  /\ UNCHANGED <<gInstance, work, conf, inits>>

\* HobotXFaceSetConfig of model_conf; then c = root->child.
SetModel ==
  /\ at = "model"
  /\ \/ at' = "members" /\ c' = 1 /\ UNCHANGED <<engine, config, answer>>
     \/ /\ engine' = "none" /\ config' = [k \in {} |-> None]
        /\ Return("failed") /\ UNCHANGED c
  /\ UNCHANGED <<gInstance, work, conf, inits>>

Told(m) == [k \in DOMAIN config \cup {m.key} |-> IF k = m.key THEN m.value ELSE config[k]]

\* Mutant of SetMember: the loop ends at the first member that is refused.
SetMembersUntilRefused ==
  /\ at = "members" /\ c <= Len(conf)
  /\ \/ conf[c].value \in Good /\ config' = Told(conf[c]) /\ c' = c + 1
     \/ conf[c].value \notin Good /\ c' = Len(conf) + 1 /\ UNCHANGED config
  /\ UNCHANGED <<gInstance, engine, work, conf, at, answer, inits>>

\* A member the library refuses is reported on stderr and passed over.
SetMember ==
  /\ at = "members" /\ c <= Len(conf)
  /\ \/ conf[c].value \in Good /\ config' = Told(conf[c])
     \/ conf[c].value \notin Good /\ UNCHANGED config
  /\ c' = c + 1
  /\ UNCHANGED <<gInstance, engine, work, conf, at, answer, inits>>

\* HobotXFaceInit; when it fails the handle is freed and gInstance stays bare.
InitEngine ==
  /\ at = "members" /\ c > Len(conf)
  /\ c' = 0
  /\ \/ engine' = "ready" /\ at' = "arm" /\ UNCHANGED <<config, answer>>
     \/ /\ engine' = "none" /\ config' = [k \in {} |-> None]
        /\ Return("failed")
  /\ UNCHANGED <<gInstance, work, conf, inits>>

\* HobotXFaceSetCallback and *handle.
SetCallback ==
  /\ at = "arm"
  /\ engine' = "armed" /\ gInstance' = "held"
  /\ Return("ok")
  /\ UNCHANGED <<config, work, conf, c, inits>>
-----------------------------------------------------------------------------
(* UnInitFaceLib: run has returned, nobody calls DoFeature any more *)

\* HobotXFaceFree ends the threads and forgets the images not started.
FreesEngine ==
  /\ "late callback" \in Adversity \/ \A w \in Workers : pc[w] = "idle"
  /\ engine' = "none" /\ config' = [k \in {} |-> None]

UnInitFaceLib ==
  /\ at = "out" /\ gInstance # "null"
  /\ answer' = "none"
  /\ \/ gInstance = "held" /\ FreesEngine
     \/ gInstance = "bare" /\ UNCHANGED <<engine, config>>
  /\ at' = "free"
  /\ UNCHANGED <<gInstance, conf, c, inits, work>>

\* free(gInstance).
FreeInstance ==
  /\ at = "free"
  /\ gInstance' = "null"
  /\ at' = "out"
  /\ UNCHANGED <<engine, config, conf, c, answer, inits, work>>
-----------------------------------------------------------------------------
(* DoFeature and the callbacks *)

\* run calls DoFeature while InitFaceLib's answer is a success.  Only a NULL gInstance
\* turns it back: the library may be given the NULL handle of a bare one, which it is
\* taken to refuse, as it may refuse any image.
DoFeature(i) ==
  /\ at = "out" /\ answer = "ok" /\ gInstance # "null"
  /\ features[i] = "no"
  /\ \/ gInstance = "held" /\ features' = [features EXCEPT ![i] = "asked"]
     \/ features' = [features EXCEPT ![i] = "refused"]
  /\ UNCHANGED <<life, main, pc, image>>

Goto(w, there) == pc' = [pc EXCEPT ![w] = there]

\* A worker is done with image i and enters OnFeature.
Callback(w, i) ==
  /\ engine = "armed" \/ "late callback" \in Adversity
  /\ pc[w] = "idle" /\ features[i] = "asked"
  /\ features' = [features EXCEPT ![i] = "out"]
  /\ image' = [image EXCEPT ![w] = i]
  /\ Goto(w, "test")
  /\ UNCHANGED <<life, main>>

\* OnFeature returns when gInstance is NULL, and the features with it.
TestInstance(w) ==
  /\ pc[w] = "test"
  /\ \/ /\ gInstance # "null" /\ Goto(w, "callback")
        /\ UNCHANGED <<image, features>>
     \/ /\ gInstance = "null" /\ Goto(w, "idle")
        /\ features' = [features EXCEPT ![image[w]] = "lost"]
        /\ image' = [image EXCEPT ![w] = None]
  /\ UNCHANGED <<life, main>>

\* gInstance->callback: XFace's Lookup.
CallBack(w) ==
  /\ pc[w] = "callback"
  /\ Goto(w, "release")
  /\ UNCHANGED <<life, main, image, features>>

Release(w) ==
  /\ pc[w] = "release"
  /\ features' = [features EXCEPT ![image[w]] = "released"]
  /\ image' = [image EXCEPT ![w] = None]
  /\ Goto(w, "idle")
  /\ UNCHANGED <<life, main>>
-----------------------------------------------------------------------------
InitXFace == Create \/ SetModel \/ SetMember \/ InitEngine \/ SetCallback
Work(w) == TestInstance(w) \/ CallBack(w) \/ Release(w)

Next ==
  \/ InitAgain \/ InitFaceLib \/ InitXFace
  \/ UnInitFaceLib \/ FreeInstance
  \/ \E i \in Images : DoFeature(i)
  \/ \E w \in Workers, i \in Images : Callback(w, i)
  \/ \E w \in Workers : Work(w)

Spec == Init /\ [][Next]_vars
-----------------------------------------------------------------------------
TypeOK ==
  /\ gInstance \in {"null", "bare", "held"}
  /\ engine \in {"none", "made", "ready", "armed"}
  /\ conf \in Confs /\ c \in 0..(MaxConf + 1)
  /\ DOMAIN config \subseteq Keys /\ config \in [DOMAIN config -> Good]
  /\ at \in {"out", "create", "model", "members", "arm", "free"}
  /\ answer \in {"none", "ok", "failed"}
  /\ inits \in 0..MaxInits
  /\ pc \in [Workers -> {"idle", "test", "callback", "release"}]
  /\ image \in [Workers -> Images \cup {None}]
  /\ features \in [Images -> {"no", "asked", "refused", "out", "released", "lost"}]

\* gInstance stands for the engine.  Whenever the layer is left its handle is the engine,
\* made and given its callback, or there is no engine: whatever step of InitXFace failed,
\* the handle is neither forgotten nor freed a second time by UnInitFaceLib.  And no
\* library thread is in OnFeature, past its test, when gInstance is freed under it.
InstanceTracksEngine ==
  /\ at = "out" => IF gInstance = "held" THEN engine = "armed" ELSE engine = "none"
  /\ \A w \in Workers : pc[w] \in {"callback", "release"} => gInstance = "held"

\* The value the file leaves key k with, in the library's opinion.
LastGood(k, v) ==
  \E i \in 1..Len(conf) :
    /\ conf[i] = [key |-> k, value |-> v] /\ v \in Good
    /\ \A j \in (i + 1)..Len(conf) : conf[j].key = k => conf[j].value \notin Good

\* The engine starts with every setting of the file that it accepts: one it
\* refuses does not cost the ones after it.
ConfigIsTheFiles ==
  engine \in {"ready", "armed"} =>
    \A k \in Keys, v \in Values : LastGood(k, v) <=> (k \in DOMAIN config /\ config[k] = v)
=============================================================================
