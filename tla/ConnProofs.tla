------------------------------ MODULE ConnProofs ------------------------------
(***************************************************************************)
(* What the goroutines of a connection (conn.go) rest on.                  *)
(*                                                                         *)
(* The ids of its requests: for any set of read goroutines, Get hands out  *)
(* fresh ids only (UniqueID implements IdDispenser).                       *)
(*                                                                         *)
(* Its read deadline: for any pongWait, a client whose pongs take less     *)
(* than what pongWait has over pingPeriod never loses its connection to    *)
(* the deadline (Heartbeat).                                               *)
(***************************************************************************)
EXTENDS Heartbeat, UniqueID, TLAPS

\* The counter is ahead of every id handed out, and 0 until once.Do has run.
IdInv ==
  /\ IdTypeOK
  /\ instance = "nil" => counter = 0 /\ \A p \in Callers : pc[p] = "idle"
  /\ \A p \in Callers : \A id \in issued[p] : id < counter

LEMMA InitIdInv == IdInit => IdInv
  BY DEF IdInit, IdInv, IdTypeOK

LEMMA NextIdInv == IdInv /\ [IdNext]_idVars => IdInv'
<1> SUFFICES ASSUME IdInv, [IdNext]_idVars PROVE IdInv'
  OBVIOUS
<1> USE DEF IdInv, IdTypeOK
<1>1. ASSUME NEW p \in Callers, GetIdInstance(p) PROVE IdInv'
  BY <1>1 DEF GetIdInstance
<1>2. ASSUME NEW p \in Callers, Load(p) PROVE IdInv'
  BY <1>2 DEF Load
<1>3. ASSUME NEW p \in Callers, Swap(p) PROVE IdInv'
  <2>1. CASE counter = val[p]
    <3>1. /\ counter' = counter + 1
          /\ issued' = [issued EXCEPT ![p] = @ \cup {counter}]
          /\ pc' = [pc EXCEPT ![p] = "idle"]
          /\ UNCHANGED <<instance, val>>
      BY <1>3, <2>1 DEF Swap
    <3>2. IdTypeOK'
      BY <3>1
    <3>3. \A q \in Callers : \A id \in issued'[q] : id < counter'
      BY <3>1
    <3>4. instance # "nil"
      BY <1>3 DEF Swap
    <3> QED
      BY <3>1, <3>2, <3>3, <3>4
  <2>2. CASE counter # val[p]
    BY <1>3, <2>2 DEF Swap
  <2> QED
    BY <2>1, <2>2
<1>4. CASE UNCHANGED idVars
  BY <1>4 DEF idVars
<1> QED
  BY <1>1, <1>2, <1>3, <1>4 DEF IdNext

\* In every reachable state the variables have their types and no caller's
\* loaded value is ahead of the counter (seq.go, Get).
THEOREM IdTypeCorrect == IdSpec => []IdTypeOK
<1>1. IdInv => IdTypeOK
  BY DEF IdInv
<1> QED
  BY <1>1, InitIdInv, NextIdInv, PTL DEF IdSpec

\* seq.go implements the dispenser of fresh ids: a Swap that succeeds is an
\* Issue of an id above every id handed out before, any other step a stutter.
THEOREM ImplementsDispenser == IdSpec => DispensesFreshIds
<1>1. IdInit => Dispenser!Init
  BY DEF IdInit, Dispenser!Init
<1>2. IdInv /\ [IdNext]_idVars => [Dispenser!Next]_issued
  <2> SUFFICES ASSUME IdInv, [IdNext]_idVars PROVE [Dispenser!Next]_issued
    OBVIOUS
  <2> USE DEF IdInv, IdTypeOK
  <2>1. ASSUME NEW p \in Callers, Swap(p), issued' # issued PROVE Dispenser!Issue(p)
    <3>1. issued' = [issued EXCEPT ![p] = @ \cup {val[p]}] /\ counter = val[p]
      BY <2>1 DEF Swap
    <3>2. val[p] \in issued'[p] /\ val[p] \in Nat
      BY <3>1
    <3>3. val[p] \notin Dispenser!Taken
      BY <3>1 DEF Dispenser!Taken
    <3> QED
      BY <3>1, <3>2, <3>3 DEF Dispenser!Issue
  <2> QED
    BY <2>1 DEF IdNext, GetIdInstance, Load, idVars, Dispenser!Next
<1> QED
  BY <1>1, <1>2, InitIdInv, NextIdInv, PTL DEF IdSpec, DispensesFreshIds, Dispenser!Spec
-----------------------------------------------------------------------------
\* Ticks since the ticker's last value.
Elapsed == PingPeriod - ticker

\* There is a ping for which no pong has been read.
Outstanding == ticked = 1 \/ (writer = "write" /\ what = "ping") \/ owed >= 0 \/ pongs = 1

\* A ping is taken and written in no time, and its pong is read RoundTrip ticks later at most.
PingsAnswered ==
  /\ ticked = 1 \/ (writer = "write" /\ what = "ping") => Elapsed = 0
  /\ owed >= 0 => owed = Elapsed
  /\ Outstanding => Elapsed <= RoundTrip

\* The last pong but one moved the deadline a period ago, the last one since its ping.
DeadlineAhead == deadline >= PongWait - Elapsed - IF Outstanding THEN PingPeriod ELSE 0

Goroutines ==
  /\ writer = "exited" => reader = "exited"
  /\ reader \in {"read", "submit"} <=> cause = "none"
  /\ due + (IF reader = "submit" THEN 1 ELSE 0) <= messages
  /\ owed >= 0 => peer = "there"

Answering == peer = "there" /\ reader \in {"read", "submit"}

Inv == TypeOK /\ Goroutines /\ (Answering => PingsAnswered /\ DeadlineAhead)
-----------------------------------------------------------------------------
\* What the theorem assumes of the constants, and what follows from it.
InTime == "slow engine" \notin Adversity /\ RoundTrip < PongWait - PingPeriod

LEMMA Periods ==
  ASSUME InTime
  PROVE  /\ PongWait \in Nat /\ RoundTrip \in Nat \ {0} /\ PingPeriod \in Nat \ {0}
         /\ RoundTrip + PingPeriod < PongWait /\ RoundTrip < PingPeriod
<1>1. PongWait \in Nat /\ RoundTrip \in Nat \ {0}  BY HeartbeatAssumption
<1>2. /\ PingPeriod \in Int
      /\ 10 * PingPeriod <= 9 * PongWait /\ 9 * PongWait < 10 * PingPeriod + 10
  BY <1>1 DEF PingPeriod
<1>3. PingPeriod \in Int /\ RoundTrip < PongWait - PingPeriod  BY <1>2 DEF InTime
<1>4. RoundTrip + PingPeriod < PongWait  BY <1>1, <1>3
<1> QED  BY <1>1, <1>2, <1>4

LEMMA InitInv == InTime /\ Init => Inv
<1> SUFFICES ASSUME InTime, Init  PROVE Inv  OBVIOUS
<1> USE Periods, HeartbeatAssumption DEF Init
<1>1. TypeOK  BY DEF TypeOK
<1>2. Goroutines  BY DEF Goroutines
<1>3. PingsAnswered /\ DeadlineAhead
  BY DEF PingsAnswered, DeadlineAhead, Outstanding, Elapsed
<1> QED  BY <1>1, <1>2, <1>3 DEF Inv

\* When time passes nobody has anything to do; the period of the ticker is longer than
\* an answer takes, so the ping that is out is answered before the next.
LEMMA TickInv ==
  ASSUME InTime, Inv, Tick
  PROVE  Inv'
<1> USE Periods, HeartbeatAssumption
<1>1. /\ TypeOK /\ Goroutines /\ writer # "exited" /\ ~CanRun
      /\ UNCHANGED <<clientVars, sock, writer, what, readerVars, due, unread, ctx>>
  BY DEF Inv, Tick
<1>2. /\ deadline' = IF deadline > 0 THEN deadline - 1 ELSE 0
      /\ owed' = IF owed >= 0 THEN owed + 1 ELSE owed
      /\ IF ticker > 1 THEN ticker' = ticker - 1 /\ ticked' = ticked
         ELSE ticker' = PingPeriod /\ ticked' = 1
  BY DEF Tick
<1>n. /\ writer = "select" => ticked # 1
      /\ writer = "write" => Blocked
      /\ reader = "read" => deadline # 0 /\ pongs # 1
      /\ reader # "submit"
      /\ ~(peer = "there" /\ owed = RoundTrip)
  <2>1. ~CanRun /\ "slow engine" \notin Adversity  BY <1>1 DEF InTime
  <2> QED  BY ONLY <2>1 DEF CanRun
<1>3. owed >= 0 => owed < RoundTrip
  <2>1. owed >= 0 => owed # RoundTrip  BY <1>1, <1>n DEF Goroutines
  <2> QED  BY <1>1, <2>1 DEF TypeOK
<1>4. TypeOK'
  BY <1>1, <1>2, <1>3 DEF TypeOK, clientVars, readerVars
<1>5. Goroutines'
  BY <1>1, <1>2 DEF Goroutines, TypeOK, clientVars, readerVars
<1>6. ASSUME Answering  PROVE (PingsAnswered /\ DeadlineAhead)'
  <2>1. /\ ticked = 0 /\ pongs = 0 /\ deadline > 0 /\ writer = "select"
    BY <1>1, <1>6, <1>n DEF Answering, Blocked, TypeOK
  <2>2. PingsAnswered /\ DeadlineAhead  BY <1>6 DEF Inv
  <2>3. pongs' = 0 /\ writer' = "select"  BY <1>1, <2>1 DEF readerVars
  <2>4. deadline' = deadline - 1 /\ deadline \in Nat /\ ticker \in 1..PingPeriod /\ owed \in -1..RoundTrip
    BY <1>1, <1>2, <2>1 DEF TypeOK
  <2>5. Outstanding <=> owed >= 0  BY <2>1 DEF Outstanding
  <2>6. Outstanding' <=> ticked' = 1 \/ owed' >= 0  BY <2>3 DEF Outstanding
  <2>7. CASE ticker > 1
    <3>1. Elapsed' = Elapsed + 1 /\ ticked' = 0 /\ Elapsed \in Int
      BY <1>2, <2>1, <2>4, <2>7 DEF Elapsed
    <3>2. PingsAnswered'
      BY <1>2, <1>3, <2>2, <2>3, <2>4, <2>6, <3>1 DEF PingsAnswered
    <3>3. DeadlineAhead'
      BY <1>2, <2>2, <2>4, <2>5, <2>6, <3>1 DEF DeadlineAhead
    <3> QED  BY <3>2, <3>3
  <2>8. CASE ~(ticker > 1)
    <3>1. Elapsed = PingPeriod - 1 /\ Elapsed' = 0 /\ ticked' = 1
      BY <1>2, <2>4, <2>8 DEF Elapsed
    <3>2. owed = -1 /\ owed' = -1
      BY <1>2, <1>3, <2>2, <2>4, <3>1 DEF PingsAnswered
    <3>3. PingsAnswered'
      BY <2>6, <3>1, <3>2 DEF PingsAnswered
    <3>4. DeadlineAhead'
      BY <2>2, <2>4, <2>5, <2>6, <3>1, <3>2 DEF DeadlineAhead
    <3> QED  BY <3>3, <3>4
  <2> QED  BY <2>7, <2>8
<1>7. Answering' => Answering  BY <1>1 DEF Answering, clientVars, readerVars
<1> QED  BY <1>4, <1>5, <1>6, <1>7 DEF Inv

\* The steps of the goroutines and of the client take no time.
LEMMA StepInv == InTime /\ Inv /\ [Next]_vars => Inv'
<1> SUFFICES ASSUME InTime, Inv, [Next]_vars  PROVE Inv'
  OBVIOUS
<1> USE Periods, HeartbeatAssumption
<1> USE DEF clientVars, timeVars, writerVars, readerVars, flowVars
<1> USE DEF Inv, TypeOK, Goroutines, Answering, PingsAnswered, DeadlineAhead, Outstanding, Elapsed
<1>1. CASE Pong  BY <1>1 DEF Pong
<1>2. CASE GoAway \/ CloseConnection  BY <1>2 DEF GoAway, CloseConnection
<1>3. CASE ReadPong  BY <1>3 DEF ReadPong
<1>4. CASE ReadMessage \/ BadMessage  BY <1>4 DEF ReadMessage, BadMessage
<1>5. CASE Submitted  BY <1>5 DEF Submitted
<1>6. CASE ReadFails  BY <1>6 DEF ReadFails
<1>7. CASE ServerQuits \/ CancelServer  BY <1>7 DEF ServerQuits, CancelServer
<1>8. CASE TakePing  BY <1>8 DEF TakePing
<1>9. CASE TakeResponse  BY <1>9 DEF TakeResponse
<1>10. CASE Written  BY <1>10 DEF Written, Blocked
<1>11. CASE ReceiveDone  BY <1>11 DEF ReceiveDone
<1>12. CASE Tick  BY <1>12, TickInv
<1>13. CASE UNCHANGED vars  BY <1>13 DEF vars
<1> QED
  BY <1>1, <1>2, <1>3, <1>4, <1>5, <1>6, <1>7, <1>8, <1>9, <1>10, <1>11, <1>12, <1>13
  DEF Next, Client, Reader, Writer
-----------------------------------------------------------------------------
\* With a client in time and an engine that takes requests, every variable of the
\* connection keeps its type and bound.
THEOREM TypeCorrect ==
  ASSUME InTime
  PROVE  Spec => []TypeOK
<1>1. Init => Inv  BY InitInv
<1>2. Inv /\ [Next]_vars => Inv'  BY StepInv
<1>3. Inv => TypeOK  BY DEF Inv
<1> QED  BY <1>1, <1>2, <1>3, PTL DEF Spec

\* What pongWait and pingPeriod are for: a client that answers every ping within pongWait
\* less pingPeriod, to an engine that takes its requests, does not lose its connection to
\* the read deadline, however its messages, the responses and the pings interleave.
THEOREM AnsweringClientIsKept ==
  ASSUME InTime
  PROVE  Spec => []AnsweringClientKept
<1> DEFINE Kept == Inv /\ AnsweringClientKept
<1>1. Init => Kept
  BY InitInv DEF Init, AnsweringClientKept
<1>2. Kept /\ [Next]_vars => Kept'
  <2> SUFFICES ASSUME Kept, [Next]_vars  PROVE AnsweringClientKept'
    BY StepInv
  <2>1. peer' = "there" => peer = "there"
    BY DEF Next, Client, Reader, Writer, Pong, GoAway, CloseConnection, ReadPong, ReadMessage,
       Submitted, BadMessage, ReadFails, ServerQuits, TakePing, TakeResponse, Written,
       ReceiveDone, CancelServer, Tick, vars, clientVars
  <2>2. CASE ReadFails
    <3>1. peer = "there" => deadline > 0
      <4>1. (Answering /\ peer = "there") \/ peer # "there"  BY <2>2 DEF ReadFails, Answering
      <4>2. ASSUME Answering  PROVE deadline > 0
        <5>1. PingsAnswered /\ DeadlineAhead /\ TypeOK  BY <4>2 DEF Inv
        <5>2. Elapsed \in Nat /\ Elapsed < PingPeriod  BY <5>1, Periods DEF Elapsed, TypeOK
        <5> QED  BY <5>1, <5>2, Periods DEF PingsAnswered, DeadlineAhead, TypeOK
      <4> QED  BY <4>1, <4>2
    <3> QED  BY <2>1, <2>2, <3>1 DEF ReadFails, AnsweringClientKept
  <2>3. CASE BadMessage  BY <2>3 DEF BadMessage, AnsweringClientKept
  <2>4. CASE cause' = cause  BY <2>1, <2>4 DEF AnsweringClientKept
  <2> QED
    BY <2>2, <2>3, <2>4 DEF Next, Client, Reader, Writer, Pong, GoAway, CloseConnection,
       ReadPong, ReadMessage, Submitted, ServerQuits, TakePing, TakeResponse, Written,
       ReceiveDone, CancelServer, Tick, vars, readerVars
<1>3. Kept => AnsweringClientKept  OBVIOUS
<1> HIDE DEF Kept
<1> QED  BY <1>1, <1>2, <1>3, PTL DEF Spec
=============================================================================
