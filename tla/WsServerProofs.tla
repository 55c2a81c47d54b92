---------------------------- MODULE WsServerProofs ----------------------------
(***************************************************************************)
(* For any finite set of connections, any calling threads and responses,   *)
(* and with the bounds MaxSeq and MaxReq any numbers.                      *)
(***************************************************************************)
EXTENDS WsServer, FiniteSetTheorems, TLAPS

\* A connection is in the group from its Add to its write goroutine's Done.
InGroup(c) == Live(c) \/ hpc[c] = "start"
Group == {c \in Conns : InGroup(c)}

\* The lives of a handler, of the write goroutine it starts and of the read
\* goroutine that one spawns and outlives.
Lives ==
  \A c \in Conns :
    /\ wpc[c] = "none" <=> hpc[c] \in {"idle", "key", "insert", "add", "start"}
    /\ wpc[c] = "none" <=> rpc[c] = "none"
    /\ wpc[c] \in {"closeOnDone", "return", "exited"} <=> rpc[c] = "exited"

WgCounts == wg = Cardinality(Group)

Control == TypeOK /\ Lives /\ WgCounts

LEMMA InitControl == Init => Control
<1> SUFFICES ASSUME Init PROVE Control
  OBVIOUS
<1>1. Group = {}
  BY DEF Init, Group, InGroup, Live
<1>2. WgCounts
  BY <1>1, FS_EmptySet DEF Init, WgCounts
<1>3. Lives
  BY DEF Init, Lives
<1>4. TypeOK
  BY DEF Init, TypeOK
<1> QED
  BY <1>2, <1>3, <1>4 DEF Control

\* A step after which the same connections are in the group leaves wg right.
LEMMA SameGroup ==
  ASSUME WgCounts, UNCHANGED wg,
         \A c \in Conns : InGroup(c)' <=> InGroup(c)
  PROVE  WgCounts'
<1>1. Group' = Group
  BY DEF Group
<1> QED
  BY <1>1 DEF WgCounts

LEMMA LiveFinite == IsFiniteSet(Group) /\ Cardinality(Group) \in Nat
  BY WsServerAssumption, FS_Subset, FS_CardinalityType DEF Group

LEMMA AddCounts ==
  ASSUME Control, NEW c \in Conns, AddConn(c)
  PROVE  WgCounts'
<1>1. c \notin Group /\ Group' = Group \cup {c}
  BY DEF Control, TypeOK, Lives, Group, InGroup, Live, AddConn, handlerVars, writerVars
<1>2. Cardinality(Group \cup {c}) = Cardinality(Group) + 1
  BY <1>1, LiveFinite, FS_AddElement
<1> QED
  BY <1>1, <1>2 DEF Control, WgCounts, AddConn

LEMMA ReturnCounts ==
  ASSUME Control, NEW c \in Conns, WriterReturns(c)
  PROVE  WgCounts' /\ wg' \in Nat
<1>1. c \in Group /\ Group' = Group \ {c}
  BY DEF Control, TypeOK, Lives, Group, InGroup, Live, WriterReturns, handlerVars
<1>2. Cardinality(Group \ {c}) = Cardinality(Group) - 1
  BY <1>1, LiveFinite, FS_RemoveElement
<1>3. Cardinality(Group \ {c}) \in Nat
  BY LiveFinite, FS_Subset, FS_CardinalityType
<1> QED
  BY <1>1, <1>2, <1>3 DEF Control, WgCounts, WriterReturns

\* Most steps touch neither the group nor the places it depends on.
LEMMA SameWriters ==
  ASSUME WgCounts, UNCHANGED <<wpc, wg>>,
         \A c \in Conns : hpc'[c] = "start" <=> hpc[c] = "start"
  PROVE  WgCounts'
  BY SameGroup DEF InGroup, Live

LEMMA NextControl == Control /\ [Next]_vars => Control'
<1> SUFFICES ASSUME Control, [Next]_vars PROVE Control'
  OBVIOUS
<1>t. TypeOK /\ Lives /\ WgCounts
  BY DEF Control
<1> USE WsServerAssumption DEF closeVars, handlerVars, writerVars, readerVars, senderVars
<1>1. CASE Start
  BY <1>1, <1>t, SameWriters DEF Start, Control, TypeOK, Lives
<1>2. CASE AssignServer
  BY <1>2, <1>t, SameWriters DEF AssignServer, Control, TypeOK, Lives
<1>3. CASE Listen
  BY <1>3, <1>t, SameWriters DEF Listen, Control, TypeOK, Lives
<1>4. CASE ServeReturns
  BY <1>4, <1>t, SameWriters DEF ServeReturns, Control, TypeOK, Lives
<1>5. CASE CloseHttp
  BY <1>5, <1>t, SameWriters DEF CloseHttp, Control, TypeOK, Lives
<1>6. CASE ReceiveQuit
  BY <1>6, <1>t, SameWriters DEF ReceiveQuit, Control, TypeOK, Lives
<1>7. CASE WaitConns
  BY <1>7, <1>t, SameWriters DEF WaitConns, Control, TypeOK, Lives
<1>8. ASSUME NEW c \in Conns, Upgrade(c) PROVE Control'
  <2>1. TypeOK'
    BY <1>8, <1>t DEF Upgrade, TypeOK
  <2>2. Lives'
    BY <1>8, <1>t DEF Upgrade, TypeOK, Lives
  <2> QED
    BY <1>8, <1>t, <2>1, <2>2, SameWriters DEF Upgrade, Control, TypeOK
<1>9. ASSUME NEW c \in Conns, ReadKey(c) PROVE Control'
  <2>1. TypeOK'
    BY <1>9, <1>t DEF ReadKey, TypeOK
  <2>2. Lives'
    BY <1>9, <1>t DEF ReadKey, TypeOK, Lives
  <2> QED
    BY <1>9, <1>t, <2>1, <2>2, SameWriters DEF ReadKey, Control, TypeOK
<1>10. ASSUME NEW c \in Conns, OnOpen(c) PROVE Control'
  <2>1. TypeOK'
    BY <1>10, <1>t DEF OnOpen, TypeOK
  <2>2. Lives'
    BY <1>10, <1>t DEF OnOpen, TypeOK, Lives
  <2> QED
    BY <1>10, <1>t, <2>1, <2>2, SameWriters DEF OnOpen, Control, TypeOK
<1>11. ASSUME NEW c \in Conns, LoadSeq(c) PROVE Control'
  <2>1. TypeOK'
    BY <1>11, <1>t DEF LoadSeq, TypeOK
  <2>2. Lives'
    BY <1>11, <1>t DEF LoadSeq, TypeOK, Lives
  <2> QED
    BY <1>11, <1>t, <2>1, <2>2, SameWriters DEF LoadSeq, Control, TypeOK
<1>12. ASSUME NEW c \in Conns, StoreSeq(c) PROVE Control'
  <2>1. TypeOK'
    BY <1>12, <1>t DEF StoreSeq, TypeOK
  <2>2. Lives'
    BY <1>12, <1>t DEF StoreSeq, TypeOK, Lives
  <2> QED
    BY <1>12, <1>t, <2>1, <2>2, SameWriters DEF StoreSeq, Control, TypeOK
<1>12a. ASSUME NEW c \in Conns, AddConn(c) PROVE Control'
  <2>1. TypeOK'
    BY <1>12a, <1>t DEF AddConn, TypeOK
  <2>2. Lives'
    BY <1>12a, <1>t DEF AddConn, TypeOK, Lives
  <2> QED
    BY <1>12a, <2>1, <2>2, AddCounts DEF Control
<1>13. ASSUME NEW c \in Conns, StartConn(c) PROVE Control'
  <2>1. TypeOK'
    BY <1>13, <1>t DEF StartConn, TypeOK
  <2>2. Lives'
    BY <1>13, <1>t DEF StartConn, TypeOK, Lives
  <2>3. WgCounts'
    BY <1>13, <1>t, SameGroup DEF StartConn, TypeOK, InGroup, Live
  <2> QED
    BY <2>1, <2>2, <2>3 DEF Control
<1>14. ASSUME NEW c \in Conns, ServerQuits(c) PROVE Control'
  <2>1. TypeOK'
    BY <1>14, <1>t DEF ServerQuits, TypeOK
  <2>2. Lives'
    BY <1>14, <1>t DEF ServerQuits, TypeOK, Lives
  <2>3. WgCounts'
    BY <1>14, <1>t, SameGroup DEF ServerQuits, TypeOK, InGroup, Live
  <2> QED
    BY <2>1, <2>2, <2>3 DEF Control
<1>15. ASSUME NEW c \in Conns, ReadDone(c) PROVE Control'
  <2>1. TypeOK'
    BY <1>15, <1>t DEF ReadDone, TypeOK
  <2>2. Lives'
    BY <1>15, <1>t DEF ReadDone, TypeOK, Lives
  <2>3. WgCounts'
    BY <1>15, <1>t, SameGroup DEF ReadDone, TypeOK, InGroup, Live
  <2> QED
    BY <2>1, <2>2, <2>3 DEF Control
<1>16. ASSUME NEW c \in Conns, OnClosed(c) PROVE Control'
  <2>1. TypeOK'
    BY <1>16, <1>t DEF OnClosed, TypeOK, Restrict
  <2>2. Lives'
    BY <1>16, <1>t DEF OnClosed, TypeOK, Lives
  <2>3. WgCounts'
    BY <1>16, <1>t, SameGroup DEF OnClosed, TypeOK, InGroup, Live
  <2> QED
    BY <2>1, <2>2, <2>3 DEF Control
<1>17. ASSUME NEW c \in Conns, Ping(c) PROVE Control'
  <2>1. TypeOK'
    BY <1>17, <1>t DEF Ping, TypeOK
  <2>2. Lives'
    BY <1>17, <1>t DEF Ping, TypeOK, Lives
  <2>3. WgCounts'
    BY <1>17, <1>t, SameGroup DEF Ping, TypeOK, InGroup, Live
  <2> QED
    BY <2>1, <2>2, <2>3 DEF Control
<1>18. ASSUME NEW c \in Conns, WriteReturns(c) PROVE Control'
  <2>1. TypeOK'
    <3>1. \A r \in Responses : Append(out[c], r) \in Seq(Responses)
      BY <1>t DEF TypeOK
    <3>2. wcur[c] # None => wcur[c] \in Responses
      BY <1>t DEF TypeOK
    <3>3. \E o \in Seq(Responses) : out' = [out EXCEPT ![c] = o]
      <4>1. CASE wcur[c] # None /\ out' = [out EXCEPT ![c] = Append(@, wcur[c])]
        BY <3>1, <3>2, <4>1
      <4>2. CASE out' = out
        BY <1>t, <4>2 DEF TypeOK
      <4>3. CASE wcur[c] = None /\ out' = [out EXCEPT ![c] = @]
        BY <1>t, <4>3 DEF TypeOK
      <4> QED
        BY <1>18, <4>1, <4>2, <4>3 DEF WriteReturns
    <3>4. out' \in [Conns -> Seq(Responses)]
      BY <1>t, <3>3 DEF TypeOK
    <3> QED
      BY <1>18, <1>t, <3>4 DEF WriteReturns, TypeOK
  <2>2. Lives'
    BY <1>18, <1>t DEF WriteReturns, TypeOK, Lives
  <2>3. WgCounts'
    BY <1>18, <1>t, SameGroup DEF WriteReturns, TypeOK, InGroup, Live
  <2> QED
    BY <2>1, <2>2, <2>3 DEF Control
<1>19. ASSUME NEW c \in Conns, NEW t \in Threads, ReceiveResponse(t, c) PROVE Control'
  <2>1. TypeOK'
    BY <1>19, <1>t DEF ReceiveResponse, TypeOK
  <2>2. Lives'
    BY <1>19, <1>t DEF ReceiveResponse, TypeOK, Lives
  <2>3. WgCounts'
    BY <1>19, <1>t, SameGroup DEF ReceiveResponse, TypeOK, InGroup, Live
  <2> QED
    BY <2>1, <2>2, <2>3 DEF Control
<1>20. ASSUME NEW c \in Conns, WriterReturns(c) PROVE Control'
  <2>1. TypeOK'
    BY <1>20, <1>t, ReturnCounts DEF WriterReturns, TypeOK
  <2>2. Lives'
    BY <1>20, <1>t DEF WriterReturns, TypeOK, Lives
  <2> QED
    BY <1>20, <2>1, <2>2, ReturnCounts DEF Control
<1>21. ASSUME NEW c \in Conns, ReadMessage(c) PROVE Control'
  <2>1. TypeOK'
    BY <1>21, <1>t DEF ReadMessage, TypeOK
  <2>2. Lives'
    BY <1>21, <1>t DEF ReadMessage, TypeOK, Lives
  <2> QED
    BY <1>21, <1>t, <2>1, <2>2, SameWriters DEF ReadMessage, Control
<1>22. ASSUME NEW c \in Conns, ReadFails(c) PROVE Control'
  <2>1. TypeOK'
    BY <1>22, <1>t DEF ReadFails, TypeOK
  <2>2. Lives'
    BY <1>22, <1>t DEF ReadFails, TypeOK, Lives
  <2> QED
    BY <1>22, <1>t, <2>1, <2>2, SameWriters DEF ReadFails, Control
<1>23. ASSUME NEW c \in Conns, Submitted(c) PROVE Control'
  <2>1. TypeOK'
    BY <1>23, <1>t DEF Submitted, TypeOK
  <2>2. Lives'
    BY <1>23, <1>t DEF Submitted, TypeOK, Lives
  <2> QED
    BY <1>23, <1>t, <2>1, <2>2, SameWriters DEF Submitted, Control
<1>24. ASSUME NEW t \in Threads, NEW k \in Nat, NEW r \in Responses, Send(t, k, r) PROVE Control'
  BY <1>24, <1>t, SameWriters DEF Send, Control, TypeOK, Lives
<1>25. ASSUME NEW t \in Threads, SendLookup(t) PROVE Control'
  <2>1. CASE sconn[t] \in DOMAIN conns
    <3>1. TypeOK'
      <4>1. conns[sconn[t]] \in Conns
        BY <1>t, <2>1 DEF TypeOK
      <4>2. /\ starget' = [starget EXCEPT ![t] = conns[sconn[t]]]
            /\ spc' = [spc EXCEPT ![t] = "chan"] /\ mu' = t
            /\ UNCHANGED <<sconn, sresp, closeVars, handlerVars, writerVars, readerVars, conns, wg>>
        BY <1>25, <2>1 DEF SendLookup
      <4> QED
        BY <1>t, <4>1, <4>2 DEF TypeOK
    <3> QED
      BY <1>25, <1>t, <3>1, SameWriters DEF SendLookup, Control, Lives
  <2>2. CASE sconn[t] \notin DOMAIN conns
    <3>1. TypeOK'
      BY <1>25, <1>t, <2>2 DEF SendLookup, TypeOK
    <3> QED
      BY <1>25, <1>t, <3>1, SameWriters DEF SendLookup, Control, Lives
  <2> QED
    BY <2>1, <2>2
<1>26. ASSUME NEW t \in Threads, SendReturns(t) PROVE Control'
  BY <1>26, <1>t, SameWriters DEF SendReturns, Control, TypeOK, Lives
<1>27. CASE UNCHANGED vars
  BY <1>27, <1>t, SameWriters DEF vars, Control, TypeOK, Lives, Live
<1> QED
  BY <1>1, <1>2, <1>3, <1>4, <1>5, <1>6, <1>7, <1>8, <1>9, <1>10, <1>11, <1>12, <1>12a, <1>13, <1>14, <1>15, <1>16, <1>17, <1>18, <1>19, <1>20, <1>21, <1>22, <1>23, <1>24, <1>25, <1>26, <1>27
     DEF Next, Server, Handler, Writer, Reader, Sender

\* The wait group's counter is never negative and every variable has its type
\* (handleConn's Add, the write goroutines' Done).
THEOREM TypeCorrect == Spec => []TypeOK
<1>1. Control => TypeOK
  BY DEF Control
<1> QED
  BY <1>1, InitControl, NextControl, PTL DEF Spec

\* The write goroutine of a connection ends after its read goroutine (done).
THEOREM ReadersEndFirst == Spec => []ReaderEndsFirst
<1>1. Control => ReaderEndsFirst
  BY DEF Control, Lives, ReaderEndsFirst
<1> QED
  BY <1>1, InitControl, NextControl, PTL DEF Spec

\* When close returns from wg.Wait no connection is running, and none is between
\* wg.Add and start (close, handleConn).
THEOREM CloseWaitsForAll == Spec => WaitSeesEveryConn
<1>1. Control /\ [Next]_vars =>
        [cpc = "wait" /\ cpc' = "closed" => \A c \in Conns : ~Live(c) /\ hpc[c] # "start"]_vars
  <2> SUFFICES ASSUME Control, [Next]_vars, cpc = "wait", cpc' = "closed"
               PROVE  \A c \in Conns : ~Live(c) /\ hpc[c] # "start"
    OBVIOUS
  <2>1. WaitConns
    BY DEF Next, Server, Handler, Writer, Reader, Sender, Start, AssignServer, Listen,
           ServeReturns, CloseHttp, ReceiveQuit, Upgrade, ReadKey, OnOpen, AddConn, StartConn, LoadSeq,
           StoreSeq, ServerQuits, ReadDone, OnClosed, WriterReturns, Ping, ReceiveResponse,
           WriteReturns, ReadMessage, ReadFails, Submitted, Send, SendLookup, SendReturns,
           vars, closeVars
  <2>2. Cardinality(Group) = 0
    BY <2>1 DEF WaitConns, Control, WgCounts
  <2>3. Group = {}
    BY <2>2, LiveFinite, FS_EmptySet
  <2> QED
    BY <2>3 DEF Group, InGroup
<1> QED
  BY <1>1, InitControl, NextControl, PTL DEF Spec, WaitSeesEveryConn
-----------------------------------------------------------------------------
(* Connections keep their numbers: as long as no two have the same one,    *)
(* send finds the right connection and never waits on one that is gone.    *)
(* Handlers that overlap break that at once: the second reads the seq that *)
(* the first has not advanced yet.                                         *)

Active(c) == hpc[c] \notin {"idle", "done"}

\* Handlers have taken turns, so seq is what the running one read and is above the
\* number of every earlier connection.
Turns ==
  /\ \A c, d \in Conns : Active(c) /\ Active(d) => c = d
  /\ \A c \in Conns :
       /\ Active(c) => connSeq[c] = seq
       /\ hpc[c] \in {"insert", "store"} => hseq[c] = seq
       /\ hpc[c] = "done" => connSeq[c] < seq

\* conns holds started connections under their own number, and none that has
\* been closed.
Entries ==
  /\ \A k \in DOMAIN conns :
       /\ hpc[conns[k]] \notin {"idle", "key", "insert"}
       /\ connSeq[conns[k]] = k /\ conns[k] \notin closed
  /\ \A c \in Conns : wpc[c] \in {"return", "exited"} => c \in closed
  /\ \A c \in closed : wpc[c] # "none"

\* A thread in front of writeCh holds mu, so conns still maps its connId to it.
Targets ==
  \A t \in Threads : spc[t] = "chan" =>
    /\ mu = t
    /\ sconn[t] \in DOMAIN conns /\ conns[sconn[t]] = starget[t]

Registry == Turns /\ Entries /\ Targets

LEMMA InitRegistry == Init => Registry
  BY DEF Init, Registry, Turns, Entries, Targets, Active

LEMMA NextRegistry == OwnNumbers' /\ Control /\ Registry /\ [Next]_vars => Registry'
<1> SUFFICES ASSUME OwnNumbers', Control, Registry, [Next]_vars PROVE Registry'
  OBVIOUS
<1>t. TypeOK /\ Lives
  BY DEF Control
<1>r. Turns /\ Entries /\ Targets
  BY DEF Registry
<1> USE WsServerAssumption DEF closeVars, handlerVars, writerVars, readerVars, senderVars
<1>1. CASE Server
  <2>1. UNCHANGED <<hpc, hseq, connSeq, seq, wpc, closed, spc, sconn, starget, conns, mu>>
    BY <1>1 DEF Server, Start, AssignServer, Listen, ServeReturns, CloseHttp, ReceiveQuit, WaitConns
  <2> QED
    BY <2>1, <1>r DEF Registry, Turns, Entries, Targets, Active
<1>2. ASSUME NEW c \in Conns, Upgrade(c) PROVE Registry'
  <2>0. \A d \in Conns : ~Active(d)
    <3> SUFFICES ASSUME NEW d \in Conns, Active(d) PROVE FALSE
      OBVIOUS
    <3>1. d # c /\ connSeq[d] = seq
      BY <1>2, <1>r DEF Upgrade, Turns, Active
    <3>2. /\ hpc'[c] # "idle" /\ connSeq'[c] = seq
          /\ hpc'[d] # "idle" /\ connSeq'[d] = connSeq[d]
      BY <1>2, <1>t, <3>1 DEF Upgrade, TypeOK, Active
    <3> QED
      BY <3>1, <3>2 DEF OwnNumbers
  <2>1. Turns'
    BY <1>2, <1>t, <1>r, <2>0 DEF Upgrade, TypeOK, Turns, Active
  <2>2. Entries'
    <3>1. \A k \in DOMAIN conns : conns[k] \in Conns \ {c}
      BY <1>2, <1>t, <1>r DEF Upgrade, TypeOK, Entries
    <3> QED
      BY <1>2, <1>t, <1>r, <3>1 DEF Upgrade, TypeOK, Entries
  <2>3. Targets'
    BY <1>2, <1>t, <1>r DEF Upgrade, TypeOK, Targets
  <2> QED
    BY <2>1, <2>2, <2>3 DEF Registry
<1>3. ASSUME NEW c \in Conns, ReadKey(c) PROVE Registry'
  <2>1. Turns'
    BY <1>3, <1>t, <1>r DEF ReadKey, TypeOK, Turns, Active
  <2>2. Entries'
    BY <1>3, <1>t, <1>r DEF ReadKey, TypeOK, Lives, Turns, Entries, Active
  <2>3. Targets'
    BY <1>3, <1>t, <1>r DEF ReadKey, TypeOK, Targets
  <2> QED
    BY <2>1, <2>2, <2>3 DEF Registry
<1>4. ASSUME NEW c \in Conns, OnOpen(c) PROVE Registry'
  <2>1. Turns'
    BY <1>4, <1>t, <1>r DEF OnOpen, TypeOK, Turns, Active
  <2>2. Entries'
    <3>1. \A k \in DOMAIN conns : conns[k] \in Conns \ {c}
      BY <1>4, <1>t, <1>r DEF OnOpen, TypeOK, Entries
    <3>2. hseq[c] = connSeq[c] /\ c \notin closed
      <4>1. hpc[c] = "insert"
        BY <1>4 DEF OnOpen
      <4>2. hseq[c] = seq /\ connSeq[c] = seq
        BY <4>1, <1>r DEF Turns, Active
      <4>3. wpc[c] = "none"
        BY <4>1, <1>t DEF Lives
      <4> QED
        BY <4>2, <4>3, <1>r DEF Entries
    <3>3. \A k \in DOMAIN conns' :
            \/ k = hseq[c] /\ conns'[k] = c
            \/ k \in DOMAIN conns /\ conns'[k] = conns[k]
      BY <1>4 DEF OnOpen
    <3>4. /\ hpc' = [hpc EXCEPT ![c] = "add"]
          /\ UNCHANGED <<connSeq, wpc, closed>>
      BY <1>4 DEF OnOpen
    <3>5. ASSUME NEW k \in DOMAIN conns'
          PROVE  /\ hpc'[conns'[k]] \notin {"idle", "key", "insert"}
                 /\ connSeq'[conns'[k]] = k /\ conns'[k] \notin closed'
      <4>1. CASE k = hseq[c] /\ conns'[k] = c
        BY <1>t, <3>2, <3>4, <4>1 DEF TypeOK
      <4>2. CASE k \in DOMAIN conns /\ conns'[k] = conns[k]
        BY <1>t, <1>r, <3>1, <3>4, <4>2 DEF TypeOK, Entries
      <4> QED
        BY <3>3, <4>1, <4>2
    <3> QED
      BY <1>r, <3>4, <3>5 DEF Entries
  <2>3. Targets'
    BY <1>4, <1>t, <1>r DEF OnOpen, TypeOK, Targets
  <2> QED
    BY <2>1, <2>2, <2>3 DEF Registry
<1>4a. ASSUME NEW c \in Conns, AddConn(c) PROVE Registry'
  <2>1. Turns'
    BY <1>4a, <1>t, <1>r DEF AddConn, TypeOK, Turns, Active
  <2>2. Entries'
    BY <1>4a, <1>t, <1>r DEF AddConn, TypeOK, Lives, Turns, Entries, Active
  <2>3. Targets'
    BY <1>4a, <1>t, <1>r DEF AddConn, TypeOK, Targets
  <2> QED
    BY <2>1, <2>2, <2>3 DEF Registry
<1>5. ASSUME NEW c \in Conns, StartConn(c) PROVE Registry'
  <2>1. Turns'
    BY <1>5, <1>t, <1>r DEF StartConn, TypeOK, Turns, Active
  <2>2. Entries'
    BY <1>5, <1>t, <1>r DEF StartConn, TypeOK, Lives, Turns, Entries, Active
  <2>3. Targets'
    BY <1>5, <1>t, <1>r DEF StartConn, TypeOK, Targets
  <2> QED
    BY <2>1, <2>2, <2>3 DEF Registry
<1>6. ASSUME NEW c \in Conns, LoadSeq(c) PROVE Registry'
  <2>1. Turns'
    BY <1>6, <1>t, <1>r DEF LoadSeq, TypeOK, Turns, Active
  <2>2. Entries'
    BY <1>6, <1>t, <1>r DEF LoadSeq, TypeOK, Lives, Turns, Entries, Active
  <2>3. Targets'
    BY <1>6, <1>t, <1>r DEF LoadSeq, TypeOK, Targets
  <2> QED
    BY <2>1, <2>2, <2>3 DEF Registry
<1>7. ASSUME NEW c \in Conns, StoreSeq(c) PROVE Registry'
  <2>1. Turns'
    BY <1>7, <1>t, <1>r DEF StoreSeq, TypeOK, Turns, Active
  <2>2. Entries'
    BY <1>7, <1>t, <1>r DEF StoreSeq, TypeOK, Lives, Turns, Entries, Active
  <2>3. Targets'
    BY <1>7, <1>t, <1>r DEF StoreSeq, TypeOK, Targets
  <2> QED
    BY <2>1, <2>2, <2>3 DEF Registry
<1>8. ASSUME NEW c \in Conns, ServerQuits(c) PROVE Registry'
  <2>1. Turns'
    BY <1>8, <1>r DEF ServerQuits, Turns, Active
  <2>2. Entries'
    BY <1>8, <1>t, <1>r DEF ServerQuits, TypeOK, Lives, Entries
  <2>3. Targets'
    BY <1>8, <1>t, <1>r DEF ServerQuits, TypeOK, Targets
  <2> QED
    BY <2>1, <2>2, <2>3 DEF Registry
<1>9. ASSUME NEW c \in Conns, ReadDone(c) PROVE Registry'
  <2>1. Turns'
    BY <1>9, <1>r DEF ReadDone, Turns, Active
  <2>2. Entries'
    BY <1>9, <1>t, <1>r DEF ReadDone, TypeOK, Lives, Entries
  <2>3. Targets'
    BY <1>9, <1>t, <1>r DEF ReadDone, TypeOK, Targets
  <2> QED
    BY <2>1, <2>2, <2>3 DEF Registry
<1>10. ASSUME NEW c \in Conns, OnClosed(c) PROVE Registry'
  <2>1. Turns'
    BY <1>10, <1>r DEF OnClosed, Turns, Active
  <2>2. Entries'
    BY <1>10, <1>t, <1>r DEF OnClosed, TypeOK, Lives, Entries, Restrict
  <2>3. Targets'
    BY <1>10, <1>t, <1>r DEF OnClosed, TypeOK, Targets, Restrict
  <2> QED
    BY <2>1, <2>2, <2>3 DEF Registry
<1>11. ASSUME NEW c \in Conns, WriterReturns(c) PROVE Registry'
  <2>1. Turns'
    BY <1>11, <1>r DEF WriterReturns, Turns, Active
  <2>2. Entries'
    BY <1>11, <1>t, <1>r DEF WriterReturns, TypeOK, Lives, Entries
  <2>3. Targets'
    BY <1>11, <1>t, <1>r DEF WriterReturns, TypeOK, Targets
  <2> QED
    BY <2>1, <2>2, <2>3 DEF Registry
<1>12. ASSUME NEW c \in Conns, Ping(c) PROVE Registry'
  <2>1. Turns'
    BY <1>12, <1>r DEF Ping, Turns, Active
  <2>2. Entries'
    BY <1>12, <1>t, <1>r DEF Ping, TypeOK, Lives, Entries
  <2>3. Targets'
    BY <1>12, <1>t, <1>r DEF Ping, TypeOK, Targets
  <2> QED
    BY <2>1, <2>2, <2>3 DEF Registry
<1>13. ASSUME NEW c \in Conns, WriteReturns(c) PROVE Registry'
  <2>1. Turns'
    BY <1>13, <1>r DEF WriteReturns, Turns, Active
  <2>2. Entries'
    BY <1>13, <1>t, <1>r DEF WriteReturns, TypeOK, Lives, Entries
  <2>3. Targets'
    BY <1>13, <1>t, <1>r DEF WriteReturns, TypeOK, Targets
  <2> QED
    BY <2>1, <2>2, <2>3 DEF Registry
<1>14. ASSUME NEW c \in Conns, NEW t \in Threads, ReceiveResponse(t, c) PROVE Registry'
  <2>1. Turns'
    BY <1>14, <1>r DEF ReceiveResponse, Turns, Active
  <2>2. Entries'
    BY <1>14, <1>t, <1>r DEF ReceiveResponse, TypeOK, Entries
  <2>3. Targets'
    BY <1>14, <1>t, <1>r DEF ReceiveResponse, TypeOK, Targets
  <2> QED
    BY <2>1, <2>2, <2>3 DEF Registry
<1>15. ASSUME NEW c \in Conns, Reader(c) PROVE Registry'
  BY <1>15, <1>r DEF Reader, ReadMessage, ReadFails, Submitted, Registry, Turns, Entries, Targets, Active
<1>16. ASSUME NEW t \in Threads, NEW k \in Nat, NEW r \in Responses, Send(t, k, r) PROVE Registry'
  <2>1. Turns' /\ Entries'
    BY <1>16, <1>r DEF Send, Turns, Entries, Active
  <2>2. Targets'
    BY <1>16, <1>t, <1>r DEF Send, TypeOK, Targets
  <2> QED
    BY <2>1, <2>2 DEF Registry
<1>17. ASSUME NEW t \in Threads, SendLookup(t) PROVE Registry'
  <2>1. Turns' /\ Entries'
    BY <1>17, <1>r DEF SendLookup, Turns, Entries, Active
  <2>2. Targets'
    BY <1>17, <1>t, <1>r DEF SendLookup, TypeOK, Targets
  <2> QED
    BY <2>1, <2>2 DEF Registry
<1>18. ASSUME NEW t \in Threads, SendReturns(t) PROVE Registry'
  <2>1. Turns' /\ Entries'
    BY <1>18, <1>r DEF SendReturns, Turns, Entries, Active
  <2>2. Targets'
    BY <1>18, <1>t, <1>r DEF SendReturns, TypeOK, Targets
  <2> QED
    BY <2>1, <2>2 DEF Registry
<1>19. CASE UNCHANGED vars
  BY <1>19, <1>r DEF vars, Registry, Turns, Entries, Targets, Active
<1> QED
  BY <1>1, <1>2, <1>3, <1>4, <1>4a, <1>5, <1>6, <1>7, <1>8, <1>9, <1>10, <1>11, <1>12, <1>13, <1>14, <1>15, <1>16, <1>17, <1>18, <1>19
     DEF Next, Handler, Writer, Sender

\* Numbers are never taken back: what two connections share they keep.
LEMMA OwnBefore == Control /\ [Next]_vars /\ OwnNumbers' => OwnNumbers
<1> SUFFICES ASSUME Control, [Next]_vars PROVE OwnNumbers' => OwnNumbers
  OBVIOUS
<1> DEFINE Kept == \A c \in Conns : hpc[c] # "idle" => hpc'[c] # "idle" /\ connSeq'[c] = connSeq[c]
<1>t. TypeOK
  BY DEF Control
<1> USE DEF closeVars, handlerVars, writerVars, readerVars, senderVars
<1>1. ASSUME NEW c \in Conns, Handler(c) PROVE Kept
  BY <1>1, <1>t DEF TypeOK, Handler, Upgrade, ReadKey, OnOpen, AddConn, StartConn, LoadSeq, StoreSeq
<1>2. ASSUME NEW c \in Conns, Writer(c) \/ Reader(c) PROVE Kept
  BY <1>2 DEF Writer, ServerQuits, ReadDone, OnClosed, WriterReturns, Ping, WriteReturns,
              ReceiveResponse, Reader, ReadMessage, ReadFails, Submitted
<1>3. ASSUME Server \/ UNCHANGED vars PROVE Kept
  BY <1>3 DEF Server, Start, AssignServer, Listen, ServeReturns, CloseHttp, ReceiveQuit, WaitConns, vars
<1>4. ASSUME NEW t \in Threads, Sender(t) PROVE Kept
  BY <1>4 DEF Sender, SendLookup, SendReturns, Send
<1>5. Kept
  BY <1>1, <1>2, <1>3, <1>4 DEF Next
<1> QED
  BY <1>5 DEF OwnNumbers

Registered == OwnNumbers => Registry

LEMMA NextRegistered == Control /\ Registered /\ [Next]_vars => Registered'
  BY OwnBefore, NextRegistry DEF Registered

\* However handlers overlap: until two connections have been given the same number, a
\* send that waits on a connection waits on the one its connId means, and on a
\* goroutine that can still receive (send, handleConn).
THEOREM TargetsStayOpen == Spec => []SendTargetStaysOpen
<1>1. Control /\ Registered => SendTargetStaysOpen
  BY DEF Control, TypeOK, Registered, Registry, Entries, Targets, SendTargetStaysOpen
<1>2. Init => Registered
  BY InitRegistry DEF Registered
<1> QED
  BY <1>1, <1>2, InitControl, NextControl, NextRegistered, PTL DEF Spec
-----------------------------------------------------------------------------
(* server.close leaves nothing behind: no handler and no connection, while *)
(* it is called between two handlers and the listener closes               *)

PromptClose == "late upgrade" \notin Adversity /\ "close error" \notin Adversity

Quiet ==
  /\ lpc \in {"off", "created", "assigned"} => \A c \in Conns : hpc[c] = "idle"
  /\ lpc \in {"quitting", "exited"} \/ (lpc = "serving" /\ http = "shut") => HandlersIdle
  /\ cpc \in {"wait", "closed"} => lpc = "exited"
  /\ cpc = "closed" => \A c \in Conns : ~Live(c)
  /\ cpc # "failed"

LEMMA InitQuiet == Init => Quiet
  BY DEF Init, Quiet

LEMMA NextQuiet == PromptClose /\ Control /\ Quiet /\ [Next]_vars => Quiet'
<1> SUFFICES ASSUME PromptClose, Control, Quiet, [Next]_vars PROVE Quiet'
  OBVIOUS
<1>t. TypeOK /\ Lives /\ WgCounts
  BY DEF Control
<1> USE DEF closeVars, handlerVars, writerVars, readerVars, senderVars
<1>1. CASE Start \/ AssignServer \/ Listen \/ ServeReturns
  BY <1>1 DEF Start, AssignServer, Listen, ServeReturns, Quiet, HandlersIdle, Live
<1>2. CASE CloseHttp \/ ReceiveQuit
  BY <1>2 DEF CloseHttp, ReceiveQuit, PromptClose, Quiet, HandlersIdle, Live
<1>3. CASE WaitConns
  <2>1. Cardinality(Group) = 0
    BY <1>3, <1>t DEF WaitConns, WgCounts
  <2>2. Group = {}
    BY <2>1, LiveFinite, FS_EmptySet
  <2> QED
    BY <1>3, <2>2 DEF WaitConns, Quiet, HandlersIdle, Group, InGroup, Live
<1>4. ASSUME NEW c \in Conns, Upgrade(c) PROVE Quiet'
  BY <1>4 DEF Upgrade, Quiet, Live
<1>5. ASSUME NEW c \in Conns, ReadKey(c) \/ OnOpen(c) \/ AddConn(c) \/ StartConn(c) \/ LoadSeq(c) \/ StoreSeq(c)
      PROVE  Quiet'
  <2>1. hpc[c] \notin {"idle", "done"} /\ UNCHANGED closeVars
    BY <1>5 DEF ReadKey, OnOpen, AddConn, StartConn, LoadSeq, StoreSeq
  <2>2. ~HandlersIdle /\ ~\A d \in Conns : hpc[d] = "idle"
    BY <2>1 DEF HandlersIdle
  <2> QED
    BY <2>1, <2>2 DEF Quiet
<1>6. ASSUME NEW c \in Conns, Writer(c) PROVE Quiet'
  <2>1. UNCHANGED <<closeVars, hpc>> /\ \A d \in Conns : Live(d)' => Live(d)
    BY <1>6, <1>t DEF Writer, ServerQuits, ReadDone, OnClosed, WriterReturns, Ping, WriteReturns,
                      ReceiveResponse, TypeOK, Live
  <2> QED
    BY <2>1 DEF Quiet, HandlersIdle
<1>7. ASSUME NEW c \in Conns, Reader(c) PROVE Quiet'
  BY <1>7 DEF Reader, ReadMessage, ReadFails, Submitted, Quiet, HandlersIdle, Live
<1>8. ASSUME NEW t \in Threads, Sender(t) PROVE Quiet'
  BY <1>8 DEF Sender, SendLookup, SendReturns, Send, Quiet, HandlersIdle, Live
<1>9. CASE UNCHANGED vars
  BY <1>9 DEF vars, Quiet, HandlersIdle, Live
<1> QED
  BY <1>1, <1>2, <1>3, <1>4, <1>5, <1>6, <1>7, <1>8, <1>9 DEF Next, Server, Handler
=============================================================================
