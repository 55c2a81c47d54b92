------------------------------ MODULE MCWsServer ------------------------------
(***************************************************************************)
(* WsServer for TLC: connections and threads are interchangeable, no send  *)
(* begins once some connection has been written MaxOut responses, and send *)
(* is asked for the numbers that connections get.                          *)
(***************************************************************************)
EXTENDS WsServer, TLC

CONSTANT MaxOut

Symmetry == Permutations(Conns) \cup Permutations(Threads)

MCSend(t) ==
  /\ \A c \in Conns : Len(out[c]) < MaxOut
  /\ \E k \in 0..(MaxSeq - 1), r \in Responses : Send(t, k, r)

MCNext ==
  \/ Server
  \/ \E c \in Conns : Handler(c) \/ Writer(c) \/ Reader(c)
  \/ \E t \in Threads : SendLookup(t) \/ SendReturns(t) \/ MCSend(t)

MCSpec == Init /\ [][MCNext]_vars
=============================================================================
