------------------------------- MODULE UniqueID -------------------------------
(***************************************************************************)
(* server/seq.go: the process-wide source of request ids.  Every           *)
(* connection's read goroutine calls GetIdInstance().Get() for each        *)
(* message it reads.  Get is a load followed by a compare-and-swap, tried  *)
(* again until the swap succeeds; nothing else orders the callers.         *)
(***************************************************************************)
EXTENDS Naturals

CONSTANTS Callers,    \* the read goroutines
          MaxId       \* bound: calls start only while counter < MaxId

ASSUME MaxIdAssumption == MaxId \in Nat

VARIABLES instance,   \* UniqueIdInstance: "nil" until once.Do has "built" it
          counter,    \* UniqueID.counter
          pc,         \* where each caller is: outside Get, at the load, at the swap
          val,        \* the caller's local val
          issued      \* history: the ids each caller's Get has returned

idVars == <<instance, counter, pc, val, issued>>

IdInit ==
  /\ instance = "nil"
  /\ counter = 0
  /\ pc = [p \in Callers |-> "idle"]
  /\ val = [p \in Callers |-> 0]
  /\ issued = [p \in Callers |-> {}]

\* once.Do: the first caller builds the instance, the later ones find it built.
GetIdInstance(p) ==
  /\ pc[p] = "idle"
  /\ counter < MaxId
  /\ instance' = "built"
  /\ counter' = IF instance = "nil" THEN 0 ELSE counter
  /\ pc' = [pc EXCEPT ![p] = "load"]
  /\ UNCHANGED <<val, issued>>

Load(p) ==
  /\ pc[p] = "load"
  /\ val' = [val EXCEPT ![p] = counter]
  /\ pc' = [pc EXCEPT ![p] = "swap"]
  /\ UNCHANGED <<instance, counter, issued>>

\* Mutant of Swap: a plain store in place of the compare-and-swap.
StoreWithoutCompare(p) ==
  /\ pc[p] = "swap"
  /\ counter' = val[p] + 1
  /\ issued' = [issued EXCEPT ![p] = @ \cup {val[p]}]
  /\ pc' = [pc EXCEPT ![p] = "idle"]
  /\ UNCHANGED <<instance, val>>

\* Mutant of Swap: a failed swap is tried again with the value loaded before.
RetryWithoutReload(p) ==
  /\ pc[p] = "swap"
  /\ counter = val[p]
  /\ counter' = val[p] + 1
  /\ issued' = [issued EXCEPT ![p] = @ \cup {val[p]}]
  /\ pc' = [pc EXCEPT ![p] = "idle"]
  /\ UNCHANGED <<instance, val>>

Swap(p) ==
  /\ pc[p] = "swap"
  /\ \/ /\ counter = val[p]
        /\ counter' = val[p] + 1
        /\ issued' = [issued EXCEPT ![p] = @ \cup {val[p]}]
        /\ pc' = [pc EXCEPT ![p] = "idle"]
     \/ /\ counter # val[p]
        /\ pc' = [pc EXCEPT ![p] = "load"]
        /\ UNCHANGED <<counter, issued>>
  /\ UNCHANGED <<instance, val>>

IdNext == \E p \in Callers : GetIdInstance(p) \/ Load(p) \/ Swap(p)

IdSpec == IdInit /\ [][IdNext]_idVars

\* Every goroutine is scheduled: the Go runtime preempts and runs them all.
FairIdSpec == IdSpec /\ \A p \in Callers : WF_idVars(Load(p) \/ Swap(p))
-----------------------------------------------------------------------------
\* No caller's local value is ever ahead of the shared counter.
IdTypeOK ==
  /\ instance \in {"nil", "built"}
  /\ counter \in Nat
  /\ pc \in [Callers -> {"idle", "load", "swap"}]
  /\ val \in [Callers -> 0..counter]
  /\ issued \in [Callers -> SUBSET Nat]

\* Get implements a dispenser of fresh ids (conn.go: "we generate a unique
\* request id"), however the loads and swaps of the callers interleave.
Dispenser == INSTANCE IdDispenser
DispensesFreshIds == Dispenser!Spec

\* Lock-freedom: while some caller is inside Get, a Get eventually returns, for
\* one caller's failed swap is always another caller's successful one.
SomeGetReturns ==
  \A n \in 0..MaxId :
    /\ counter = n /\ \E p \in Callers : pc[p] # "idle"
    ~> counter > n \/ \A p \in Callers : pc[p] = "idle"
=============================================================================
