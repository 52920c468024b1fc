-------------------------- MODULE DispatcherProofs --------------------------
(***************************************************************************)
(* Proofs about Dispatcher, for every limit on processes and for any       *)
(* number of requests.  DispatcherInv is inductive: between two forks the  *)
(* places taken cannot grow, and the loop of wait_for_children ends with   *)
(* none of them a zombie's.                                                *)
(***************************************************************************)
EXTENDS Dispatcher, TLAPS

LEMMA DispatcherInitInv == DispatcherInit => DispatcherInv
BY DispatcherAssumption
   DEF DispatcherInit, DispatcherInv, DispatcherTypeOK, DispatcherStates, Datagrams

(* A datagram is read from the front or put at the end.                    *)
LEMMA InboxSteps ==
  ASSUME NEW q \in Seq(Datagrams), NEW d \in Datagrams
  PROVE  Append(q, d) \in Seq(Datagrams) /\ (q # <<>> => Tail(q) \in Seq(Datagrams))
OBVIOUS

LEMMA DispatcherStepInv == DispatcherInv /\ [DispatcherNext]_dispatcherVars => DispatcherInv'
<1> SUFFICES ASSUME DispatcherInv, [DispatcherNext]_dispatcherVars
             PROVE  DispatcherInv'
  OBVIOUS
<1> USE DispatcherAssumption
<1>1. CASE Receive
  <2>1. inbox' \in Seq(Datagrams) /\ dstate' \in {"receive", "fork"}
    BY <1>1, InboxSteps DEF Receive, DispatcherInv, DispatcherTypeOK, Datagrams
  <2> QED BY <1>1, <2>1 DEF Receive, DispatcherInv, DispatcherTypeOK, DispatcherStates
<1>2. CASE ForkChild
  BY <1>2 DEF ForkChild, DispatcherInv, DispatcherTypeOK, DispatcherStates
<1>3. CASE ForkFails
  BY <1>3 DEF ForkFails, DispatcherInv, DispatcherTypeOK, DispatcherStates
<1>4. CASE Reap
  BY <1>4 DEF Reap, DispatcherInv, DispatcherTypeOK, DispatcherStates
<1>5. CASE ArriveAtServer
  <2>1. inbox' \in Seq(Datagrams)
    BY <1>5, InboxSteps DEF ArriveAtServer, DispatcherInv, DispatcherTypeOK
  <2> QED BY <1>5, <2>1 DEF ArriveAtServer, DispatcherInv, DispatcherTypeOK
<1>6. CASE ChildEnds
  BY <1>6 DEF ChildEnds, DispatcherInv, DispatcherTypeOK
<1>7. CASE UNCHANGED dispatcherVars
  BY <1>7 DEF dispatcherVars, DispatcherInv, DispatcherTypeOK
<1> QED BY <1>1, <1>2, <1>3, <1>4, <1>5, <1>6, <1>7 DEF DispatcherNext, DispatcherStep

(* The invariant of the process table.                                     *)
THEOREM DispatcherInvariance == DispatcherSpec => []DispatcherInv
BY DispatcherInitInv, DispatcherStepInv, PTL DEF DispatcherSpec

(* Zombies do not pile up, whatever the children do.                       *)
THEOREM TableAlwaysBounded == DispatcherSpec => []TableBounded
<1>1. DispatcherInv => TableBounded
  BY DEF DispatcherInv, DispatcherTypeOK, DispatcherStates, TableBounded
<1> QED BY <1>1, DispatcherInvariance, PTL

(* The server ends only when its children really fill the process table.   *)
THEOREM ClosesOnlyFull == DispatcherSpec => []ClosesOnlyWhenFull
<1>1. DispatcherInv => ClosesOnlyWhenFull
  BY DispatcherAssumption DEF DispatcherInv, DispatcherTypeOK, ClosesOnlyWhenFull
<1> QED BY <1>1, DispatcherInvariance, PTL
=============================================================================
