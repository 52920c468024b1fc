----------------------------- MODULE Dispatcher -----------------------------
(***************************************************************************)
(* The server's own process: main of server.c, which forks a child for     *)
(* every FILE_NAME, with wait_for_children and s_fork.                     *)
(*                                                                         *)
(* The children are counted, not followed: a child runs, or has ended and  *)
(* is a zombie until waitpid collects it.  Both hold a place in the        *)
(* process table.  A child may end at any moment, of itself or by a        *)
(* signal, between any two steps of the dispatcher, or never.              *)
(***************************************************************************)
EXTENDS Integers, Sequences

CONSTANTS
  ProcLimit,     \* children the system gives the server a process for
  InboxSize,     \* datagrams the socket holds; more are dropped
  MaxArrivals    \* datagrams that arrive, at most

ASSUME DispatcherAssumption ==
  /\ ProcLimit \in Nat
  /\ InboxSize \in Nat
  /\ MaxArrivals \in Nat

(* What main tells apart: a good FILE_NAME, and all the rest, the damaged  *)
(* datagrams included.                                                     *)
Datagrams == {"FILE_NAME", "OTHER"}

VARIABLES
  dstate,     \* where main is: in recv_pkt, at s_fork, in wait_for_children, gone
  inbox,      \* what the socket holds
  arrivals,   \* datagrams that have arrived so far
  running,    \* children that run
  zombies,    \* children that have ended and were not waited for
  peak        \* the most children that ever ran at the same time

dispatcherVars == <<dstate, inbox, arrivals, running, zombies, peak>>

DispatcherStates == {"receive", "fork", "reap", "exited"}

DispatcherInit ==
  /\ dstate = "receive"
  /\ inbox = <<>>
  /\ arrivals = 0
  /\ running = 0 /\ zombies = 0 /\ peak = 0

-----------------------------------------------------------------------------
Receive ==
  /\ dstate = "receive"
  /\ inbox # <<>>
  /\ inbox' = Tail(inbox)
  /\ dstate' = IF Head(inbox) = "FILE_NAME" THEN "fork" ELSE "receive"
  /\ UNCHANGED <<arrivals, running, zombies, peak>>

ForkChild ==
  /\ dstate = "fork"
  /\ running + zombies < ProcLimit
  /\ dstate' = "reap"
  /\ running' = running + 1
  /\ peak' = IF running + 1 > peak THEN running + 1 ELSE peak
  /\ UNCHANGED <<inbox, arrivals, zombies>>

(* s_fork ends the server when there is no process to be had.              *)
ForkFails ==
  /\ dstate = "fork"
  /\ running + zombies >= ProcLimit
  /\ dstate' = "exited"
  /\ UNCHANGED <<inbox, arrivals, running, zombies, peak>>

(* Mutant: the children are never waited for. *)
ReapNothing ==
  /\ dstate = "reap"
  /\ dstate' = "receive"
  /\ UNCHANGED <<inbox, arrivals, running, zombies, peak>>

(* Mutant: without WNOHANG, waitpid returns nothing only to the childless. *)
ReapBlocking ==
  /\ dstate = "reap"
  /\ IF zombies > 0
     THEN zombies' = zombies - 1 /\ dstate' = "reap"
     ELSE running = 0 /\ zombies' = zombies /\ dstate' = "receive"
  /\ UNCHANGED <<inbox, arrivals, running, peak>>

(* One turn of wait_for_children's loop: waitpid with WNOHANG answers with *)
(* a zombie, or at once with 0 or -1 when there is none.                   *)
Reap ==
  /\ dstate = "reap"
  /\ IF zombies > 0
     THEN zombies' = zombies - 1 /\ dstate' = "reap"
     ELSE zombies' = zombies /\ dstate' = "receive"
  /\ UNCHANGED <<inbox, arrivals, running, peak>>

DispatcherStep == Receive \/ ForkChild \/ ForkFails \/ Reap

-----------------------------------------------------------------------------
(* The environment: the rcopys and the children.                           *)
ArriveAtServer ==
  /\ arrivals < MaxArrivals
  /\ arrivals' = arrivals + 1
  /\ \E d \in Datagrams : inbox' = IF Len(inbox) < InboxSize THEN Append(inbox, d) ELSE inbox
  /\ UNCHANGED <<dstate, running, zombies, peak>>

ChildEnds ==
  /\ running > 0
  /\ running' = running - 1
  /\ zombies' = zombies + 1
  /\ UNCHANGED <<dstate, inbox, arrivals, peak>>

DispatcherNext == DispatcherStep \/ ArriveAtServer \/ ChildEnds

(* The dispatcher runs; nothing is asked of the children.                  *)
DispatcherSpec ==
  /\ DispatcherInit
  /\ [][DispatcherNext]_dispatcherVars
  /\ WF_dispatcherVars(DispatcherStep)

-----------------------------------------------------------------------------
DispatcherTypeOK ==
  /\ dstate \in DispatcherStates
  /\ inbox \in Seq(Datagrams)
  /\ arrivals \in Nat
  /\ running \in Nat /\ zombies \in Nat /\ peak \in Nat

(* Children are waited for only after a fork, so that those which ended    *)
(* since stay zombies while nobody asks for a file.  They do not pile up:  *)
(* however many sessions the server has seen, zombies and children         *)
(* together hold no more places than its busiest moment took, and one.     *)
TableBounded == running + zombies =< peak + 1

(* testRandError.sh:50 takes it for an error when the server is gone after *)
(* a session ("- Server closed early").  The one way out is s_fork's exit, *)
(* and zombies alone never cause it: it takes as many children at the same *)
(* time as there are processes.                                            *)
ClosesOnlyWhenFull == dstate = "exited" => peak >= ProcLimit

(* Every datagram that waits is read, although the children may run for    *)
(* ever: the dispatcher waits for none of them.                            *)
AlwaysListens == (inbox # <<>>) ~> (inbox = <<>> \/ dstate = "exited")

(* What TableBounded and ClosesOnlyWhenFull rest on.                       *)
DispatcherInv ==
  /\ DispatcherTypeOK
  /\ running =< peak
  /\ dstate \in {"receive", "fork"} => running + zombies =< peak
  /\ dstate = "reap" => running + zombies =< peak + 1
  /\ dstate = "exited" => ProcLimit =< running + zombies /\ running + zombies =< peak
=============================================================================
