----------------------------- MODULE HandlePool -----------------------------
(***************************************************************************)
(* What the dbPool channel of the gateway promises to the requests that    *)
(* use it, with nothing of how a Go channel does it: no goroutine is       *)
(* parked at either end, nobody is woken, and a request has a handle or    *)
(* has not.  Gateway.tla is shown to implement it.                         *)
(***************************************************************************)
EXTENDS Integers

CONSTANTS
  Users,      \* the requests that may hold a handle
  Capacity    \* how many handles there are

VARIABLES
  holders,    \* requests that took a handle and still owe it
  out,        \* handles out of the pool, leaked ones included
  draining    \* ResetChaos is emptying the pool

poolVars == <<holders, out, draining>>

Init ==
  /\ holders = {}
  /\ out = 0
  /\ draining = FALSE

Take(c) ==
  /\ c \notin holders
  /\ out < Capacity
  /\ holders' = holders \cup {c}
  /\ out' = out + 1
  /\ UNCHANGED draining

Give(c) ==
  /\ c \in holders
  /\ out > 0
  /\ holders' = holders \ {c}
  /\ out' = out - 1
  /\ UNCHANGED draining

(* A handle goes from one request to the next without passing through the  *)
(* pool, which happens only at its two limits.                             *)
HandOver(c, d) ==
  /\ c \in holders /\ d \notin holders
  /\ out \in {0, Capacity}
  /\ holders' = (holders \ {c}) \cup {d}
  /\ UNCHANGED <<out, draining>>

(* The leak of the scenario: the request is gone, its handle is not back.  *)
Lose(c) ==
  /\ c \in holders
  /\ holders' = holders \ {c}
  /\ UNCHANGED <<out, draining>>

DrainBegin ==
  /\ ~draining
  /\ draining' = TRUE
  /\ UNCHANGED <<holders, out>>

(* The drain takes any handle, a leaked one or one a request still owes.   *)
DrainOne ==
  /\ draining
  /\ out > 0
  /\ out' = out - 1
  /\ UNCHANGED <<holders, draining>>

(* The handle it takes from a full pool may go to a new request at once.   *)
DrainFor(c) ==
  /\ draining
  /\ c \notin holders
  /\ out = Capacity
  /\ holders' = holders \cup {c}
  /\ UNCHANGED <<out, draining>>

(* A drain ends only when it leaves nothing behind.                        *)
DrainEnd ==
  /\ draining
  /\ out = 0
  /\ draining' = FALSE
  /\ UNCHANGED <<holders, out>>

DrainStep == DrainOne \/ (\E c \in Users : DrainFor(c)) \/ DrainEnd

Next ==
  \/ \E c \in Users : Take(c) \/ Give(c) \/ Lose(c)
  \/ \E c, d \in Users : HandOver(c, d)
  \/ DrainBegin
  \/ DrainStep

Spec == Init /\ [][Next]_poolVars
=============================================================================
