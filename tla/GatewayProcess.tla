--------------------------- MODULE GatewayProcess ---------------------------
(***************************************************************************)
(* The life of the gateway process (main of services/gateway/main.go): the *)
(* goroutine that handles signals, the shutdown, docker starting it again, *)
(* and what outlives it, the keys its nominal checkouts keep in Redis      *)
(* (executeNominalCheckout of handlers.go).                                *)
(*                                                                         *)
(* Only nominal checkouts are modelled, the scenarios are in Gateway; here *)
(* chaos says whether one is on.  Of Redis there are the keys it holds and *)
(* the commands it has yet to execute.                                     *)
(***************************************************************************)
EXTENDS Integers, FiniteSets

CONSTANTS
  Conns,     \* client connections, each with at most one open checkout
  Sessions   \* the session numbers lock keys are made of

ASSUME ConnsAssumption == IsFiniteSet(Conns) /\ Conns # {}
ASSUME SessionsAssumption == IsFiniteSet(Sessions) /\ Sessions # {}

Signals == {"SIGHUP", "SIGTERM"}   \* SIGINT is handled as SIGTERM is

VARIABLES
  process,   \* of the main goroutine: running, returning, or exited
  sigChan,   \* the signal in the channel's one slot, or "none"
  handler,   \* what the signal goroutine is doing
  chaos,     \* some scenario is active
  pc,        \* where the checkout of each connection is
  session,   \* the session it drew
  locked,    \* connections whose open checkout has set its key
  keys,      \* per session: no key, one with a TTL, one without
  late       \* commands given up (SET 100 ms, DEL 50 ms), not yet executed

signals == <<sigChan, handler>>
requests == <<pc, session, locked>>
redis == <<keys, late>>
vars == <<process, signals, chaos, requests, redis>>

InFlight == {c \in Conns : pc[c] # "idle"}

(* A key the code sets has a TTL; none is "permanent".                     *)
KeyStates == {"absent", "expiring", "permanent"}
Commands == {"SET", "DEL"} \X Sessions

----------------------------------------------------------------------------
Init ==
  /\ process = "running"
  /\ sigChan = "none"
  /\ handler = "receiving"
  /\ chaos = FALSE
  /\ pc = [c \in Conns |-> "idle"]
  /\ session \in [Conns -> Sessions]
  /\ locked = {}
  /\ keys = [k \in Sessions |-> "absent"]
  /\ late = {}

(* Definitions named ..._Fault are not part of the specification: each is  *)
(* a bug the definition after it might have had, and breaks a property.    *)

(* signal.Notify sends without blocking: a signal that finds the slot of   *)
(* the channel taken is dropped.                                           *)
Notify(sig) ==
  /\ process # "exited"
  /\ sigChan' = IF sigChan = "none" THEN sig ELSE sigChan
  /\ UNCHANGED <<process, handler, chaos, requests, redis>>

(* SIGHUP notified but missing in the switch: taken, and nothing done.     *)
TakeSignal_Fault ==
  /\ process # "exited"
  /\ handler = "receiving"
  /\ sigChan # "none"
  /\ handler' = IF sigChan = "SIGHUP" THEN "receiving" ELSE "closing"
  /\ sigChan' = "none"
  /\ UNCHANGED <<process, chaos, requests, redis>>

(* The goroutine returns after any signal.                                 *)
HotReloadDone_Fault ==
  /\ process # "exited"
  /\ handler = "resetting"
  /\ chaos' = FALSE
  /\ handler' = "returned"
  /\ UNCHANGED <<process, sigChan, requests, redis>>

(* The range over the channel and its switch.                              *)
TakeSignal ==
  /\ process # "exited"
  /\ handler = "receiving"
  /\ sigChan # "none"
  /\ handler' = IF sigChan = "SIGHUP" THEN "resetting" ELSE "closing"
  /\ sigChan' = "none"
  /\ UNCHANGED <<process, chaos, requests, redis>>

(* ResetChaos, which may have to wait for chaosMu and drains the pool.     *)
HotReloadDone ==
  /\ process # "exited"
  /\ handler = "resetting"
  /\ chaos' = FALSE
  /\ handler' = "receiving"
  /\ UNCHANGED <<process, sigChan, requests, redis>>

(* Shutdown closes the listener first: ListenAndServe returns at once, and *)
(* main has nothing more to do.  What Shutdown waits for afterwards, up to *)
(* 5 s, it waits for in its own goroutine.                                 *)
CloseListener ==
  /\ process = "running"
  /\ handler = "closing"
  /\ process' = "returning"
  /\ handler' = "returned"
  /\ UNCHANGED <<sigChan, chaos, requests, redis>>

(* The end of the process is the end of its goroutines, wherever they are: *)
(* no answer, and no deferred Del.                                         *)
Ends ==
  /\ process' = "exited"
  /\ pc' = [c \in Conns |-> "idle"]
  /\ locked' = {}
  /\ UNCHANGED <<signals, chaos, session, redis>>

MainReturns == process = "returning" /\ Ends

(* SIGKILL, ten seconds after docker's SIGTERM or from the kernel.         *)
Killed == process # "exited" /\ Ends

Restart ==
  /\ process = "exited"
  /\ process' = "running"
  /\ sigChan' = "none"
  /\ handler' = "receiving"
  /\ chaos' = FALSE
  /\ UNCHANGED <<requests, redis>>

InjectChaos ==
  /\ process = "running"
  /\ chaos' = TRUE
  /\ UNCHANGED <<process, signals, requests, redis>>

----------------------------------------------------------------------------
Goto(c, l) == pc' = [pc EXCEPT ![c] = l]

(* A session drawn from one more than there are.                           *)
Arrive_Fault(c) ==
  /\ process = "running"
  /\ ~chaos
  /\ pc[c] = "idle"
  /\ Goto(c, "locking")
  /\ session' = [session EXCEPT ![c] = "one more"]
  /\ UNCHANGED <<process, signals, chaos, locked, redis>>

(* A checkout is accepted and draws its session.                           *)
Arrive(c) ==
  /\ process = "running"
  /\ ~chaos
  /\ pc[c] = "idle"
  /\ Goto(c, "locking")
  /\ \E k \in Sessions : session' = [session EXCEPT ![c] = k]
  /\ UNCHANGED <<process, signals, chaos, locked, redis>>

(* An expiration of 0, which to the Redis client means none at all.        *)
Lock_Fault(c) ==
  /\ pc[c] = "locking"
  /\ Goto(c, "working")
  /\ \/ /\ keys' = [keys EXCEPT ![session[c]] = "permanent"]
        /\ locked' = locked \cup {c}
        /\ UNCHANGED late
     \/ late' = late \cup {<<"SET", session[c]>>} /\ UNCHANGED <<locked, keys>>
     \/ UNCHANGED <<locked, redis>>
  /\ UNCHANGED <<process, signals, chaos, session>>

(* Set with a TTL, whatever is there; its error is ignored, and a SET that *)
(* was given up may still be executed.                                     *)
Lock(c) ==
  /\ pc[c] = "locking"
  /\ Goto(c, "working")
  /\ \/ /\ keys' = [keys EXCEPT ![session[c]] = "expiring"]
        /\ locked' = locked \cup {c}
        /\ UNCHANGED late
     \/ late' = late \cup {<<"SET", session[c]>>} /\ UNCHANGED <<locked, keys>>
     \/ UNCHANGED <<locked, redis>>
  /\ UNCHANGED <<process, signals, chaos, session>>

Work(c) ==
  /\ pc[c] = "working"
  /\ Goto(c, "unlocking")
  /\ UNCHANGED <<process, signals, chaos, session, locked, redis>>

(* The deferred Del, of the key and not of one's own lock, and the answer. *)
Unlock(c) ==
  /\ pc[c] = "unlocking"
  /\ Goto(c, "idle")
  /\ locked' = locked \ {c}
  /\ \/ keys' = [keys EXCEPT ![session[c]] = "absent"] /\ UNCHANGED late
     \/ late' = late \cup {<<"DEL", session[c]>>} /\ UNCHANGED keys
     \/ UNCHANGED redis
  /\ UNCHANGED <<process, signals, chaos, session>>

(* Redis executes a command nobody waits for any more.                     *)
LateCommand(k) ==
  \E command \in {"SET", "DEL"} :
    /\ <<command, k>> \in late
    /\ late' = late \ {<<command, k>>}
    /\ keys' = [keys EXCEPT ![k] = IF command = "SET" THEN "expiring" ELSE "absent"]
    /\ UNCHANGED <<process, signals, chaos, requests>>

(* The TTL of 2 s.  A checkout is done with its key within 165 ms, so the  *)
(* key it has set does not expire while it is in flight.                   *)
Expire(k) ==
  /\ keys[k] = "expiring"
  /\ \A c \in locked : session[c] # k
  /\ keys' = [keys EXCEPT ![k] = "absent"]
  /\ UNCHANGED <<process, signals, chaos, requests, late>>

----------------------------------------------------------------------------
HandleSignals == TakeSignal \/ HotReloadDone \/ CloseListener
Serve(c) == Lock(c) \/ Work(c) \/ Unlock(c)

Next ==
  \/ \E sig \in Signals : Notify(sig)
  \/ HandleSignals \/ MainReturns \/ Killed \/ Restart \/ InjectChaos
  \/ \E c \in Conns : Arrive(c) \/ Serve(c)
  \/ \E k \in Sessions : LateCommand(k) \/ Expire(k)

(* Go runs its goroutines and Redis its expiry and its queue; signals,     *)
(* kills and clients owe nothing, and docker may leave the process down.   *)
Fairness ==
  /\ WF_vars(HandleSignals)
  /\ WF_vars(MainReturns)
  /\ \A c \in Conns : WF_vars(Serve(c))
  /\ \A k \in Sessions : WF_vars(LateCommand(k)) /\ WF_vars(Expire(k))

Spec == Init /\ [][Next]_vars /\ Fairness

----------------------------------------------------------------------------
(* Every variable keeps its type.                                          *)
TypeOK ==
  /\ process \in {"running", "returning", "exited"}
  /\ sigChan \in Signals \cup {"none"}
  /\ handler \in {"receiving", "resetting", "closing", "returned"}
  /\ chaos \in BOOLEAN
  /\ pc \in [Conns -> {"idle", "locking", "working", "unlocking"}]
  /\ session \in [Conns -> Sessions]
  /\ locked \subseteq InFlight
  /\ keys \in [Sessions -> KeyStates]
  /\ late \subseteq Commands

(* A SIGTERM that got into the channel ends the process, behind whatever   *)
(* hot reload is being handled; only one that found the slot taken is      *)
(* dropped.                                                                *)
TerminationIsHonoured == sigChan = "SIGTERM" ~> process = "exited"

(* A SIGHUP that got into the channel makes the gateway nominal, unless    *)
(* the process ends first.                                                 *)
ReloadIsHonoured == sigChan = "SIGHUP" ~> ~chaos \/ process = "exited"

(* Once no checkout is in flight any more, Redis ends up without a lock    *)
(* key, whatever a killed process left there with its Del undone, a failed *)
(* Del did not delete, another checkout set again, or a late SET put back. *)
LocksExpire ==
  <>[](InFlight = {}) => <>[](\A k \in Sessions : keys[k] = "absent")
=============================================================================
