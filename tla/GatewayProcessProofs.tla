------------------------ MODULE GatewayProcessProofs ------------------------
(***************************************************************************)
(* What GatewayProcess.tla promises for every number of connections and    *)
(* every set of sessions.                                                  *)
(***************************************************************************)
EXTENDS GatewayProcess, TLAPS

USE DEF signals, requests, redis

LEMMA NextCases ==
  ASSUME [Next]_vars
  PROVE  \/ \E sig \in Signals : Notify(sig)
         \/ TakeSignal \/ HotReloadDone \/ CloseListener
         \/ MainReturns \/ Killed \/ Restart \/ InjectChaos
         \/ \E c \in Conns : Arrive(c) \/ Lock(c) \/ Work(c) \/ Unlock(c)
         \/ \E k \in Sessions : LateCommand(k) \/ Expire(k)
         \/ UNCHANGED vars
BY DEF Next, HandleSignals, Serve

LEMMA InitTypeOK == Init => TypeOK
BY DEF Init, TypeOK, InFlight, KeyStates

LEMMA StepTypeOK == TypeOK /\ [Next]_vars => TypeOK'
<1> SUFFICES ASSUME TypeOK, [Next]_vars PROVE TypeOK'
  OBVIOUS
<1> USE DEF InFlight, Commands, KeyStates
<1>1. ASSUME NEW sig \in Signals, Notify(sig) PROVE TypeOK'
  BY <1>1 DEF Notify, TypeOK
<1>2. CASE TakeSignal
  BY <1>2 DEF TakeSignal, TypeOK
<1>3. CASE HotReloadDone
  BY <1>3 DEF HotReloadDone, TypeOK
<1>4. CASE CloseListener
  BY <1>4 DEF CloseListener, TypeOK
<1>5. CASE MainReturns \/ Killed
  BY <1>5 DEF MainReturns, Killed, Ends, InFlight, TypeOK
<1>6. CASE Restart
  BY <1>6 DEF Restart, TypeOK
<1>7. CASE InjectChaos
  BY <1>7 DEF InjectChaos, TypeOK
<1>8. ASSUME NEW c \in Conns, Arrive(c) PROVE TypeOK'
  BY <1>8 DEF Arrive, Goto, TypeOK
<1>9. ASSUME NEW c \in Conns, Lock(c) PROVE TypeOK'
  BY <1>9 DEF Lock, Goto, TypeOK
<1>10. ASSUME NEW c \in Conns, Work(c) PROVE TypeOK'
  BY <1>10 DEF Work, Goto, TypeOK
<1>11. ASSUME NEW c \in Conns, Unlock(c) PROVE TypeOK'
  BY <1>11 DEF Unlock, Goto, TypeOK
<1>12. ASSUME NEW k \in Sessions, LateCommand(k) PROVE TypeOK'
  BY <1>12 DEF LateCommand, TypeOK
<1>13. ASSUME NEW k \in Sessions, Expire(k) PROVE TypeOK'
  BY <1>13 DEF Expire, TypeOK
<1>14. CASE UNCHANGED vars
  BY <1>14 DEF vars, TypeOK
<1> QED
  BY NextCases, <1>1, <1>2, <1>3, <1>4, <1>5, <1>6, <1>7, <1>8, <1>9, <1>10,
     <1>11, <1>12, <1>13, <1>14

(* Every reachable state is well typed.                                    *)
THEOREM TypeCorrect == Spec => []TypeOK
BY InitTypeOK, StepTypeOK, PTL DEF Spec

----------------------------------------------------------------------------
(* The safety under TerminationIsHonoured and ReloadIsHonoured: as long as *)
(* the gateway serves, the goroutine that handles signals is there to take *)
(* the one in the channel, hot reloads included; and with the process end  *)
(* all its checkouts, so none is waited for across a restart.              *)
SignalsHaveAReceiver ==
  /\ process = "running" => handler # "returned"
  /\ process = "exited" => InFlight = {}

LEMMA ReceiverStep ==
  TypeOK /\ SignalsHaveAReceiver /\ [Next]_vars => SignalsHaveAReceiver'
<1> SUFFICES ASSUME TypeOK, SignalsHaveAReceiver, [Next]_vars
             PROVE  SignalsHaveAReceiver'
  OBVIOUS
<1>1. process' = "running" => handler' # "returned"
  BY NextCases
     DEF Notify, TakeSignal, HotReloadDone, CloseListener, MainReturns, Killed,
         Ends, Restart, InjectChaos, Arrive, Lock, Work, Unlock, LateCommand, Expire,
         vars, SignalsHaveAReceiver
<1>2. process' = "exited" => InFlight' = {}
  <2>1. CASE MainReturns \/ Killed
    BY <2>1 DEF MainReturns, Killed, Ends, InFlight
  <2>2. ASSUME NEW c \in Conns, Arrive(c) PROVE process' # "exited"
    BY <2>2 DEF Arrive
  <2>3. ASSUME NEW c \in Conns, Lock(c) \/ Work(c) \/ Unlock(c)
        PROVE  process' # "exited"
    <3>1. c \in InFlight /\ process' = process
      BY <2>3 DEF Lock, Work, Unlock, InFlight
    <3> QED BY <3>1 DEF SignalsHaveAReceiver
  <2>4. ASSUME UNCHANGED pc, process' = "exited" => process = "exited"
        PROVE  process' = "exited" => InFlight' = {}
    BY <2>4 DEF SignalsHaveAReceiver, InFlight
  <2>5. ASSUME NEW sig \in Signals, Notify(sig)
        PROVE  process' = "exited" => InFlight' = {}
    BY <2>4, <2>5 DEF Notify
  <2>6. CASE TakeSignal \/ HotReloadDone \/ CloseListener
    BY <2>4, <2>6 DEF TakeSignal, HotReloadDone, CloseListener
  <2>7. CASE Restart \/ InjectChaos \/ UNCHANGED vars
    BY <2>4, <2>7 DEF Restart, InjectChaos, vars
  <2>8. ASSUME NEW k \in Sessions, LateCommand(k) \/ Expire(k)
        PROVE  process' = "exited" => InFlight' = {}
    BY <2>4, <2>8 DEF LateCommand, Expire
  <2> QED BY NextCases, <2>1, <2>2, <2>3, <2>5, <2>6, <2>7, <2>8
<1> QED BY <1>1, <1>2 DEF SignalsHaveAReceiver

(* A gateway that serves listens to its signals, and one that has exited   *)
(* has no checkout in flight.                                              *)
THEOREM GatewayListens == Spec => []SignalsHaveAReceiver
<1>1. Init => SignalsHaveAReceiver
  BY DEF Init, SignalsHaveAReceiver
<1> QED BY <1>1, TypeCorrect, ReceiverStep, PTL DEF Spec
=============================================================================
