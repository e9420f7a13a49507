-------------------------------- MODULE Ttm --------------------------------
(***************************************************************************)
(* The Time-to-Mitigation of an episode with telemetry: compute_ttm of     *)
(* evaluator/metrics.py, over a series of samples that grows as time       *)
(* passes, so that the oracle may be asked at any moment.                  *)
(*                                                                         *)
(* Time counts from t_chaos, and samples before it occur.  A sample is     *)
(* healthy when its error rate is below 0.001 and its P99 within tau_sla.  *)
(* compute_ttm sorts what it is given, so the series is a set.             *)
(***************************************************************************)
EXTENDS Integers, FiniteSets

CONSTANTS
  DeltaTau,  \* delta_tau, in units of the instance's choice
  TMax,      \* t_max
  Before,    \* how long before t_chaos sampling starts (bound)
  MaxClock   \* how long it goes on (bound)

ASSUME TtmAssumption ==
  /\ DeltaTau \in Nat \ {0} /\ TMax \in Nat \ {0}
  /\ Before \in Nat /\ MaxClock \in Nat

VARIABLES
  clock,   \* the moment the next samples carry
  series   \* telemetry_history

vars == <<clock, series>>

----------------------------------------------------------------------------
(* Definitions named ..._Fault are not part of the specification: each is  *)
(* a bug the definition after it might have had, and breaks a property.    *)

PostChaos(s) == {p \in s : p.at >= 0}

(* The end of the window forgotten.                                        *)
Window_Fault(s, t) == {p \in PostChaos(s) : t <= p.at}

(* The window cut off where the span is long enough.                       *)
Window_ShortFault(s, t) ==
  {p \in PostChaos(s) : t <= p.at /\ 4 * (p.at - t) <= 3 * DeltaTau}

Window(s, t) == {p \in PostChaos(s) : t <= p.at /\ p.at <= t + DeltaTau}

(* The span from the first to the last sample of the window, which starts  *)
(* with the candidate's own, reaches three quarters of delta_tau.          *)
Spanned(s, t) == \E p \in Window(s, t) : 4 * (p.at - t) >= 3 * DeltaTau

(* Only the ends of the window are looked at.                              *)
Sustained_Fault(s, t) ==
  \A p \in Window(s, t) :
     (\A q \in Window(s, t) : q.at <= p.at) \/ p.at = t => p.healthy

Sustained(s, t) == \A p \in Window(s, t) : p.healthy

(* Recovery counted from a failure on: a service that has none never       *)
(* recovers.                                                               *)
Candidates_Fault(s) ==
  {t \in {p.at : p \in {q \in PostChaos(s) : ~q.healthy}} :
     Spanned(s, t) /\ \A p \in Window(s, t) : p.at = t \/ p.healthy}

Candidates(s) ==
  {t \in {p.at : p \in PostChaos(s)} : Spanned(s, t) /\ Sustained(s, t)}

Least(S) == CHOOSE t \in S : \A u \in S : t <= u

compute_ttm(s) == IF Candidates(s) = {} THEN TMax
                  ELSE Least(Candidates(s) \cup {TMax})

----------------------------------------------------------------------------
Init ==
  /\ clock = -Before
  /\ series = {}

(* Whoever watches the service: at each moment a sample is taken or none,  *)
(* so that gaps of any length occur.                                       *)
Sample ==
  /\ clock <= MaxClock
  /\ clock' = clock + 1
  /\ \/ UNCHANGED series
     \/ \E h \in BOOLEAN :
           series' = series \cup {[at |-> clock, healthy |-> h]}

Next == Sample
Spec == Init /\ [][Next]_vars

----------------------------------------------------------------------------
(* The verdict of a watched incident is a fact of the past: once the whole *)
(* window of a TTM has gone by, no later sample moves it, neither up nor   *)
(* down.  (Within the last quarter of the window it may still be taken     *)
(* back.)                                                                  *)
VerdictBecomesFinal ==
  [][compute_ttm(series) < TMax /\ clock > compute_ttm(series) + DeltaTau
       => compute_ttm(series') = compute_ttm(series)]_vars

(* A verdict may come before the service was healthy for all of delta_tau, *)
(* as three quarters of it are enough; but a relapse that is seen within   *)
(* delta_tau takes it back, and the TTM is a later one.                    *)
RelapseTakesVerdictBack ==
  [][LET bad == [at |-> clock, healthy |-> FALSE] IN
     /\ compute_ttm(series) < TMax
     /\ clock <= compute_ttm(series) + DeltaTau
     /\ series' = series \cup {bad}
     => compute_ttm(series') > compute_ttm(series)]_vars

(* No sample that turns bad improves a TTM: the verdict cannot be helped   *)
(* by hurting the service.                                                 *)
WorseIsNeverFaster ==
  \A p \in series :
     p.healthy => compute_ttm((series \ {p}) \cup {[p EXCEPT !.healthy = FALSE]})
                    >= compute_ttm(series)

(* The formula in the docstring, TTM = min {t : forall t' in [t, t +       *)
(* delta_tau], healthy}, for a series that has a sample at every moment,   *)
(* where the windows of all t up to the verdict have gone by.              *)
Dense == \A t \in 0..clock - 1 : \E p \in series : p.at = t
Healthy(t) == \A p \in series : p.at = t => p.healthy
Stable == {t \in 0..clock - 1 - DeltaTau : \A u \in t..t + DeltaTau : Healthy(u)}

DenseSeriesAgree ==
  /\ Dense /\ clock > compute_ttm(series) + DeltaTau
       => compute_ttm(series) = Least(Stable \cup {TMax})
  /\ Stable # {} /\ Dense => compute_ttm(series) <= Least(Stable)

============================================================================
