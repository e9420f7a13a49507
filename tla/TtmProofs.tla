----------------------------- MODULE TtmProofs -----------------------------
(***************************************************************************)
(* What Ttm.tla promises for every delta_tau, every t_max and a series of  *)
(* any length.                                                             *)
(***************************************************************************)
EXTENDS Ttm, WellFoundedInduction, TLAPS

(* A set of times that are not negative has a least one.                   *)
LEMMA LeastIs ==
  ASSUME NEW S, S \subseteq Nat, S # {}
  PROVE  Least(S) \in S /\ \A u \in S : Least(S) <= u
<1> DEFINE R == OpToRel(<, Nat)
<1>1. IsWellFoundedOn(R, Nat)
  BY NatLessThanWellFounded
<1>2. \A a, b \in Nat : a < b => <<a, b>> \in R
  BY DEF OpToRel
<1> HIDE DEF R
<1>3. PICK x \in S : \A y \in S : ~(<<y, x>> \in R)
  BY <1>1, WFMin
<1>4. \A y \in S : x <= y
  <2> SUFFICES ASSUME NEW y \in S PROVE x <= y
    OBVIOUS
  <2>1. x \in Nat /\ y \in Nat
    OBVIOUS
  <2>2. ~(y < x)
    BY <1>2, <1>3, <2>1
  <2> QED BY <2>1, <2>2
<1> QED BY <1>4 DEF Least

(* A least element is the only one.                                        *)
LEMMA LeastUnique ==
  ASSUME NEW S, S \subseteq Nat, NEW x \in S, \A u \in S : x <= u
  PROVE  Least(S) = x
<1>1. Least(S) \in S /\ Least(S) <= x
  BY LeastIs
<1>2. x <= Least(S)
  BY <1>1
<1>3. x \in Nat /\ Least(S) \in Nat
  BY <1>1
<1> QED BY <1>1, <1>2, <1>3

(* A part of a set has no smaller least element than the whole.            *)
LEMMA LeastOfPart ==
  ASSUME NEW S, S \subseteq Nat, NEW T, T \subseteq S, T # {}
  PROVE  Least(S) <= Least(T)
<1>1. Least(T) \in S
  BY LeastIs
<1> QED BY <1>1, LeastIs

----------------------------------------------------------------------------
(* Sampled so far: what the series can be.                                 *)
Series == SUBSET [at : Int, healthy : BOOLEAN]

Sampled == clock \in Int /\ series \in Series /\ \A p \in series : p.at < clock

LEMMA InitSampled == Init => Sampled
BY TtmAssumption DEF Init, Sampled, Series

LEMMA StepSampled == Sampled /\ [Next]_vars => Sampled'
<1> SUFFICES ASSUME Sampled, [Next]_vars PROVE Sampled'
  OBVIOUS
<1>1. CASE Next
  <2>1. clock' = clock + 1
    BY <1>1 DEF Next, Sample
  <2>2. CASE UNCHANGED series
    BY <2>1, <2>2 DEF Sampled, Series
  <2>3. ASSUME NEW h \in BOOLEAN,
               series' = series \cup {[at |-> clock, healthy |-> h]}
        PROVE  Sampled'
    BY <2>1, <2>3 DEF Sampled, Series
  <2> QED BY <1>1, <2>2, <2>3 DEF Next, Sample
<1>2. CASE UNCHANGED vars
  BY <1>2 DEF vars, Sampled
<1> QED BY <1>1, <1>2

LEMMA AlwaysSampled == Spec => []Sampled
BY InitSampled, StepSampled, PTL DEF Spec

LEMMA CandidateType ==
  ASSUME NEW s \in Series
  PROVE  Candidates(s) \subseteq Nat /\ Candidates(s) \cup {TMax} \subseteq Nat
BY TtmAssumption DEF Candidates, PostChaos, Series

(* The verdict is the least of the candidates and t_max, whether there are *)
(* candidates or not.                                                      *)
LEMMA VerdictIsLeast ==
  ASSUME NEW s \in Series
  PROVE  compute_ttm(s) = Least(Candidates(s) \cup {TMax})
<1>1. CASE Candidates(s) = {}
  <2>1. Least({TMax}) = TMax
    BY TtmAssumption, LeastUnique
  <2> QED BY <1>1, <2>1 DEF compute_ttm
<1>2. CASE Candidates(s) # {}
  BY <1>2 DEF compute_ttm
<1> QED BY <1>1, <1>2

----------------------------------------------------------------------------
(* A series that is worse at one sample has no candidate the other has not.*)
LEMMA WorseHasFewer ==
  ASSUME NEW s \in Series, NEW p \in s, p.healthy, NEW r,
         r = [p EXCEPT !.healthy = FALSE]
  PROVE  Candidates((s \ {p}) \cup {r}) \subseteq Candidates(s)
<1> DEFINE s2 == (s \ {p}) \cup {r}
<1>1. r.at = p.at /\ ~r.healthy
  BY DEF Series
<1> SUFFICES ASSUME NEW t \in Candidates(s2) PROVE t \in Candidates(s)
  OBVIOUS
<1>2. \E q \in PostChaos(s) : q.at = t
  BY <1>1 DEF Candidates, PostChaos
<1>3. Spanned(s, t)
  BY <1>1 DEF Candidates, Spanned, Window, PostChaos
<1>4. Sustained(s, t)
  <2> SUFFICES ASSUME NEW w \in Window(s, t) PROVE w.healthy
    BY DEF Sustained
  <2>1. Sustained(s2, t)
    BY DEF Candidates
  <2>2. CASE w = p
    <3>1. r \in Window(s2, t)
      BY <1>1, <2>2 DEF Window, PostChaos
    <3> QED BY <1>1, <2>1, <3>1 DEF Sustained
  <2>3. CASE w # p
    <3>1. w \in Window(s2, t)
      BY <2>3 DEF Window, PostChaos
    <3> QED BY <2>1, <3>1 DEF Sustained
  <2> QED BY <2>2, <2>3
<1> QED BY <1>2, <1>3, <1>4 DEF Candidates

(* Hurting the service never improves the verdict.                         *)
THEOREM WorseNeverHelps == Spec => []WorseIsNeverFaster
<1>1. Sampled => WorseIsNeverFaster
  <2> SUFFICES ASSUME Sampled, NEW p \in series, p.healthy
               PROVE  compute_ttm((series \ {p})
                                    \cup {[p EXCEPT !.healthy = FALSE]})
                        >= compute_ttm(series)
    BY DEF WorseIsNeverFaster
  <2> DEFINE r == [p EXCEPT !.healthy = FALSE]
             s2 == (series \ {p}) \cup {r}
  <2>1. series \in Series /\ s2 \in Series
    BY DEF Sampled, Series
  <2>2. Candidates(s2) \cup {TMax} \subseteq Candidates(series) \cup {TMax}
    BY <2>1, WorseHasFewer
  <2>3. Candidates(series) \cup {TMax} \subseteq Nat
    BY <2>1, CandidateType
  <2>4. Least(Candidates(series) \cup {TMax})
          <= Least(Candidates(s2) \cup {TMax})
    BY <2>2, <2>3, LeastOfPart
  <2>5. /\ Least(Candidates(series) \cup {TMax}) \in Nat
        /\ Least(Candidates(s2) \cup {TMax}) \in Nat
    BY <2>2, <2>3, LeastIs
  <2> QED BY <2>1, <2>4, <2>5, VerdictIsLeast
<1> QED BY <1>1, AlwaysSampled, PTL

----------------------------------------------------------------------------
(* A sample taken after the window of t has gone by does not change it.    *)
LEMMA PastWindow ==
  ASSUME NEW s \in Series, NEW r \in [at : Int, healthy : BOOLEAN],
         NEW t \in Int, t + DeltaTau < r.at
  PROVE  Window(s \cup {r}, t) = Window(s, t)
BY TtmAssumption DEF Window, PostChaos, Series

LEMMA PastCandidate ==
  ASSUME NEW s \in Series, NEW r \in [at : Int, healthy : BOOLEAN],
         NEW t \in Nat, t + DeltaTau < r.at
  PROVE  t \in Candidates(s \cup {r}) <=> t \in Candidates(s)
<1>1. Window(s \cup {r}, t) = Window(s, t)
  BY PastWindow
<1>2. t # r.at
  BY TtmAssumption
<1>3. t \in {q.at : q \in PostChaos(s \cup {r})}
        <=> t \in {q.at : q \in PostChaos(s)}
  BY <1>2 DEF PostChaos
<1> QED BY <1>1, <1>3 DEF Candidates, Spanned, Sustained

(* Once the window of a verdict has gone by, it stands.                    *)
THEOREM VerdictsBecomeFinal == Spec => VerdictBecomesFinal
<1> DEFINE Stands ==
      compute_ttm(series) < TMax /\ clock > compute_ttm(series) + DeltaTau
        => compute_ttm(series') = compute_ttm(series)
<1>1. ASSUME Sampled, [Next]_vars PROVE [Stands]_vars
  <2> SUFFICES ASSUME Next, compute_ttm(series) < TMax,
                      clock > compute_ttm(series) + DeltaTau
               PROVE  compute_ttm(series') = compute_ttm(series)
    BY <1>1
  <2>1. CASE UNCHANGED series
    BY <2>1
  <2>2. ASSUME NEW h \in BOOLEAN,
               series' = series \cup {[at |-> clock, healthy |-> h]}
        PROVE  compute_ttm(series') = compute_ttm(series)
    <3> DEFINE r == [at |-> clock, healthy |-> h]
               C == Candidates(series)
               D == Candidates(series')
               v == compute_ttm(series)
    <3>1. /\ series \in Series /\ series' \in Series
          /\ r \in [at : Int, healthy : BOOLEAN] /\ r.at = clock
          /\ series' = series \cup {r}
      BY <1>1, <2>2 DEF Sampled, Series
    <3>2. C \cup {TMax} \subseteq Nat /\ D \cup {TMax} \subseteq Nat
      BY <3>1, CandidateType
    <3>3. /\ v \in C \cup {TMax}
          /\ \A u \in C \cup {TMax} : v <= u
      <4>1. v = Least(C \cup {TMax})
        BY <3>1, VerdictIsLeast
      <4> QED BY <3>2, <4>1, LeastIs
    <3>4. v \in Nat /\ v \in C
      BY <3>2, <3>3
    <3>5. \A t \in Nat : t <= v => (t \in D <=> t \in C)
      <4> SUFFICES ASSUME NEW t \in Nat, t <= v PROVE t \in D <=> t \in C
        OBVIOUS
      <4>1. t + DeltaTau < r.at
        BY <1>1, <3>1, <3>4, TtmAssumption DEF Sampled
      <4> QED BY <3>1, <4>1, PastCandidate
    <3>6. v \in D \cup {TMax} /\ \A u \in D \cup {TMax} : v <= u
      <4>1. v \in D
        BY <3>4, <3>5
      <4>2. ASSUME NEW u \in D \cup {TMax} PROVE v <= u
        <5>1. u \in Nat
          BY <3>2, <4>2
        <5>2. u < v => u \in C
          BY <3>4, <3>5, <5>1, <4>2, TtmAssumption
        <5> QED BY <3>3, <3>4, <5>1, <5>2
      <4> QED BY <4>1, <4>2
    <3>7. Least(D \cup {TMax}) = v
      BY <3>2, <3>6, LeastUnique
    <3> QED BY <3>1, <3>7, VerdictIsLeast
  <2> QED BY <2>1, <2>2 DEF Next, Sample
<1> QED BY <1>1, AlwaysSampled, PTL DEF Spec, VerdictBecomesFinal

----------------------------------------------------------------------------
(* A bad sample in the window of t, seen last, leaves t no candidate.      *)
LEMMA BadSampleRefutes ==
  ASSUME NEW s \in Series, NEW r \in [at : Int, healthy : BOOLEAN], ~r.healthy,
         NEW t \in Nat, t <= r.at, r.at <= t + DeltaTau
  PROVE  t \notin Candidates(s \cup {r})
<1>1. r \in Window(s \cup {r}, t)
  BY DEF Window, PostChaos
<1> QED BY <1>1 DEF Candidates, Sustained

(* A bad sample after all others makes no time a candidate.                *)
LEMMA BadSampleAddsNone ==
  ASSUME NEW s \in Series, NEW r \in [at : Int, healthy : BOOLEAN], ~r.healthy,
         \A p \in s : p.at < r.at
  PROVE  Candidates(s \cup {r}) \subseteq Candidates(s)
<1> SUFFICES ASSUME NEW t \in Candidates(s \cup {r}) PROVE t \in Candidates(s)
  OBVIOUS
<1>1. t \in Nat
  <2>1. s \cup {r} \in Series
    BY DEF Series
  <2> QED BY <2>1, CandidateType
<1>2. t <= r.at
  BY <1>1 DEF Candidates, PostChaos, Series
<1>3. t + DeltaTau < r.at
  BY <1>1, <1>2, BadSampleRefutes, TtmAssumption
<1> QED BY <1>1, <1>3, PastCandidate

(* A relapse seen within delta_tau of a verdict takes it back.             *)
THEOREM RelapseIsCounted == Spec => RelapseTakesVerdictBack
<1> DEFINE bad == [at |-> clock, healthy |-> FALSE]
           v == compute_ttm(series)
           Taken == /\ v < TMax
                    /\ clock <= v + DeltaTau
                    /\ series' = series \cup {bad}
                    => compute_ttm(series') > v
<1>1. ASSUME Sampled PROVE Taken
  <2> SUFFICES ASSUME v < TMax, clock <= v + DeltaTau,
                      series' = series \cup {bad}
               PROVE  compute_ttm(series') > v
    OBVIOUS
  <2>1. /\ series \in Series /\ series' \in Series /\ clock \in Int
        /\ bad \in [at : Int, healthy : BOOLEAN] /\ bad.at = clock
        /\ ~bad.healthy /\ \A p \in series : p.at < bad.at
    <3>1. clock \in Int /\ series \in Series /\ \A p \in series : p.at < clock
      BY <1>1 DEF Sampled
    <3>2. bad \in [at : Int, healthy : BOOLEAN] /\ bad.at = clock
      BY <3>1
    <3>3. bad.healthy = FALSE
      OBVIOUS
    <3>4. series' \in Series
      BY <3>1, <3>2 DEF Series
    <3> QED BY <3>1, <3>2, <3>3, <3>4
  <2> DEFINE C == Candidates(series)
             D == Candidates(series')
  <2>2. C \cup {TMax} \subseteq Nat /\ D \cup {TMax} \subseteq Nat
    BY <2>1, CandidateType
  <2>3. v = Least(C \cup {TMax})
    BY <2>1, VerdictIsLeast
  <2>4. v \in C \cup {TMax} /\ \A u \in C \cup {TMax} : v <= u
    BY <2>2, <2>3, LeastIs
  <2>5. v \in Nat /\ v \in C
    BY <2>2, <2>4
  <2>6. D \subseteq C
    BY <2>1, BadSampleAddsNone
  <2>7. v <= clock
    BY <2>1, <2>5 DEF Candidates, PostChaos, Series
  <2>8. v \notin D
    BY <2>1, <2>5, <2>7, BadSampleRefutes
  <2> DEFINE w == compute_ttm(series')
  <2>9. w \in D \cup {TMax}
    <3>1. w = Least(D \cup {TMax})
      BY <2>1, VerdictIsLeast
    <3> QED BY <2>2, <3>1, LeastIs
  <2>10. w \in Nat
    BY <2>2, <2>9
  <2>11. v <= w /\ v # w
    <3> HIDE DEF v, w, C, D
    <3>1. CASE w = TMax
      BY <2>5, <3>1, TtmAssumption
    <3>2. CASE w \in D
      BY <2>4, <2>6, <2>8, <3>2
    <3> QED BY <2>9, <3>1, <3>2
  <2> HIDE DEF v, w
  <2> QED BY <2>5, <2>10, <2>11 DEF w
<1> QED BY <1>1, AlwaysSampled, PTL DEF Spec, RelapseTakesVerdictBack

----------------------------------------------------------------------------
(* Without gaps, a time from which the service is healthy for the whole of *)
(* delta_tau is a candidate.                                               *)
LEMMA StableIsCandidate ==
  ASSUME Sampled, Dense
  PROVE  Stable \subseteq Candidates(series)
<1> SUFFICES ASSUME NEW t \in Stable PROVE t \in Candidates(series)
  OBVIOUS
<1> USE TtmAssumption DEF Sampled, Series
<1>1. /\ t \in 0..clock - 1 - DeltaTau
      /\ \A u \in t..t + DeltaTau : Healthy(u)
  BY DEF Stable
<1>2. t \in Int /\ t >= 0 /\ t \in 0..clock - 1 /\ t + DeltaTau \in 0..clock - 1
  BY <1>1
<1>3. PICK p \in series : p.at = t
  BY <1>2 DEF Dense
<1>4. PICK q \in series : q.at = t + DeltaTau
  BY <1>2 DEF Dense
<1>5. t \in {x.at : x \in PostChaos(series)}
  BY <1>2, <1>3 DEF PostChaos
<1>6. Spanned(series, t)
  <2>1. q \in Window(series, t)
    BY <1>2, <1>4 DEF Window, PostChaos
  <2>2. 4 * (q.at - t) >= 3 * DeltaTau
    BY <1>2, <1>4
  <2> QED BY <2>1, <2>2 DEF Spanned
<1>7. Sustained(series, t)
  <2> SUFFICES ASSUME NEW w \in Window(series, t) PROVE w.healthy
    BY DEF Sustained
  <2>1. w \in series /\ w.at \in t..t + DeltaTau
    BY <1>2 DEF Window, PostChaos
  <2> QED BY <1>1, <2>1 DEF Healthy
<1> QED BY <1>5, <1>6, <1>7 DEF Candidates

(* The other way round it is for a candidate whose window has gone by.     *)
LEMMA CandidateIsStable ==
  ASSUME Sampled, NEW t \in Candidates(series), clock > t + DeltaTau
  PROVE  t \in Stable
<1> USE TtmAssumption DEF Sampled
<1>1. t \in Nat
  BY CandidateType
<1>2. t \in 0..clock - 1 - DeltaTau
  BY <1>1
<1>3. ASSUME NEW u \in t..t + DeltaTau, NEW p \in series, p.at = u
      PROVE  p.healthy
  <2>1. p \in Window(series, t)
    BY <1>1, <1>3 DEF Window, PostChaos, Series
  <2> QED BY <2>1 DEF Candidates, Sustained
<1> QED BY <1>2, <1>3 DEF Stable, Healthy

(* The code's least candidate is the minimum of the docstring where the    *)
(* series has no gaps.                                                     *)
THEOREM DenseVerdictsAgree == Spec => []DenseSeriesAgree
<1> DEFINE C == Candidates(series)
           v == compute_ttm(series)
<1>1. ASSUME Sampled PROVE DenseSeriesAgree
  <2>1. C \cup {TMax} \subseteq Nat /\ series \in Series
    BY <1>1, CandidateType DEF Sampled
  <2>2. v = Least(C \cup {TMax})
    BY <2>1, VerdictIsLeast
  <2>3. /\ v \in C \cup {TMax}
        /\ \A u \in C \cup {TMax} : v <= u
    BY <2>1, <2>2, LeastIs
  <2>4. ASSUME Dense, clock > v + DeltaTau
        PROVE  v = Least(Stable \cup {TMax})
    <3>1. Stable \cup {TMax} \subseteq C \cup {TMax}
      BY <1>1, <2>4, StableIsCandidate
    <3>2. v \in Stable \cup {TMax}
      BY <1>1, <2>3, <2>4, CandidateIsStable
    <3>3. Stable \cup {TMax} \subseteq Nat
      BY <2>1, <3>1
    <3>4. \A u \in Stable \cup {TMax} : v <= u
      BY <2>3, <3>1
    <3> HIDE DEF v
    <3> QED BY <3>2, <3>3, <3>4, LeastUnique
  <2>5. ASSUME Stable # {}, Dense PROVE v <= Least(Stable)
    <3>1. Stable \subseteq C \cup {TMax}
      BY <1>1, <2>5, StableIsCandidate
    <3> QED BY <2>1, <2>2, <2>5, <3>1, LeastOfPart
  <2> QED BY <2>4, <2>5 DEF DenseSeriesAgree
<1>2. Sampled => DenseSeriesAgree
  BY <1>1
<1> QED BY <1>2, AlwaysSampled, PTL
============================================================================
