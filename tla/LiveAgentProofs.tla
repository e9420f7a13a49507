-------------------------- MODULE LiveAgentProofs --------------------------
(***************************************************************************)
(* What LiveAgent.tla promises for every number of turns, attempts and     *)
(* tool calls, and that it is an implementation of Episode.tla.            *)
(***************************************************************************)
EXTENDS LiveAgent, EpisodeProofs

(* The steps of the loop, one by one.                                      *)
LEMMA LiveCases ==
  ASSUME [LiveNext]_allVars
  PROVE  \/ IngestAlert
         \/ \E n \in 0..MaxPerTurn : Reply(n)
         \/ EmptyChoices \/ MalformedAnswer
         \/ NotFound \/ NoFallback \/ Busy \/ NetworkFails \/ Refused
         \/ Dispatch \/ MalformedCall
         \/ EndTurn
         \/ Wait
         \/ UNCHANGED allVars
BY DEF LiveNext, SolveIncident, Ask

(* Only the alert and the dispatch of a call touch the episode.            *)
LEMMA EpisodeStep == [LiveNext]_allVars => [Next]_vars
<1> SUFFICES ASSUME [LiveNext]_allVars PROVE [Next]_vars
  OBVIOUS
<1>1. CASE IngestAlert
  BY <1>1 DEF IngestAlert, Bounded, Next
<1>2. CASE Dispatch
  BY <1>2 DEF Dispatch, ToolCall, InvalidCall, Bounded, Next
<1>3. CASE Wait
  BY <1>3 DEF Wait, Next
<1>4. CASE UNCHANGED vars
  BY <1>4
<1> QED
  BY LiveCases, <1>1, <1>2, <1>3, <1>4
     DEF Reply, EmptyChoices, MalformedAnswer, NotFound, NoFallback, Busy,
         NetworkFails, Refused, Trouble, MalformedCall, EndTurn, allVars

(* A live agent does nothing to an episode but call its tools: LiveAgent   *)
(* implements Episode.                                                     *)
THEOREM ImplementsEpisode == LiveSpec => EpisodeIsRespected
<1>1. LiveInit => Init
  BY DEF LiveInit
<1> QED BY <1>1, EpisodeStep, PTL DEF LiveSpec, Spec, EpisodeIsRespected

(* So the counters and the flag agree with the trail a live agent leaves.  *)
COROLLARY LiveAuditTrailAgrees == LiveSpec => []AuditAgrees
BY ImplementsEpisode, AuditTrailAgrees, PTL DEF EpisodeIsRespected

(* And the verdict promises a live agent what it promises any sequence of  *)
(* calls: a pass takes a fix in the first half of the incident and more    *)
(* than speed.                                                             *)
COROLLARY LivePassesAreEarned ==
  ASSUME TMax < 6000
  PROVE  LiveSpec => []PassIsEarned
BY ImplementsEpisode, PassesAreEarned, PTL DEF EpisodeIsRespected

(* Nor does an answer of the model get around the rest: a breach is final, *)
(* looking is free, and so is prose after a structured report, while       *)
(* tinkering after a fix never pays.                                       *)
COROLLARY LiveVerdictsAreFair ==
  LiveSpec => /\ BreachIsFinal
              /\ DiagnosisNeverHurts
              /\ LateMutationNeverHelps
              /\ StructuredStands
BY ImplementsEpisode, BreachCannotBeUndone, LookingIsFree, TinkeringNeverPays,
   ProseChangesNothing, PTL DEF EpisodeIsRespected

----------------------------------------------------------------------------
(* The conversation.  All answers but the one being worked through are     *)
(* complete, and that one lacks exactly the calls that are left.           *)
Settled(i) == messages[i].answered = messages[i].asked
Current == messages[Len(messages)]

TalkInv ==
  /\ LiveTypeOK
  /\ pc \in {"alert", "request"} => Len(messages) <= turn
  /\ pc \in {"alert", "request", "reported", "quiet", "exhausted"} =>
       \A i \in 1..Len(messages) : Settled(i)
  /\ pc = "dispatch" =>
       /\ Len(messages) > 0
       /\ \A i \in 1..(Len(messages) - 1) : Settled(i)
       /\ Current.answered + left = Current.asked

LEMMA LiveInitOK == LiveInit => TalkInv
<1> SUFFICES ASSUME LiveInit PROVE TalkInv
  OBVIOUS
<1>1. messages \in Seq(Answers) /\ Len(messages) = 0
  BY DEF LiveInit, Answers
<1>2. model \in Models /\ current_model \in Models
  BY DEF LiveInit, Models
<1>3. turn \in 0..(MaxTurns - 1) /\ attempt \in 0..(MaxAttempts - 1)
  BY LiveAssumption DEF LiveInit
<1>4. left \in 0..MaxPerTurn
  BY LiveAssumption DEF LiveInit
<1>5. provider \in Providers /\ pc = "alert" /\ troubles = {}
  BY DEF LiveInit
<1>6. LiveTypeOK
  BY <1>1, <1>2, <1>3, <1>4, <1>5 DEF LiveTypeOK
<1> QED BY <1>1, <1>3, <1>5, <1>6 DEF TalkInv

(* An answer appended to the conversation.                                 *)
LEMMA AppendAnswer ==
  ASSUME TalkInv, pc = "request", NEW n \in 0..MaxPerTurn,
         messages' = Append(messages, [asked |-> n, answered |-> 0])
  PROVE  /\ messages' \in Seq(Answers)
         /\ Len(messages') = Len(messages) + 1
         /\ Len(messages') <= turn + 1
         /\ \A i \in 1..(Len(messages') - 1) : Settled(i)'
         /\ Current'.asked = n /\ Current'.answered = 0
<1> DEFINE new == [asked |-> n, answered |-> 0]
<1>1. new \in Answers /\ new.asked = n /\ new.answered = 0
  BY LiveAssumption DEF Answers
<1> HIDE DEF new
<1>2. messages' = Append(messages, new)
  BY DEF new
<1>3. messages \in Seq(Answers) /\ Len(messages) <= turn
  BY DEF TalkInv, LiveTypeOK
<1>6. Len(messages) \in Nat
  BY <1>3
<1>8. turn \in 0..(MaxTurns - 1)
  BY DEF TalkInv, LiveTypeOK
<1>7. turn \in Nat
  BY <1>8, LiveAssumption
<1>4. /\ messages' \in Seq(Answers)
      /\ Len(messages') = Len(messages) + 1
      /\ messages'[Len(messages) + 1] = new
      /\ \A i \in 1..Len(messages) : messages'[i] = messages[i]
  BY <1>1, <1>2, <1>3
<1>5. \A i \in 1..Len(messages) : Settled(i)
  BY DEF TalkInv
<1> QED BY <1>1, <1>3, <1>4, <1>5, <1>6, <1>7 DEF Settled, Current

LEMMA LastSettled ==
  ASSUME Len(messages') \in Nat, Len(messages') > 0,
         \A i \in 1..(Len(messages') - 1) : Settled(i)',
         Current'.answered = Current'.asked
  PROVE  \A i \in 1..Len(messages') : Settled(i)'
<1>1. Settled(Len(messages))'
  BY DEF Settled, Current
<1> QED BY <1>1

(* A result fed back for one of the calls of the current answer.           *)
LEMMA FeedBack ==
  ASSUME TalkInv, Dispatch
  PROVE  /\ messages' \in Seq(Answers)
         /\ Len(messages') = Len(messages)
         /\ \A i \in 1..(Len(messages) - 1) : Settled(i)'
         /\ Current'.answered + left' = Current'.asked
<1> DEFINE last == Len(messages)
           fed  == [messages[last] EXCEPT !.answered = @ + 1]
<1>10. LiveTypeOK /\ pc = "dispatch"
  BY DEF TalkInv, Dispatch
<1>11. messages \in Seq(Answers) /\ left \in 0..MaxPerTurn
  BY <1>10 DEF LiveTypeOK
<1>8. messages \in Seq(Answers) /\ last \in Nat /\ last > 0
  BY <1>10, <1>11 DEF TalkInv
<1>9. left \in Nat /\ left > 0 /\ left' = left - 1
  BY <1>11, LiveAssumption DEF Dispatch
<1>1. /\ messages \in Seq(Answers) /\ last \in Nat /\ last > 0
      /\ left \in Nat /\ left > 0 /\ left' = left - 1
  BY <1>8, <1>9
<1>2. /\ messages[last] \in Answers
      /\ messages[last].answered + left = messages[last].asked
  BY <1>1, <1>10 DEF TalkInv, Current
<1>3. /\ fed.asked = messages[last].asked
      /\ fed.answered = messages[last].answered + 1
  BY <1>2 DEF Answers
<1>4. fed \in Answers
  <2>1. messages[last].asked \in 0..MaxPerTurn
        /\ messages[last].answered \in 0..MaxPerTurn
    BY <1>2 DEF Answers
  <2>2. messages[last].answered + 1 \in 0..MaxPerTurn
    BY <2>1, <1>1, <1>2, LiveAssumption
  <2> QED BY <2>1, <2>2, <1>2 DEF Answers
<1>5. messages' = [messages EXCEPT ![last] = fed]
  BY DEF Dispatch
<1> HIDE DEF fed
<1>6. /\ messages' \in Seq(Answers) /\ Len(messages') = last
      /\ messages'[last] = fed
      /\ \A i \in 1..(last - 1) : messages'[i] = messages[i]
  BY <1>1, <1>4, <1>5
<1>7. \A i \in 1..(last - 1) : Settled(i)
  BY <1>10 DEF TalkInv
<1>12. \A i \in 1..(last - 1) : Settled(i)'
  BY <1>6, <1>7 DEF Settled
<1>13. Current' = fed
  BY <1>6 DEF Current
<1>14. fed.answered \in Nat /\ messages[last].answered \in Nat
  BY <1>2, <1>4, LiveAssumption DEF Answers
<1>15. Current'.answered + left' = Current'.asked
  BY <1>1, <1>2, <1>3, <1>13, <1>14
<1> QED BY <1>6, <1>12, <1>15

(* The failed requests leave conversation and turn alone.                  *)
LEMMA TroubleKeepsTalk ==
  ASSUME TalkInv, NotFound \/ NoFallback \/ Busy \/ NetworkFails \/ Refused
  PROVE  TalkInv'
<1>1. /\ pc = "request" /\ pc' \in {"request", "raised", "crashed"}
      /\ UNCHANGED <<provider, turn, left, messages>>
  BY DEF NotFound, NoFallback, Busy, NetworkFails, Refused, Trouble, Again,
         Raise, talk
<1>2. LiveTypeOK /\ attempt \in 0..(MaxAttempts - 1)
  BY DEF TalkInv, LiveTypeOK
<1>3. /\ attempt' \in 0..(MaxAttempts - 1)
      /\ model' \in Models /\ current_model' \in Models
  <2>4. attempt \in 0..(MaxAttempts - 1) /\ model \in Models /\ current_model \in Models
    BY <1>2 DEF LiveTypeOK
  <2>1. ASSUME NEW m \in Models, Again(m)
        PROVE  /\ attempt' \in 0..(MaxAttempts - 1)
               /\ model' \in Models /\ current_model' \in Models
    <3>1. CASE attempt + 1 < MaxAttempts
      <4>1. attempt' = attempt + 1 /\ model' = model /\ current_model' = m
        BY <2>1, <3>1 DEF Again
      <4>2. attempt' \in 0..(MaxAttempts - 1)
        BY <2>4, <3>1, <4>1, LiveAssumption
      <4> QED BY <2>4, <4>1, <4>2
    <3>2. CASE ~(attempt + 1 < MaxAttempts)
      BY <2>1, <2>4, <3>2 DEF Again
    <3> QED BY <3>1, <3>2
  <2>2. Raise => /\ attempt' \in 0..(MaxAttempts - 1)
                 /\ model' \in Models /\ current_model' \in Models
    BY <1>2 DEF Raise, LiveTypeOK
  <2>3. /\ current_model \in Models /\ "gemini-2.5-flash" \in Models
        /\ "gemini-flash-latest" \in Models
    BY <1>2 DEF LiveTypeOK, Models
  <2> QED
    BY <2>1, <2>2, <2>3 DEF NotFound, NoFallback, Busy, NetworkFails, Refused
<1>4. troubles' \subseteq Kinds \X Models
  <2>1. \E kind \in Kinds : troubles' = troubles \cup {<<kind, current_model>>}
    BY DEF NotFound, NoFallback, Busy, NetworkFails, Refused, Trouble, Kinds
  <2> QED BY <1>2, <2>1 DEF LiveTypeOK
<1>5. LiveTypeOK'
  BY <1>1, <1>2, <1>3, <1>4 DEF LiveTypeOK, Answers, Providers, Ends
<1> QED BY <1>1, <1>5 DEF TalkInv, Settled

(* An answer or a call that cannot be read ends the talk where it is.      *)
LEMMA MalformedKeepsTalk ==
  ASSUME TalkInv, MalformedAnswer \/ MalformedCall
  PROVE  TalkInv'
<1>1. LiveTypeOK /\ pc' = "malformed" /\ UNCHANGED <<provider, turn, left, messages>>
  BY DEF TalkInv, MalformedAnswer, MalformedCall, talk
<1>2. /\ attempt' \in 0..(MaxAttempts - 1)
      /\ model' \in Models /\ current_model' \in Models
      /\ troubles' \subseteq Kinds \X Models
  <2>1. 0 \in 0..(MaxAttempts - 1)
    BY LiveAssumption
  <2> QED BY <1>1, <2>1 DEF MalformedAnswer, MalformedCall, api, LiveTypeOK
<1> QED BY <1>1, <1>2 DEF TalkInv, LiveTypeOK, Ends

LEMMA TalkStep == TalkInv /\ [LiveNext]_allVars => TalkInv'
<1> SUFFICES ASSUME TalkInv, [LiveNext]_allVars PROVE TalkInv'
  OBVIOUS
<1>1. LiveTypeOK
  BY DEF TalkInv
<1>2. /\ turn \in 0..(MaxTurns - 1) /\ attempt \in 0..(MaxAttempts - 1)
      /\ left \in 0..MaxPerTurn /\ messages \in Seq(Answers)
      /\ Len(messages) <= turn + 1
  BY <1>1 DEF LiveTypeOK
<1>3. CASE IngestAlert
  BY <1>1, <1>3
     DEF IngestAlert, TalkInv, LiveTypeOK, talk, api, Settled, Answers,
         Providers, Models
<1>4. ASSUME NEW n \in 0..MaxPerTurn, Reply(n) PROVE TalkInv'
  <2>1. /\ messages' \in Seq(Answers)
        /\ Len(messages') = Len(messages) + 1
        /\ Len(messages') <= turn + 1
        /\ \A i \in 1..(Len(messages') - 1) : Settled(i)'
        /\ Current'.asked = n /\ Current'.answered = 0
    BY <1>4, AppendAnswer DEF Reply
  <2>2. 0 \in 0..(MaxAttempts - 1)
    BY LiveAssumption
  <2>3. LiveTypeOK'
    BY <1>1, <1>4, <2>1, <2>2
       DEF Reply, LiveTypeOK, Answers, Providers, Ends, Models
  <2>4. Len(messages') > 0
    BY <1>2, <2>1
  <2>5. pc' = "dispatch" => Current'.answered + left' = Current'.asked
    BY <1>4, <2>1 DEF Reply
  <2>6. pc' = IF n = 0 THEN "quiet" ELSE "dispatch"
    BY <1>4 DEF Reply
  <2>7. pc' = "quiet" => \A i \in 1..Len(messages') : Settled(i)'
    BY <2>1, <2>4, <2>6, LastSettled
  <2> QED BY <2>1, <2>3, <2>4, <2>5, <2>6, <2>7 DEF TalkInv
<1>5. CASE EmptyChoices
  <2>1. 0 \in 0..MaxPerTurn /\ 0 \in 0..(MaxAttempts - 1)
    BY LiveAssumption
  <2>2. /\ messages' \in Seq(Answers)
        /\ Len(messages') = Len(messages) + 1
        /\ Len(messages') <= turn + 1
        /\ \A i \in 1..(Len(messages') - 1) : Settled(i)'
        /\ Current'.asked = 0 /\ Current'.answered = 0
    BY <1>5, <2>1, AppendAnswer DEF EmptyChoices
  <2>3. LiveTypeOK'
    BY <1>1, <1>5, <2>1, <2>2
       DEF EmptyChoices, LiveTypeOK, Answers, Providers, Ends, Models
  <2>4. \A i \in 1..Len(messages') : Settled(i)'
    BY <1>2, <2>2, LastSettled
  <2> QED BY <1>5, <2>3, <2>4 DEF EmptyChoices, TalkInv
<1>6. CASE NotFound \/ NoFallback \/ Busy \/ NetworkFails \/ Refused
  BY <1>6, TroubleKeepsTalk
<1>10. CASE MalformedAnswer \/ MalformedCall
  BY <1>10, MalformedKeepsTalk
<1>7. CASE Dispatch
  <2>1. /\ messages' \in Seq(Answers)
        /\ Len(messages') = Len(messages)
        /\ \A i \in 1..(Len(messages) - 1) : Settled(i)'
        /\ Current'.answered + left' = Current'.asked
    BY <1>7, FeedBack
  <2>2. left' \in 0..MaxPerTurn
    BY <1>2, <1>7, LiveAssumption DEF Dispatch
  <2>3. UNCHANGED <<provider, pc, turn, attempt, model, current_model, troubles>>
    BY <1>7 DEF Dispatch, api
  <2>4. LiveTypeOK'
    BY <1>1, <2>1, <2>2, <2>3 DEF LiveTypeOK, Answers, Providers, Ends, Models
  <2>5. pc = "dispatch" /\ Len(messages) > 0
    BY <1>7 DEF Dispatch, TalkInv
  <2> QED BY <2>1, <2>3, <2>4, <2>5 DEF TalkInv
<1>8. CASE EndTurn
  <2>1. /\ pc = "dispatch" /\ left = 0
        /\ UNCHANGED <<provider, left, messages, attempt, model, troubles>>
    BY <1>8 DEF EndTurn
  <2>2. /\ turn' \in 0..(MaxTurns - 1) /\ turn <= turn'
        /\ pc' = "request" => turn' = turn + 1
    BY <1>2, <1>8, LiveAssumption DEF EndTurn
  <2>3. pc' \in {"request", "reported", "exhausted"}
        /\ current_model' \in Models
    BY <1>1, <1>8 DEF EndTurn, LiveTypeOK
  <2>4. Len(messages') <= turn' + 1
    BY <1>2, <2>1, <2>2
  <2>5. LiveTypeOK'
    BY <1>1, <2>1, <2>2, <2>3, <2>4
       DEF LiveTypeOK, Answers, Providers, Ends, Models
  <2>6. \A i \in 1..Len(messages) : Settled(i)
    <3>1. /\ \A i \in 1..(Len(messages) - 1) : Settled(i)
          /\ Current.answered + left = Current.asked
          /\ Len(messages) > 0
      BY <2>1 DEF TalkInv
    <3>2. Current \in Answers
      BY <1>2, <3>1 DEF Current
    <3>3. Settled(Len(messages))
      BY <2>1, <3>1, <3>2 DEF Settled, Current, Answers
    <3>4. Len(messages) \in Nat
      BY <1>2
    <3> QED BY <3>1, <3>3, <3>4
  <2>7. \A i \in 1..Len(messages') : Settled(i)'
    BY <2>1, <2>6 DEF Settled
  <2>8. pc' = "request" => Len(messages') <= turn'
    BY <1>2, <2>1, <2>2
  <2> QED BY <2>3, <2>5, <2>7, <2>8 DEF TalkInv
<1>9. CASE Wait \/ UNCHANGED allVars
  <2>1. UNCHANGED agentVars
    BY <1>9 DEF Wait, allVars
  <2> QED
    BY <2>1 DEF agentVars, talk, api, TalkInv, LiveTypeOK, Settled, Current,
                Answers, Providers, Models, Ends
<1> QED BY LiveCases, <1>3, <1>4, <1>5, <1>6, <1>7, <1>8, <1>9, <1>10

(* Attempts and turns stay within their limits, for every limit.           *)
THEOREM LiveTypeCorrect == LiveSpec => []LiveTypeOK
<1>1. TalkInv => LiveTypeOK
  BY DEF TalkInv
<1> QED BY <1>1, LiveInitOK, TalkStep, PTL DEF LiveSpec

(* Every request carries a result for every tool call made so far, and an  *)
(* episode that ends in order leaves no call of an answer undone.          *)
THEOREM ConversationStaysComplete == LiveSpec => []ConversationIsComplete
<1>1. TalkInv => ConversationIsComplete
  BY DEF TalkInv, ConversationIsComplete, Settled
<1> QED BY <1>1, LiveInitOK, TalkStep, PTL DEF LiveSpec

----------------------------------------------------------------------------
(* As long as a Gemini request met nothing but 404s, an attempt after the  *)
(* first is made with the fallback; if that one is missing too the error   *)
(* is raised at once.  Attempts are counted from zero for every answer.    *)
Only404 == provider = "gemini" /\ \A t \in troubles : t[1] = "not found"

NotLost ==
  /\ pc \notin {"raised", "crashed"}
  /\ attempt \in Nat
  /\ pc # "request" => attempt = 0
  /\ attempt # 0 => current_model = "gemini-2.5-flash"

LostWithIt == pc = "raised" /\ <<"not found", "gemini-2.5-flash">> \in troubles

FallbackInv == Only404 => NotLost \/ LostWithIt

LEMMA SecondAttempt ==
  ASSUME NEW n, n = 0, NEW m \in Nat \ {0, 1}
  PROVE  n + 1 < m /\ n + 1 \in Nat
OBVIOUS

LEMMA Only404Before ==
  ASSUME NEW kind, Trouble(kind), Only404'
  PROVE  Only404 /\ kind = "not found" /\ pc = "request"
<1>1. provider = "gemini" /\ pc = "request"
  BY DEF Only404, Trouble
<1>2. troubles \subseteq troubles' /\ <<kind, current_model>> \in troubles'
  BY DEF Trouble
<1>3. \A t \in troubles' : t[1] = "not found"
  BY DEF Only404
<1>4. <<kind, current_model>>[1] = "not found"
  BY <1>2, <1>3
<1> QED BY <1>1, <1>2, <1>3, <1>4 DEF Only404

LEMMA FallbackStep ==
  ASSUME MaxAttempts \in Nat \ {0, 1}, FallbackInv, [LiveNext]_allVars
  PROVE  FallbackInv'
<1> SUFFICES ASSUME Only404' PROVE NotLost' \/ LostWithIt'
  BY DEF FallbackInv
<1>1. CASE UNCHANGED agentVars
  BY <1>1 DEF agentVars, api, FallbackInv, Only404, NotLost, LostWithIt
<1>2. CASE IngestAlert \/ Dispatch \/ MalformedCall \/ EndTurn
  <2>1. /\ pc \notin {"request", "raised"} /\ UNCHANGED <<provider, troubles>>
        /\ attempt' = attempt /\ pc' \notin {"raised", "crashed"}
    BY <1>2 DEF IngestAlert, Dispatch, MalformedCall, EndTurn, api
  <2>2. NotLost
    BY <2>1 DEF FallbackInv, Only404, LostWithIt
  <2>3. attempt' = 0
    BY <2>1, <2>2 DEF NotLost
  <2> QED BY <2>1, <2>3 DEF NotLost
<1>3. CASE \/ EmptyChoices \/ MalformedAnswer
           \/ \E n \in 0..MaxPerTurn : Reply(n)
  <2>1. attempt' = 0 /\ pc' \notin {"raised", "crashed"}
    BY <1>3 DEF EmptyChoices, MalformedAnswer, Reply
  <2> QED BY <2>1 DEF NotLost
<1>4. CASE NotFound
  <2>1. /\ Only404 /\ pc = "request" /\ current_model # "gemini-2.5-flash"
        /\ Again("gemini-2.5-flash")
    BY <1>4, Only404Before DEF NotFound, HasFallback
  <2>2. attempt = 0
    BY <2>1 DEF FallbackInv, NotLost, LostWithIt
  <2>3. attempt + 1 < MaxAttempts /\ attempt + 1 \in Nat
    BY <2>2, SecondAttempt
  <2>4. /\ attempt' = attempt + 1 /\ current_model' = "gemini-2.5-flash"
        /\ pc' = pc
    BY <2>1, <2>3 DEF Again
  <2>5. attempt' \in Nat
    BY <2>3, <2>4
  <2> QED BY <2>1, <2>4, <2>5 DEF NotLost
<1>5. CASE NoFallback
  <2>1. Only404 /\ pc' = "raised"
    BY <1>5, Only404Before DEF NoFallback, Raise
  <2>2. current_model = "gemini-2.5-flash"
    BY <1>5, <2>1 DEF NoFallback, HasFallback, Only404
  <2>3. <<"not found", "gemini-2.5-flash">> \in troubles'
    BY <1>5, <2>2 DEF NoFallback, Trouble
  <2> QED BY <2>1, <2>3 DEF LostWithIt
<1>6. ASSUME Busy \/ NetworkFails \/ Refused PROVE FALSE
  <2>1. PICK kind \in {"busy", "network", "refused"} : Trouble(kind)
    BY <1>6 DEF Busy, NetworkFails, Refused
  <2> QED BY <2>1, Only404Before
<1>7. CASE Wait \/ UNCHANGED allVars
  BY <1>1, <1>7 DEF Wait, allVars
<1> QED
  BY LiveCases, <1>2, <1>3, <1>4, <1>5, <1>6, <1>7

(* With more than one attempt, a Gemini request that met nothing but 404s  *)
(* is lost only when the fallback, gemini-2.5-flash, was asked and is      *)
(* missing as well.  (With one attempt it goes to the model configured,    *)
(* and its 404 makes the answer None.)                                     *)
THEOREM LostWithTheFallback ==
  ASSUME MaxAttempts \in Nat \ {0, 1}
  PROVE  LiveSpec => []LostOnlyWithFallback
<1>1. LiveInit => FallbackInv
  BY DEF LiveInit, FallbackInv, NotLost
<1>2. FallbackInv /\ [LiveNext]_allVars => FallbackInv'
  BY FallbackStep
<1>3. FallbackInv => LostOnlyWithFallback
  BY DEF FallbackInv, LostOnlyWithFallback, Only404, NotLost, LostWithIt
<1> QED BY <1>1, <1>2, <1>3, PTL DEF LiveSpec
============================================================================
