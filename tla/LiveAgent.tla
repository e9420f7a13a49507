----------------------------- MODULE LiveAgent -----------------------------
(***************************************************************************)
(* agent/live_agent.py: a language model in a loop.  Each turn asks the    *)
(* model, with a few retries, runs the tool calls it answers with through  *)
(* MCPServerStdio.handle_request, and feeds the results back.              *)
(*                                                                         *)
(* The tools are the actions of Episode, whose variables this module acts  *)
(* on; that an agent does nothing else to an episode is one of the things  *)
(* to check.  What the model answers is open: how many calls, and, when    *)
(* each is dispatched, which tool with which arguments.                    *)
(***************************************************************************)
EXTENDS Episode

CONSTANTS
  MaxTurns,     \* max_turns (12 in the code)
  MaxAttempts,  \* max_retries of _call_llm_api (3 in the code)
  MaxPerTurn    \* bound on the tool calls of one answer

ASSUME LiveAssumption ==
  /\ MaxTurns \in Nat \ {0} /\ MaxAttempts \in Nat \ {0} /\ MaxPerTurn \in Nat

ASSUME TrailIsLongEnough == MaxCalls > MaxTurns * MaxPerTurn

VARIABLES
  provider,      \* which API is called
  pc,            \* where solve_incident is
  turn,          \* turn
  attempt,       \* attempt
  model,         \* self.model: the configured one or a fallback
  current_model, \* current_model
  left,          \* tool calls of this answer not yet dispatched
  messages,      \* per answer: tool calls asked for, results fed back
  troubles       \* history: how the attempts of this request failed, and
                 \* which model each of them asked

api == <<attempt, model, current_model, troubles>>
talk == <<turn, left, messages>>
agentVars == <<provider, pc, talk, api>>
allVars == <<vars, agentVars>>

Providers == {"openai", "gemini", "anthropic"}
Models == {"configured", "gemini-2.5-flash", "gemini-flash-latest"}

(* An answer of the model: the calls it asked for, the results so far.     *)
Answers == [asked : 0..MaxPerTurn, answered : 0..MaxPerTurn]

(* Ways for an attempt to fail, apart from what it asked.                  *)
Kinds == {"not found", "busy", "network", "refused"}

(* Orderly ends: the report is in, no tool call, no turn left.  Others: an *)
(* error raised by the API call, None for an answer, an answer or a call   *)
(* in it that does not have the form the loop reads.                       *)
Ends == {"reported", "quiet", "exhausted", "raised", "crashed", "malformed"}

(* One agent object plays a whole suite, so it may begin an episode on the *)
(* fallback an earlier one ended with.                                     *)
LiveInit ==
  /\ Init
  /\ provider \in Providers
  /\ pc = "alert"
  /\ turn = 0 /\ attempt = 0 /\ left = 0
  /\ model \in IF provider = "gemini" THEN Models ELSE {"configured"}
  /\ current_model = model
  /\ messages = <<>>
  /\ troubles = {}

Bounded == Len(call_history) < MaxCalls

(* solve_incident begins with get_incident_alert.                          *)
IngestAlert ==
  /\ pc = "alert"
  /\ Bounded
  /\ Diagnose
  /\ pc' = "request"
  /\ UNCHANGED <<provider, talk, api>>

----------------------------------------------------------------------------
(* _call_llm_api and _call_anthropic_api: one attempt, and how it ends.    *)

(* An answer: the model that gave it becomes self.model.                   *)
Reply(n) ==
  /\ pc = "request"
  /\ messages' = Append(messages, [asked |-> n, answered |-> 0])
  /\ left' = n
  /\ pc' = IF n = 0 THEN "quiet" ELSE "dispatch"
  /\ attempt' = 0
  /\ model' = current_model
  /\ troubles' = {}
  /\ UNCHANGED <<provider, turn, current_model, vars>>

(* No choices: passed off as an answer without calls, self.model is kept.  *)
EmptyChoices ==
  /\ pc = "request"
  /\ provider # "anthropic"
  /\ messages' = Append(messages, [asked |-> 0, answered |-> 0])
  /\ pc' = "quiet"
  /\ attempt' = 0
  /\ current_model' = model
  /\ troubles' = {}
  /\ UNCHANGED <<provider, turn, left, model, vars>>

(* An answer whose message, or whose blocks, are not there to be read.     *)
MalformedAnswer ==
  /\ pc = "request"
  /\ pc' = "malformed"
  /\ attempt' = 0
  /\ model' = current_model
  /\ troubles' = {}
  /\ UNCHANGED <<provider, talk, current_model, vars>>

(* An off-by-one in the number of attempts.                                *)
Again_Fault(m) ==
  IF attempt < MaxAttempts
  THEN /\ attempt' = attempt + 1
       /\ current_model' = m
       /\ UNCHANGED <<pc, model>>
  ELSE /\ pc' = "crashed"
       /\ UNCHANGED <<attempt, model, current_model>>

(* The next attempt, or None when there is none left: "continue" in the    *)
(* last turn of the for loop.                                              *)
Again(m) ==
  IF attempt + 1 < MaxAttempts
  THEN /\ attempt' = attempt + 1
       /\ current_model' = m
       /\ UNCHANGED <<pc, model>>
  ELSE /\ pc' = "crashed"
       /\ UNCHANGED <<attempt, model, current_model>>

Raise ==
  /\ pc' = "raised"
  /\ UNCHANGED <<attempt, model, current_model>>

Trouble(kind) ==
  /\ pc = "request"
  /\ troubles' = troubles \cup {<<kind, current_model>>}
  /\ UNCHANGED <<provider, talk, vars>>

HasFallback == provider = "gemini" /\ current_model # "gemini-2.5-flash"

(* A fallback to the very model that was not found.                        *)
NotFound_Fault ==
  /\ Trouble("not found")
  /\ HasFallback
  /\ Again(current_model)

(* 404 for a Gemini model, whatever the attempt.                           *)
NotFound ==
  /\ Trouble("not found")
  /\ HasFallback
  /\ Again("gemini-2.5-flash")

(* 404 for the fallback itself, or for a model of another provider.        *)
NoFallback ==
  /\ Trouble("not found")
  /\ ~HasFallback
  /\ Raise

(* The alternate model given a fresh count of attempts.                    *)
Busy_Fault ==
  /\ Trouble("busy")
  /\ provider # "anthropic"
  /\ attempt < MaxAttempts - 1
  /\ IF provider = "gemini" /\ attempt >= 1
     THEN /\ attempt' = 0
          /\ current_model' = "gemini-flash-latest"
          /\ UNCHANGED <<pc, model>>
     ELSE Again(current_model)

(* 429 or 503, and an attempt left.                                        *)
Busy ==
  /\ Trouble("busy")
  /\ provider # "anthropic"
  /\ attempt < MaxAttempts - 1
  /\ Again(IF provider = "gemini" /\ attempt >= 1 THEN "gemini-flash-latest"
           ELSE current_model)

(* No connection, no answer in time, an answer that is no JSON.            *)
NetworkFails ==
  /\ Trouble("network")
  /\ IF provider # "anthropic" /\ attempt < MaxAttempts - 1
     THEN Again(current_model)
     ELSE Raise

(* No API key, any HTTP error not named above, or an answer or error body  *)
(* that cannot be read.                                                    *)
Refused ==
  /\ Trouble("refused")
  /\ Raise

----------------------------------------------------------------------------
(* handle_request of a tool that does not exist, lacks an argument or      *)
(* raises: an error text, nothing else.  The first form counts the call.   *)
InvalidCall_Fault ==
  \E s \in Services : record_call("restart_service", s)
     /\ UNCHANGED <<clock, service_restarts, remediation_applied, artifacts>>

InvalidCall == UNCHANGED vars

ToolCall == Bounded /\ (Diagnose \/ Mutate \/ Report)

(* Calls that fail are passed over, without a result for the model.        *)
Dispatch_Fault ==
  /\ pc = "dispatch"
  /\ left > 0
  /\ left' = left - 1
  /\ \/ ToolCall /\ messages' = [messages EXCEPT ![Len(messages)].answered = @ + 1]
     \/ InvalidCall /\ UNCHANGED messages
  /\ UNCHANGED <<provider, pc, turn, api>>

(* A call without a function to look into: raised before it is dispatched, *)
(* the calls before it done and the ones after it not.                     *)
MalformedCall ==
  /\ pc = "dispatch"
  /\ left > 0
  /\ pc' = "malformed"
  /\ UNCHANGED <<provider, talk, api, vars>>

(* One tool call: its result, or its error text, goes into the messages.   *)
Dispatch ==
  /\ pc = "dispatch"
  /\ left > 0
  /\ left' = left - 1
  /\ ToolCall \/ InvalidCall
  /\ messages' = [messages EXCEPT ![Len(messages)].answered = @ + 1]
  /\ UNCHANGED <<provider, pc, turn, api>>

Reported == structured_rca # None /\ post_mortem # None

(* After the last call of an answer: is the report in, is a turn left?     *)
EndTurn ==
  /\ pc = "dispatch"
  /\ left = 0
  /\ IF Reported \/ turn + 1 = MaxTurns
     THEN /\ pc' = IF Reported THEN "reported" ELSE "exhausted"
          /\ UNCHANGED <<turn, current_model>>
     ELSE /\ pc' = "request"
          /\ turn' = turn + 1
          /\ current_model' = model
  /\ UNCHANGED <<provider, left, messages, attempt, model, troubles, vars>>

Wait ==
  /\ pc \notin Ends
  /\ TimePasses
  /\ UNCHANGED agentVars

----------------------------------------------------------------------------
Ask ==
  \/ \E n \in 0..MaxPerTurn : Reply(n)
  \/ EmptyChoices \/ MalformedAnswer
  \/ NotFound \/ NoFallback \/ Busy \/ NetworkFails \/ Refused

SolveIncident == IngestAlert \/ Ask \/ Dispatch \/ MalformedCall \/ EndTurn

LiveNext == SolveIncident \/ Wait

(* Every request is answered, fails or times out (60 s), and every tool    *)
(* returns: the loop takes its steps.                                      *)
LiveSpec == LiveInit /\ [][LiveNext]_allVars /\ WF_allVars(SolveIncident)

----------------------------------------------------------------------------
(* Every variable keeps its type; no attempt goes past max_retries, no     *)
(* turn past max_turns.                                                    *)
LiveTypeOK ==
  /\ provider \in Providers
  /\ pc \in {"alert", "request", "dispatch"} \cup Ends
  /\ turn \in 0..(MaxTurns - 1)
  /\ attempt \in 0..(MaxAttempts - 1)
  /\ {model, current_model} \subseteq Models
  /\ left \in 0..MaxPerTurn
  /\ messages \in Seq(Answers)
  /\ Len(messages) <= turn + 1
  /\ troubles \subseteq Kinds \X Models

(* The APIs reject a conversation with an unanswered tool call: whenever   *)
(* the model is asked, every call of every earlier answer has its result,  *)
(* also the calls that failed.  And the loop leaves no call half done when *)
(* it concludes: those that follow a report in the same answer are carried *)
(* out before the talk ends with it.                                       *)
ConversationIsComplete ==
  pc \in {"request", "reported", "quiet", "exhausted"} =>
    \A i \in 1..Len(messages) : messages[i].answered = messages[i].asked

(* 404s alone cost a Gemini request an attempt, not the episode: if every  *)
(* attempt of a request met one and the episode is lost all the same, then *)
(* gemini-2.5-flash, the model to fall back to, was among those asked, and *)
(* the error was raised for it, not an answer of None used.                *)
LostOnlyWithFallback ==
  /\ provider = "gemini"
  /\ pc \in {"raised", "crashed"}
  /\ \A t \in troubles : t[1] = "not found"
  => pc = "raised" /\ <<"not found", "gemini-2.5-flash">> \in troubles

(* Whatever the model answers and however the API fails, the episode ends. *)
EpisodeEnds == <>(pc \in Ends)

(* The loop does nothing to an episode but call tools: each run of a live  *)
(* agent is a run of Episode, so what Episode promises holds for it.       *)
EpisodeIsRespected == Spec

(* "If a Gemini model name returns 404 (...), fall back to active          *)
(* gemini-2.5-flash" (live_agent.py:335): a model that is not found is     *)
(* followed by a request to the fallback.  The code does not keep this: on *)
(* the last attempt "continue" leaves the loop, _call_llm_api returns      *)
(* None, and solve_incident fails on it.                                   *)
FallbackIsAsked ==
  [][NotFound => pc' = "request" /\ current_model' = "gemini-2.5-flash"]_allVars
============================================================================
