---------------------------- MODULE ModelGateway ----------------------------
(***************************************************************************)
(* The model gateway (src/ai-ml/src/autoflow_ai/model_gateway/): a router  *)
(* asks the registered models one after the other, the best first, retries *)
(* each a bounded number of times, and counts the failures of each         *)
(* provider in a row to put an unhealthy one behind the others.  What a    *)
(* caller makes of the answer is the last step of a request.               *)
(*                                                                         *)
(* A reply is what comes back over the connection: "json" holds an object, *)
(* "prose" only text, "empty" the empty text, "null" no text at all; a     *)
(* stream that "breaks" raises an error nobody turns into a ProviderError. *)
(***************************************************************************)
EXTENDS Naturals, FiniteSets

CONSTANTS
  Models,       \* every model the environment can configure
  Local,        \* the rule engine, always registered
  Provider,     \* model -> name of its provider: health is kept by name
  Priority,     \* model -> routing priority
  MaxAttempts,  \* attempts per model, max_retries + 1
  MaxModels,    \* models tried in one request
  MaxRequests   \* bound of the model: requests to one router

\* One request may try every model there can be.
ASSUME GatewayAssumption ==
  /\ Local \in Models /\ IsFiniteSet(Models) /\ Cardinality(Models) <= MaxModels
  /\ Priority \in [Models -> Nat]
  /\ MaxAttempts \in Nat \ {0} /\ MaxModels \in Nat \ {0} /\ MaxRequests \in Nat

VARIABLES
  registered,  \* models of the registry
  streaming,   \* those that answer by a stream only
  failures,    \* provider -> failures in a row, as far as health looks: 0..3
  call,        \* the request at work
  exhausted,   \* models whose attempts have all failed in this request
  sunk,        \* models whose provider was unhealthy when the request came
  requests     \* requests so far

gatewayVars == <<registered, streaming, failures, call, exhausted, sunk, requests>>

Unhealthy    == 3
RequestKinds ==  {"text", "structured"}
Idle         == [step |-> "idle", kind |-> "text", model |-> Local, left |-> {}, attempt |-> 1, reply |-> "none"]

\* A remote model is configured by the environment or it is not, to answer by
\* a stream or in one message.
Configured == SUBSET (Models \ {Local})

GatewayInit ==
  /\ \E remote \in Configured :
       /\ registered = remote \cup {Local}
       /\ streaming \in SUBSET remote
  /\ failures = [p \in {Provider[m] : m \in Models} |-> 0]
  /\ call = Idle /\ exhausted = {} /\ sunk = {} /\ requests = 0

Healthy(m) == failures[Provider[m]] < Unhealthy

\* Seeded fault: a smaller number is taken for the more urgent one.
GoesBeforeByRank(m, n, behind) ==
  IF m \in behind <=> n \in behind THEN Priority[m] < Priority[n] ELSE n \in behind

\* The models of unhealthy providers go behind the others.
GoesBefore(m, n, behind) ==
  IF m \in behind <=> n \in behind THEN Priority[m] > Priority[n] ELSE n \in behind

\* The first of the models, by the health they had when the request came; any of
\* several alike, since the model does not know the order of their names.
Eligible(models, behind) == {m \in models : \A n \in models : ~GoesBefore(n, m, behind)}

Ask ==
  /\ call.step = "idle" /\ requests < MaxRequests
  /\ sunk' = {m \in registered : ~Healthy(m)}
  /\ \E kind \in RequestKinds, first \in Eligible(registered, sunk') :
       call' = [Idle EXCEPT !.step = "trying", !.kind = kind, !.model = first, !.left = registered]
  /\ exhausted' = {}
  /\ requests' = requests + 1
  /\ UNCHANGED <<registered, streaming, failures>>

\* The rule engine acknowledges every request with an object and no text.
LocalReplies  == {"json"}
RemoteReplies ==
  {"json", "prose", "empty", "null", "malformed", "refused", "timeout", "auth", "broken"}

Replies(m) == IF m = Local THEN LocalReplies ELSE RemoteReplies

\* A structured answer needs an object in the text; a stream without any
\* content is an error, a message with an empty one is not.
Accepted(m) ==
  CASE call.kind = "structured" -> {"json"}
    [] m \in streaming          -> {"json", "prose"}
    [] OTHER                    -> {"json", "prose", "empty"}

\* Errors that are no ProviderError end the request.
Escapes(m) == {"broken"} \cup (IF call.kind = "text" /\ m \notin streaming THEN {"null"} ELSE {})

Answer(m, reply) ==
  /\ reply \in Accepted(m)
  /\ call' = [call EXCEPT !.step = "answered", !.reply = reply]
  /\ failures' = [failures EXCEPT ![Provider[m]] = 0]
  /\ UNCHANGED exhausted

Escape(m, reply) ==
  /\ reply \in Escapes(m)
  /\ call' = [call EXCEPT !.step = "raised"]
  /\ UNCHANGED <<failures, exhausted>>

\* Only the credentials make another attempt pointless.
Retryable(reply) == reply # "auth"

RecordFailure(m) ==
  failures' = [failures EXCEPT ![Provider[m]] = IF @ < Unhealthy THEN @ + 1 ELSE @]

Retry(m, reply) ==
  /\ reply \notin Accepted(m) \cup Escapes(m)
  /\ Retryable(reply) /\ call.attempt < MaxAttempts
  /\ RecordFailure(m)
  /\ call' = [call EXCEPT !.attempt = @ + 1]
  /\ UNCHANGED exhausted

Rest == call.left \ {call.model}

\* Of the models that were registered, so many are tried.
Enough(rest) == rest = {} \/ Cardinality(registered \ rest) >= MaxModels

FallBack(m, reply) ==
  /\ reply \notin Accepted(m) \cup Escapes(m)
  /\ ~(Retryable(reply) /\ call.attempt < MaxAttempts)
  /\ RecordFailure(m)
  /\ exhausted' = exhausted \cup {m}
  /\ IF Enough(Rest)
       THEN call' = [call EXCEPT !.step = "failed"]
       ELSE \E next \in Eligible(Rest, sunk) :
              call' = [call EXCEPT !.model = next, !.left = Rest, !.attempt = 1]

Attempt ==
  /\ call.step = "trying"
  /\ LET m == call.model IN
     \E reply \in Replies(m) :
        Answer(m, reply) \/ Escape(m, reply) \/ Retry(m, reply) \/ FallBack(m, reply)
  /\ UNCHANGED <<registered, streaming, sunk, requests>>

\* The model's text or decision is used when it has one that is valid; else,
\* and on any error, the deterministic one.  The rule engine never has one.
Use ==
  /\ call.step \in {"answered", "failed", "raised"}
  /\ LET m == call.model IN
     \/ /\ call.step = "answered" /\ m # Local /\ call.reply # "empty"
        /\ call' = [call EXCEPT !.step = "model"]
     \/ /\ call.step = "answered" /\ m # Local /\ call.kind = "text" => call.reply = "empty"
        /\ call' = [call EXCEPT !.step = "deterministic"]
  /\ UNCHANGED <<registered, streaming, failures, exhausted, sunk, requests>>

Return ==
  /\ call.step \in {"model", "deterministic"}
  /\ call' = Idle
  /\ UNCHANGED <<registered, streaming, failures, exhausted, sunk, requests>>

GatewayRuns == Attempt \/ Use \/ Return
GatewayStep == Ask \/ GatewayRuns

-----------------------------------------------------------------------------
(* Properties                                                              *)

\* The answer is the best there was: every model that goes before the one
\* that answered has failed all its attempts in this request, or belonged to
\* a provider that was unhealthy when the request came; and a request fails
\* only when every model has (router.py:53-57, 78-99).  Health is kept by the
\* provider's name, which both real models share: three failures of the first
\* sink the second with it.
BestThatWorks ==
  /\ call.step \in {"answered", "model"} =>
       \A m \in registered : Priority[m] > Priority[call.model] => m \in exhausted \cup sunk
  /\ call.step = "failed" => exhausted = registered

=============================================================================
