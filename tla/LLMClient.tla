------------------------------ MODULE LLMClient ------------------------------
(***************************************************************************)
(* llm::LLMClient: a client that the threads of a round share.             *)
(*                                                                         *)
(* An Ollama client has one curl handle for each endpoint, whose options   *)
(* stay set from one request to the next, and a mutex around each request. *)
(* MultiEndpointOllamaClient spreads queries over several such clients.    *)
(* The cloud clients make a handle for each request and lock nothing.  All *)
(* keep the text of the last error in a plain string, from which a failed  *)
(* request takes the error it reports.                                     *)
(***************************************************************************)
EXTENDS Integers, FiniteSets

CONSTANTS
  Thread,      \* the threads that share the client
  Free,        \* a mutex nobody holds
  Providers,   \* the kinds of client a behaviour may have
  Endpoints,   \* endpoint_count_
  IntLimit,    \* one more than the greatest int: 2^31 in the build
  CallBound    \* bound on the calls of a behaviour

ASSUME LLMClientAssumption ==
  /\ Free \notin Thread
  /\ Providers \subseteq {"ollama", "claude", "google-agy"}
  /\ Endpoints \in Nat \ {0} /\ IntLimit \in Nat \ {0} /\ CallBound \in Nat

VARIABLES
  provider,
  query_count_,   \* MultiEndpointOllamaClient::query_count_
  mutex,          \* the holder of each endpoint's mutex_
  handle,         \* what each endpoint's curl handle is set to
  pc,             \* where each thread is
  call,           \* the call it is in
  last_error_,    \* the string of each endpoint, or of the cloud client
  told,           \* the error the last call that returned came back with
  calls,          \* the number of calls so far
  served,         \* history: the queries each endpoint was selected for
  rejected        \* history: the queries for which none was

vars == <<provider, query_count_, mutex, handle, pc, call, last_error_, told,
          calls, served, rejected>>

Endpoint == 0 .. Endpoints - 1

Operation == {"query", "stream", "models", "available", "info"}

\* An Ollama client asks for a query and a stream any endpoint, for the rest
\* the primary one; a cloud client makes no request for the rest.
Query == {"query", "stream"}

\* The methods whose request has a body, which make_request gets as payload.
Posts == Query \cup {"info"}

\* The paths of the requests.
Path(method) == CASE method \in Query -> "/api/chat"
                  [] method \in {"models", "available"} -> "/api/tags"
                  [] method = "info" -> "/api/show"

Paths == {Path(method) : method \in Operation}

\* A body is named by the number of the call that built it, 0 being none.
Handle == [url : Paths \cup {"unset"}, body : 0 .. CallBound]

\* A text is named by the call that failed; Torn is what a data race makes of
\* several.  It is not empty: every assignment to the string stores one
\* length, which no error's text has as 0.
NoText == [by |-> "none", call |-> 0]
Torn == [by |-> "race", call |-> 0]
Text == [by : Paths, call : 1 .. CallBound] \cup {NoText, Torn}

\* The locals of a thread that is in no call.
NoCall == [method |-> "none", number |-> 0, endpoint |-> 0, text |-> NoText]

TypeOK ==
  /\ provider \in Providers
  /\ query_count_ \in -IntLimit .. IntLimit - 1
  /\ mutex \in [Endpoint -> Thread \cup {Free}]
  /\ handle \in [Endpoint -> Handle]
  /\ pc \in [Thread -> {"idle", "lock", "perform", "throw", "catch", "copy",
                        "callback", "aborted"}]
  /\ call \in [Thread -> [method : Operation \cup {"none"}, number : 0 .. CallBound,
                          endpoint : Endpoint, text : Text]]
  /\ last_error_ \in [Endpoint -> Text]
  /\ told \in Text
  /\ calls \in 0 .. CallBound
  /\ served \in [Endpoint -> Nat]
  /\ rejected \in Nat

Init ==
  /\ provider \in Providers
  /\ query_count_ = 0
  /\ mutex = [e \in Endpoint |-> Free]
  /\ handle = [e \in Endpoint |-> [url |-> "unset", body |-> 0]]
  /\ pc = [t \in Thread |-> "idle"]
  /\ call = [t \in Thread |-> NoCall]
  /\ last_error_ = [e \in Endpoint |-> NoText]
  /\ told = NoText
  /\ calls = 0
  /\ served = [e \in Endpoint |-> 0]
  /\ rejected = 0

-----------------------------------------------------------------------------

At(t) == call[t].endpoint

Goto(t, state) == pc' = [pc EXCEPT ![t] = state]

Enter(t, method, e) ==
  /\ pc[t] = "idle" /\ calls < CallBound
  /\ calls' = calls + 1
  /\ call' = [call EXCEPT ![t] = [method |-> method, number |-> calls + 1,
                                 endpoint |-> e, text |-> NoText]]

Return(t, text) ==
  /\ Goto(t, "idle")
  /\ call' = [call EXCEPT ![t] = NoCall]
  /\ told' = text

\* The remainder of C++ has the sign of the dividend.
Remainder(a, n) == IF a >= 0 THEN a % n ELSE -((-a) % n)

\* An atomic int wraps around.
Incremented(n) == IF n = IntLimit - 1 THEN -IntLimit ELSE n + 1

\* select_endpoint: one atomic step, whose result may be negative.
Selected == Remainder(query_count_, Endpoints)

\* Mutant: the index that was selected is not tested.
SendUntested(t) ==
  /\ provider = "ollama"
  /\ query_count_' = Incremented(query_count_)
  /\ \E method \in Query : Enter(t, method, Selected)
  /\ Goto(t, "lock")
  /\ served' = [served EXCEPT ![Selected] = @ + 1]
  /\ UNCHANGED <<provider, mutex, handle, last_error_, told, rejected>>

\* Mutant: a stream does not move the round-robin on.
StreamInPlace(t) ==
  /\ provider = "ollama"
  /\ Selected \in Endpoint
  /\ \E method \in Query :
       /\ Enter(t, method, Selected)
       /\ query_count_' = IF method = "stream" THEN query_count_
                                             ELSE Incremented(query_count_)
  /\ Goto(t, "lock")
  /\ served' = [served EXCEPT ![Selected] = @ + 1]
  /\ UNCHANGED <<provider, mutex, handle, last_error_, told, rejected>>

\* MultiEndpointOllamaClient's query and query_streaming.
Send(t) ==
  /\ provider = "ollama"
  /\ query_count_' = Incremented(query_count_)
  /\ Selected \in Endpoint
  /\ \E method \in Query : Enter(t, method, Selected)
  /\ Goto(t, "lock")
  /\ served' = [served EXCEPT ![Selected] = @ + 1]
  /\ UNCHANGED <<provider, mutex, handle, last_error_, told, rejected>>

\* "Invalid endpoint selection": the query comes back with an error.
Reject(t) ==
  /\ provider = "ollama"
  /\ pc[t] = "idle" /\ calls < CallBound
  /\ Selected \notin Endpoint
  /\ query_count_' = Incremented(query_count_)
  /\ calls' = calls + 1
  /\ rejected' = rejected + 1
  /\ UNCHANGED <<provider, mutex, handle, pc, call, last_error_, told, served>>

AskPrimary(t) ==
  /\ provider = "ollama"
  /\ \E method \in Operation \ Query : Enter(t, method, 0)
  /\ Goto(t, "lock")
  /\ UNCHANGED <<provider, query_count_, mutex, handle, last_error_, told,
                 served, rejected>>

\* A cloud client sets up a handle of its own, which nobody else sees.  Its
\* is_available looks only whether it has a key and a model; whether it has is
\* left open, also from call to call.
SendToCloud(t, cloud) ==
  /\ provider = cloud
  /\ \E method \in Query \cup {"available"} : Enter(t, method, 0)
  /\ Goto(t, "perform")
  /\ UNCHANGED <<provider, query_count_, mutex, handle, last_error_, told,
                 served, rejected>>

QueryClaude(t) == SendToCloud(t, "claude")

QueryGoogle(t) == SendToCloud(t, "google-agy")

\* The models are a list in the program, or the one that is configured.
AnswerFromList(t, cloud) ==
  /\ provider = cloud
  /\ pc[t] = "idle" /\ calls < CallBound
  /\ calls' = calls + 1
  /\ told' = NoText
  /\ UNCHANGED <<provider, query_count_, mutex, handle, pc, call, last_error_,
                 served, rejected>>

ListClaude(t) == AnswerFromList(t, "claude")

ListGoogle(t) == AnswerFromList(t, "google-agy")

-----------------------------------------------------------------------------
(* make_request *)

\* Mutant: requests are made without the mutex.
LockNothing(t) ==
  /\ pc[t] = "lock"
  /\ handle' = [handle EXCEPT ![At(t)] =
       [url |-> Path(call[t].method),
        body |-> IF call[t].method \in Posts THEN call[t].number ELSE @.body]]
  /\ Goto(t, "perform")
  /\ UNCHANGED <<provider, query_count_, mutex, call, last_error_, told, calls,
                 served, rejected>>

\* The mutex is taken and the handle's options are set.  A request without
\* a body leaves the option of the last one as it is.
Lock(t) ==
  /\ pc[t] = "lock" /\ mutex[At(t)] = Free
  /\ mutex' = [mutex EXCEPT ![At(t)] = t]
  /\ handle' = [handle EXCEPT ![At(t)] =
       [url |-> Path(call[t].method),
        body |-> IF call[t].method \in Posts THEN call[t].number ELSE @.body]]
  /\ Goto(t, "perform")
  /\ UNCHANGED <<provider, query_count_, call, last_error_, told, calls, served,
                 rejected>>

Unlocked(t) == [mutex EXCEPT ![At(t)] = IF @ = t THEN Free ELSE @]

Streams(t) == provider # "ollama" /\ call[t].method = "stream"

\* Ollama's query_streaming does what query does.
Succeed(t) ==
  /\ pc[t] = "perform" /\ ~Streams(t)
  /\ mutex' = Unlocked(t)
  /\ Return(t, NoText)
  /\ UNCHANGED <<provider, query_count_, handle, last_error_, calls, served,
                 rejected>>

\* A cloud client's query_streaming calls query, and with its answer the
\* callback.
SucceedStream(t) ==
  /\ pc[t] = "perform" /\ Streams(t)
  /\ Goto(t, "callback")
  /\ UNCHANGED <<provider, query_count_, mutex, handle, call, last_error_, told,
                 calls, served, rejected>>

Callback(t) ==
  /\ pc[t] = "callback"
  /\ Return(t, NoText)
  /\ UNCHANGED <<provider, query_count_, mutex, handle, last_error_, calls,
                 served, rejected>>

-----------------------------------------------------------------------------
(* Errors and timeouts.  The only writes of last_error_ without a mutex are *)
(* those at "catch": what is written or copied meanwhile may come out torn. *)

Own(t) == [by |-> Path(call[t].method), call |-> call[t].number]

Racing(t) == \E u \in Thread \ {t} : pc[u] = "catch" /\ At(u) = At(t)

Write(t, text) ==
  \E written \in {text} \cup (IF Racing(t) \/ last_error_[At(t)] = Torn
                                THEN {Torn} ELSE {}) :
    last_error_' = [last_error_ EXCEPT ![At(t)] = written]

Copied(t) == {last_error_[At(t)]} \cup (IF Racing(t) THEN {Torn} ELSE {})

\* Mutant: the error is thrown with the text of the last one.
FailUnwritten(t) ==
  /\ provider = "ollama" /\ pc[t] = "perform"
  /\ Goto(t, "throw")
  /\ UNCHANGED <<provider, query_count_, mutex, handle, call, last_error_, told,
                 calls, served, rejected>>

\* Ollama's make_request writes the string while it holds the mutex.
Fail(t) ==
  /\ provider = "ollama" /\ pc[t] = "perform"
  /\ Write(t, Own(t))
  /\ Goto(t, "throw")
  /\ UNCHANGED <<provider, query_count_, mutex, handle, call, told, calls, served,
                 rejected>>

\* Mutant: the mutex is not released by an exception.
ThrowLocked(t) ==
  /\ pc[t] = "throw" /\ call[t].method \in {"query", "stream", "available"}
  /\ \E text \in Copied(t) : Return(t, text)
  /\ UNCHANGED <<provider, query_count_, mutex, handle, last_error_, calls,
                 served, rejected>>

\* The exception takes the string's text, and the mutex is released.
Throw(t) ==
  /\ pc[t] = "throw" /\ call[t].method \in {"query", "stream", "available"}
  /\ \E text \in Copied(t) : Return(t, text)
  /\ mutex' = Unlocked(t)
  /\ UNCHANGED <<provider, query_count_, handle, last_error_, calls, served,
                 rejected>>

\* available_models and get_model_info write the exception's text again ...
Rethrow(t) ==
  /\ pc[t] = "throw" /\ call[t].method \in {"models", "info"}
  /\ \E text \in Copied(t) : call' = [call EXCEPT ![t].text = text]
  /\ mutex' = Unlocked(t)
  /\ Goto(t, "catch")
  /\ UNCHANGED <<provider, query_count_, handle, last_error_, told, calls, served,
                 rejected>>

\* ... when the mutex has been released.
CatchOllama(t) ==
  /\ provider = "ollama" /\ pc[t] = "catch"
  /\ Write(t, call[t].text)
  /\ Return(t, call[t].text)
  /\ UNCHANGED <<provider, query_count_, mutex, handle, calls, served, rejected>>

FailCloud(t) ==
  /\ provider # "ollama" /\ pc[t] = "perform"
  /\ call' = [call EXCEPT ![t].text = Own(t)]
  /\ Goto(t, "catch")
  /\ UNCHANGED <<provider, query_count_, mutex, handle, last_error_, told, calls,
                 served, rejected>>

\* Mutant: a failed stream goes on to the callback.
CatchAndCall(t) ==
  /\ provider # "ollama" /\ pc[t] = "catch" /\ call[t].method \in Query
  /\ Write(t, call[t].text)
  /\ Goto(t, IF Streams(t) THEN "callback" ELSE "copy")
  /\ UNCHANGED <<provider, query_count_, mutex, handle, call, told, calls, served,
                 rejected>>

\* A cloud client's is_available says what is missing in the string only, and
\* returns false.
CatchUnavailable(t) ==
  /\ provider # "ollama" /\ pc[t] = "catch" /\ call[t].method \notin Query
  /\ Write(t, call[t].text)
  /\ Return(t, call[t].text)
  /\ UNCHANGED <<provider, query_count_, mutex, handle, calls, served, rejected>>

\* A cloud client's query writes the string and then returns a copy of it.
CatchCloud(t) ==
  /\ provider # "ollama" /\ pc[t] = "catch" /\ call[t].method \in Query
  /\ Write(t, call[t].text)
  /\ Goto(t, "copy")
  /\ UNCHANGED <<provider, query_count_, mutex, handle, call, told, calls, served,
                 rejected>>

Copy(t) ==
  /\ pc[t] = "copy"
  /\ \E text \in Copied(t) : Return(t, text)
  /\ UNCHANGED <<provider, query_count_, mutex, handle, last_error_, calls,
                 served, rejected>>

\* A race on the string can also end the program.
Abort(t) ==
  /\ pc[t] \in {"catch", "copy", "throw"} /\ Racing(t)
  /\ pc' = [u \in Thread |-> "aborted"]
  /\ UNCHANGED <<provider, query_count_, mutex, handle, call, last_error_, told,
                 calls, served, rejected>>

-----------------------------------------------------------------------------

Call(t) ==
  \/ Send(t) \/ Reject(t) \/ AskPrimary(t)
  \/ QueryClaude(t) \/ QueryGoogle(t) \/ ListClaude(t) \/ ListGoogle(t)

Continue(t) ==
  \/ Lock(t) \/ Succeed(t) \/ SucceedStream(t) \/ Callback(t)
  \/ Fail(t) \/ Throw(t) \/ Rethrow(t) \/ CatchOllama(t)
  \/ FailCloud(t) \/ CatchUnavailable(t) \/ CatchCloud(t) \/ Copy(t)

Next == \E t \in Thread : Call(t) \/ Continue(t) \/ Abort(t)

Spec == Init /\ [][Next]_vars

\* Every request ends, with an answer or by its timeout, and a thread that
\* waits for a mutex gets it in the end, however many others want it.
Fairness ==
  \A t \in Thread : WF_vars(Continue(t)) /\ SF_vars(Lock(t))

FairSpec == Spec /\ Fairness

-----------------------------------------------------------------------------
(* Properties. *)

\* An Ollama request is made with the address and the body of the call that
\* makes it, whatever the threads that share the handle have set before.
OwnRequest ==
  provider = "ollama" =>
    \A t \in Thread : pc[t] = "perform" =>
      /\ handle[At(t)].url = Path(call[t].method)
      /\ call[t].method \in Posts => handle[At(t)].body = call[t].number

\* MultiEndpointOllamaClient.h:86 "This distributes queries evenly across all
\* configured endpoints": until the counter overflows no endpoint is behind
\* by more than one query, and no query is refused.  None goes anywhere else,
\* also afterwards.
EvenLoad ==
  /\ \A t \in Thread : At(t) \in Endpoint
  /\ query_count_ >= 0 /\ calls < 2 * IntLimit =>
       /\ rejected = 0
       /\ \A e, f \in Endpoint : served[e] <= served[f] + 1

\* The request succeeded, and a cloud client's stream has called back.
HasAnswer(t) ==
  /\ pc[t] = (IF Streams(t) THEN "callback" ELSE "perform")
  /\ call[t].text = NoText

\* Analyst::execute_round takes an answer without an error for a success.  A
\* call comes back without one exactly when its request succeeded, a cloud
\* client's stream has then called its callback, and a failed Ollama query
\* reports its own error, however many fail at once, unless available_models
\* or get_model_info wrote theirs over it.  For is_available, false is what a
\* failure comes back with.
ErrorsTold ==
  [][\A t \in Thread : pc[t] # "idle" /\ pc'[t] = "idle" =>
       /\ told' = NoText <=> HasAnswer(t)
       /\ provider = "ollama" /\ ~HasAnswer(t) =>
            told' = Own(t) \/ told'.by \in {"race", "/api/tags", "/api/show"}]_vars

\* Each call returns, also when requests fail, if no race ends the program.
CallEnds == \A t \in Thread : pc[t] # "idle" ~> pc[t] \in {"idle", "aborted"}
=============================================================================
