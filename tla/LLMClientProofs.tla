--------------------------- MODULE LLMClientProofs ---------------------------
(***************************************************************************)
(* Proofs about LLMClient, for any number of threads, endpoints and calls. *)
(***************************************************************************)
EXTENDS LLMClient, TLAPS

USE LLMClientAssumption DEF LLMClientAssumption

\* The states of a thread that is in a method, for each kind of client.
Places ==
  \A t \in Thread :
    /\ pc[t] \in {"lock", "throw"} => provider = "ollama"
    /\ pc[t] = "copy" => provider # "ollama"
    /\ pc[t] = "callback" => Streams(t)
    /\ pc[t] = "catch" /\ provider = "ollama" => call[t].method \in {"models", "info"}
    /\ pc[t] \in {"lock", "perform", "throw", "catch", "copy", "callback"} =>
         call[t].method \in Operation /\ call[t].number \in 1 .. CallBound

\* The thread that uses an endpoint's handle or its last_error_ in
\* make_request has the mutex.
Excluded ==
  provider = "ollama" =>
    \A t \in Thread : pc[t] \in {"perform", "throw"} => mutex[At(t)] = t

\* What queries do not write.
Foreign == {"race", "/api/tags", "/api/show"}

\* The texts on their way to the caller: an answer has none, and what is
\* thrown or caught is the call's own or was written over it.
Texts ==
  \A t \in Thread :
    /\ pc[t] \in {"lock", "perform", "callback"} => call[t].text = NoText
    /\ pc[t] = "catch" => call[t].text # NoText
    /\ pc[t] = "catch" /\ provider = "ollama" => call[t].text.by \in Foreign
    /\ pc[t] = "throw" =>
         last_error_[At(t)] = Own(t) \/ last_error_[At(t)].by \in Foreign
    /\ pc[t] = "copy" => last_error_[At(t)] # NoText

IInv == TypeOK /\ Places /\ Excluded /\ OwnRequest /\ Texts

-----------------------------------------------------------------------------
(* Paths and texts. *)

LEMMA Endpoint0 == 0 \in Endpoint
BY DEF Endpoint

LEMMA PathOf ==
  ASSUME NEW method \in Operation
  PROVE  /\ Path(method) \in {"/api/chat", "/api/tags", "/api/show"}
         /\ method \in {"models", "info"} => Path(method) \in Foreign
BY DEF Operation, Path, Query, Foreign

\* A call's own text is one.
LEMMA OwnIsText ==
  ASSUME NEW t \in Thread, call[t].method \in Operation
  PROVE  /\ Own(t) # NoText
         /\ Own(t).by = Path(call[t].method)
         /\ call[t].number \in 1 .. CallBound => Own(t) \in Text
<1>1. /\ Own(t).by = Path(call[t].method)
      /\ NoText.by = "none"
  BY DEF Own, NoText
<1>2. Path(call[t].method) # "none"
  BY PathOf
<1>3. call[t].number \in 1 .. CallBound => Own(t) \in Text
  BY DEF Own, Text, Paths
<1> QED BY <1>1, <1>2, <1>3

LEMMA TornIsText ==
  /\ Torn # NoText /\ Torn.by \in Foreign /\ NoText.by \notin Foreign
  /\ Torn \in Text /\ NoText \in Text
<1>1. Torn.by = "race" /\ NoText.by = "none"
  BY DEF Torn, NoText
<1> QED BY <1>1 DEF Foreign, Text

\* What a write leaves, at its endpoint and elsewhere.
LEMMA Written ==
  ASSUME TypeOK, NEW t \in Thread, NEW text \in Text, Write(t, text)
  PROVE  /\ last_error_' \in [Endpoint -> Text]
         /\ last_error_'[At(t)] \in {text, Torn}
         /\ \A e \in Endpoint \ {At(t)} : last_error_'[e] = last_error_[e]
<1>1. At(t) \in Endpoint
  BY DEF TypeOK, At
<1> QED BY <1>1, TornIsText DEF TypeOK, Write

\* What a copy finds.
LEMMA Taken ==
  ASSUME NEW t \in Thread, NEW text \in Copied(t)
  PROVE  /\ text \in {last_error_[At(t)], Torn}
         /\ TypeOK => text \in Text
<1>1. text \in {last_error_[At(t)], Torn}
  BY DEF Copied
<1>2. TypeOK => At(t) \in Endpoint
  BY DEF TypeOK, At
<1> QED BY <1>1, <1>2, TornIsText DEF TypeOK

LEMMA AtEndpoint ==
  ASSUME TypeOK, NEW t \in Thread
  PROVE  At(t) \in Endpoint
BY DEF TypeOK, At

LEMMA InitIInv == Init => IInv
<1> SUFFICES ASSUME Init PROVE IInv
  OBVIOUS
<1>1. \A t \in Thread : /\ pc[t] = "idle" /\ call[t] = NoCall
                        /\ At(t) = 0
  BY DEF Init, NoCall, At
<1>2. TypeOK
  <2>1. mutex \in [Endpoint -> Thread \cup {Free}] /\ handle \in [Endpoint -> Handle]
    BY DEF Init, Handle
  <2>2. call \in [Thread -> [method : Operation \cup {"none"}, number : 0 .. CallBound,
                            endpoint : Endpoint, text : Text]]
    BY Endpoint0, TornIsText DEF Init, NoCall
  <2> QED BY <2>1, <2>2, TornIsText DEF Init, TypeOK
<1>3. Places /\ Excluded /\ OwnRequest /\ Texts
  BY <1>1 DEF Places, Excluded, OwnRequest, Texts
<1> QED BY <1>2, <1>3 DEF IInv

-----------------------------------------------------------------------------
(* One lemma for each kind of step. *)

\* A thread enters a method of an Ollama client and waits for the mutex.
LEMMA EnterIInv ==
  ASSUME IInv, NEW t \in Thread, NEW method \in Operation, NEW e \in Endpoint,
         Enter(t, method, e),
         \/ provider = "ollama" /\ Goto(t, "lock")
         \/ provider # "ollama" /\ Goto(t, "perform"),
         query_count_' \in -IntLimit .. IntLimit - 1,
         served' \in [Endpoint -> Nat],
         UNCHANGED <<provider, mutex, handle, last_error_, told, rejected>>
  PROVE  IInv'
<1>1. /\ pc[t] = "idle"
      /\ call'[t] = [method |-> method, number |-> calls + 1,
                     endpoint |-> e, text |-> NoText]
      /\ \A u \in Thread \ {t} : pc'[u] = pc[u] /\ call'[u] = call[u]
      /\ pc'[t] = IF provider = "ollama" THEN "lock" ELSE "perform"
      /\ calls' \in 1 .. CallBound /\ calls' = calls + 1
  BY DEF Enter, Goto, IInv, TypeOK
<1>2. /\ \A u \in Thread \ {t} : /\ At(u)' = At(u) /\ Own(u)' = Own(u)
                                 /\ Streams(u)' = Streams(u)
      /\ At(t)' = e /\ call'[t].method = method /\ call'[t].text = NoText
      /\ call'[t].number = calls'
  BY <1>1 DEF At, Own, Streams
<1>3. TypeOK'
  <2>1. call' \in [Thread -> [method : Operation \cup {"none"}, number : 0 .. CallBound,
                            endpoint : Endpoint, text : Text]]
    <3>1. calls + 1 \in 0 .. CallBound
      BY <1>1
    <3> QED BY <3>1, TornIsText DEF IInv, TypeOK, Enter
  <2>2. pc' \in [Thread -> {"idle", "lock", "perform", "throw", "catch", "copy",
                           "callback", "aborted"}]
    BY DEF IInv, TypeOK, Goto
  <2> QED BY <1>1, <2>1, <2>2 DEF IInv, TypeOK
<1>4. Places'
  BY <1>1, <1>2 DEF IInv, Places
<1>5. Excluded' /\ OwnRequest'
  BY <1>1, <1>2 DEF IInv, Excluded, OwnRequest
<1>6. Texts'
  BY <1>1, <1>2 DEF IInv, Texts
<1> QED BY <1>3, <1>4, <1>5, <1>6 DEF IInv

\* A thread returns, with the mutex released if it had it.
LEMMA ReturnIInv ==
  ASSUME IInv, NEW t \in Thread, NEW text \in Text, Return(t, text),
         mutex' \in {mutex, Unlocked(t)},
         last_error_' \in [Endpoint -> Text],
         \A u \in Thread \ {t} : pc[u] \in {"throw", "copy"} =>
           \/ last_error_'[At(u)] = last_error_[At(u)]
           \/ pc[u] = "throw" /\ last_error_'[At(u)].by \in Foreign
           \/ pc[u] = "copy" /\ last_error_'[At(u)] # NoText,
         UNCHANGED <<provider, query_count_, handle, calls, served, rejected>>
  PROVE  IInv'
<1>1. /\ pc'[t] = "idle" /\ call'[t] = NoCall
      /\ \A u \in Thread \ {t} : pc'[u] = pc[u] /\ call'[u] = call[u]
  BY DEF Return, Goto, IInv, TypeOK
<1>2. /\ \A u \in Thread \ {t} : /\ At(u)' = At(u) /\ Own(u)' = Own(u)
                                 /\ Streams(u)' = Streams(u)
      /\ At(t)' = 0
  BY <1>1 DEF At, Own, Streams, NoCall
<1>3. /\ mutex' \in [Endpoint -> Thread \cup {Free}]
      /\ \A e \in Endpoint : mutex[e] # t => mutex'[e] = mutex[e]
  BY DEF Unlocked, IInv, TypeOK, At
<1>4. TypeOK'
  <2>1. NoCall \in [method : Operation \cup {"none"}, number : 0 .. CallBound,
                    endpoint : Endpoint, text : Text]
    BY Endpoint0, TornIsText DEF NoCall
  <2> QED BY <1>3, <2>1 DEF Return, Goto, IInv, TypeOK
<1>5. Places'
  BY <1>1, <1>2 DEF IInv, Places
<1>6. Excluded'
  BY <1>1, <1>2, <1>3, AtEndpoint DEF IInv, Excluded
<1>7. OwnRequest'
  BY <1>1, <1>2 DEF IInv, OwnRequest
<1>8. Texts'
  BY <1>1, <1>2 DEF IInv, Texts
<1> QED BY <1>4, <1>5, <1>6, <1>7, <1>8 DEF IInv

LEMMA LockIInv ==
  ASSUME IInv, NEW t \in Thread, Lock(t)
  PROVE  IInv'
<1>0. \A u \in Thread : At(u) \in Endpoint
  BY AtEndpoint DEF IInv
<1>1. /\ pc[t] = "lock" /\ pc'[t] = "perform" /\ mutex[At(t)] = Free
      /\ \A u \in Thread \ {t} : pc'[u] = pc[u]
      /\ provider = "ollama" /\ call[t].method \in Operation
  BY DEF Lock, Goto, IInv, TypeOK, Places
<1>2. \A u \in Thread : At(u)' = At(u) /\ Own(u)' = Own(u) /\ Streams(u)' = Streams(u)
  BY DEF Lock, At, Own, Streams
<1>3. /\ mutex' \in [Endpoint -> Thread \cup {Free}]
      /\ mutex'[At(t)] = t
      /\ \A e \in Endpoint \ {At(t)} : mutex'[e] = mutex[e]
  BY <1>0 DEF Lock, IInv, TypeOK
<1>4. /\ handle'[At(t)].url = Path(call[t].method)
      /\ call[t].method \in Posts => handle'[At(t)].body = call[t].number
      /\ \A e \in Endpoint \ {At(t)} : handle'[e] = handle[e]
  BY <1>0 DEF Lock, IInv, TypeOK
<1>5. handle' \in [Endpoint -> Handle]
  <2>1. Path(call[t].method) \in Paths
    BY <1>1 DEF Paths
  <2>2. handle[At(t)].body \in 0 .. CallBound
    BY <1>0 DEF IInv, TypeOK, Handle
  <2>3. call[t].number \in 0 .. CallBound
    BY DEF IInv, TypeOK
  <2> QED BY <1>0, <2>1, <2>2, <2>3 DEF Lock, IInv, TypeOK, Handle
<1>6. TypeOK'
  BY <1>3, <1>5 DEF Lock, Goto, IInv, TypeOK
<1>7. Places'
  BY <1>1, <1>2 DEF Lock, IInv, Places
<1>8. \A u \in Thread \ {t} : pc[u] \in {"perform", "throw"} => At(u) # At(t)
  BY <1>1 DEF IInv, Excluded
<1>9. Excluded'
  BY <1>0, <1>1, <1>2, <1>3, <1>8 DEF IInv, Excluded, Lock, TypeOK
<1>10. OwnRequest'
  BY <1>0, <1>1, <1>2, <1>4, <1>8 DEF IInv, OwnRequest, Lock, TypeOK
<1>11. Texts'
  BY <1>1, <1>2 DEF Lock, IInv, Texts
<1> QED BY <1>6, <1>7, <1>9, <1>10, <1>11 DEF IInv

\* A thread goes on in its method, without a change to its call, the mutexes,
\* the handles or the texts.
LEMMA GoOnIInv ==
  ASSUME IInv, NEW t \in Thread, SucceedStream(t)
  PROVE  IInv'
<1>1. /\ pc[t] = "perform" /\ pc'[t] = "callback"
      /\ \A u \in Thread \ {t} : pc'[u] = pc[u]
      /\ provider # "ollama" /\ call[t].method \in Operation
  BY DEF SucceedStream, Streams, Goto, IInv, TypeOK, Places
<1>2. \A u \in Thread : At(u)' = At(u) /\ Own(u)' = Own(u) /\ Streams(u)' = Streams(u)
  BY DEF SucceedStream, At, Own, Streams
<1>3. TypeOK'
  BY DEF SucceedStream, Goto, IInv, TypeOK
<1>4. Places'
  BY <1>1, <1>2 DEF SucceedStream, IInv, Places
<1>5. Excluded' /\ OwnRequest'
  BY <1>1, <1>2 DEF SucceedStream, IInv, Excluded, OwnRequest
<1>6. Texts'
  BY <1>1, <1>2 DEF SucceedStream, IInv, Texts
<1> QED BY <1>3, <1>4, <1>5, <1>6 DEF IInv

\* make_request writes last_error_ while the thread has the mutex: no text of
\* another that is to be thrown is lost.
LEMMA FailIInv ==
  ASSUME IInv, NEW t \in Thread, Fail(t)
  PROVE  IInv'
<1>1. /\ pc[t] = "perform" /\ pc'[t] = "throw" /\ provider = "ollama"
      /\ \A u \in Thread \ {t} : pc'[u] = pc[u]
      /\ call[t].method \in Operation
  BY DEF Fail, Goto, IInv, TypeOK, Places
<1>2. \A u \in Thread : At(u)' = At(u) /\ Own(u)' = Own(u) /\ Streams(u)' = Streams(u)
  BY DEF Fail, At, Own, Streams
<1>3. /\ last_error_' \in [Endpoint -> Text]
      /\ last_error_'[At(t)] \in {Own(t), Torn}
      /\ \A e \in Endpoint \ {At(t)} : last_error_'[e] = last_error_[e]
  <2>1. Own(t) \in Text
    BY <1>1, OwnIsText DEF IInv, Places
  <2> QED BY <2>1, Written DEF Fail, IInv
<1>4. TypeOK'
  BY <1>3 DEF Fail, Goto, IInv, TypeOK
<1>5. Places'
  BY <1>1, <1>2 DEF Fail, IInv, Places
<1>6. Excluded' /\ OwnRequest'
  BY <1>1, <1>2 DEF Fail, IInv, Excluded, OwnRequest
<1>7. \A u \in Thread \ {t} : pc[u] \in {"perform", "throw"} => At(u) # At(t)
  BY <1>1 DEF IInv, Excluded
<1>8. Texts'
  <2> SUFFICES ASSUME NEW u \in Thread
               PROVE  /\ pc'[u] \in {"lock", "perform", "callback"} => call'[u].text = NoText
                      /\ pc'[u] = "catch" => call'[u].text # NoText
                      /\ pc'[u] = "catch" => call'[u].text.by \in Foreign
                      /\ pc'[u] = "throw" => \/ last_error_'[At(u)] = Own(u)
                                             \/ last_error_'[At(u)].by \in Foreign
                      /\ pc'[u] # "copy"
    BY <1>1, <1>2 DEF Texts, Fail
  <2>1. CASE u = t
    BY <2>1, <1>1, <1>2, <1>3, TornIsText
  <2>2. CASE u # t
    <3>1. pc[u] = "throw" => last_error_'[At(u)] = last_error_[At(u)]
      BY <2>2, <1>3, <1>7, AtEndpoint DEF IInv
    <3> QED BY <2>2, <3>1, <1>1, <1>2 DEF IInv, Texts, Places, Fail
  <2> QED BY <2>1, <2>2
<1> QED BY <1>4, <1>5, <1>6, <1>8 DEF IInv

\* The exception has the text of the string, and the mutex is released.
LEMMA RethrowIInv ==
  ASSUME IInv, NEW t \in Thread, Rethrow(t)
  PROVE  IInv'
<1>1. /\ pc[t] = "throw" /\ pc'[t] = "catch" /\ provider = "ollama"
      /\ call[t].method \in {"models", "info"}
      /\ \A u \in Thread \ {t} : pc'[u] = pc[u] /\ call'[u] = call[u]
  BY DEF Rethrow, Goto, IInv, TypeOK, Places
<1>2. PICK text \in Copied(t) : call' = [call EXCEPT ![t].text = text]
  BY DEF Rethrow
<1>3. /\ call'[t].text = text /\ call'[t].method = call[t].method
      /\ call'[t].number = call[t].number /\ call'[t].endpoint = call[t].endpoint
  BY <1>2 DEF IInv, TypeOK
<1>4. \A u \in Thread : At(u)' = At(u) /\ Own(u)' = Own(u) /\ Streams(u)' = Streams(u)
  BY <1>1, <1>3 DEF Rethrow, At, Own, Streams
<1>5. text # NoText /\ text.by \in Foreign
  <2>1. Own(t) # NoText /\ Own(t).by \in Foreign
    BY <1>1, OwnIsText, PathOf DEF Operation
  <2>2. last_error_[At(t)] = Own(t) \/ last_error_[At(t)].by \in Foreign
    BY <1>1 DEF IInv, Texts
  <2> QED BY <2>1, <2>2, Taken, TornIsText
<1>6. /\ mutex' \in [Endpoint -> Thread \cup {Free}]
      /\ \A e \in Endpoint : mutex[e] # t => mutex'[e] = mutex[e]
  BY DEF Rethrow, Unlocked, IInv, TypeOK
<1>7. TypeOK'
  <2>1. text \in Text
    BY Taken DEF IInv
  <2> QED BY <1>2, <1>6, <2>1 DEF Rethrow, Goto, IInv, TypeOK
<1>8. Places'
  BY <1>1, <1>3, <1>4 DEF Rethrow, IInv, Places, Operation
<1>9. Excluded' /\ OwnRequest'
  <2>1. \A u \in Thread : pc'[u] \in {"perform", "throw"} => u # t /\ pc[u] = pc'[u]
    BY <1>1
  <2>2. Excluded'
    BY <1>1, <1>4, <1>6, <2>1, AtEndpoint DEF IInv, Excluded
  <2>3. OwnRequest'
    BY <1>1, <1>4, <2>1 DEF Rethrow, IInv, OwnRequest
  <2> QED BY <2>2, <2>3
<1>10. Texts'
  BY <1>1, <1>3, <1>4, <1>5 DEF Rethrow, IInv, Texts
<1> QED BY <1>7, <1>8, <1>9, <1>10 DEF IInv

\* A cloud client's exception has the text of its own call.
LEMMA FailCloudIInv ==
  ASSUME IInv, NEW t \in Thread, FailCloud(t)
  PROVE  IInv'
<1>1. /\ pc[t] = "perform" /\ pc'[t] = "catch" /\ provider # "ollama"
      /\ \A u \in Thread \ {t} : pc'[u] = pc[u] /\ call'[u] = call[u]
      /\ call[t].method \in Operation /\ call[t].number \in 1 .. CallBound
  BY DEF FailCloud, Goto, IInv, TypeOK, Places
<1>2. Own(t) # NoText /\ Own(t) \in Text
  BY <1>1, OwnIsText
<1>3. /\ call'[t].text = Own(t) /\ call'[t].method = call[t].method
      /\ call'[t].number = call[t].number /\ call'[t].endpoint = call[t].endpoint
  BY DEF FailCloud, IInv, TypeOK
<1>4. \A u \in Thread : At(u)' = At(u) /\ Streams(u)' = Streams(u)
  BY <1>1, <1>3 DEF FailCloud, At, Streams
<1>5. TypeOK'
  BY <1>2 DEF FailCloud, Goto, IInv, TypeOK
<1>6. Places'
  BY <1>1, <1>3, <1>4 DEF FailCloud, IInv, Places
<1>7. Excluded' /\ OwnRequest'
  BY <1>1 DEF FailCloud, Excluded, OwnRequest
<1>8. Texts'
  BY <1>1, <1>2, <1>3, <1>4 DEF FailCloud, IInv, Texts, Places
<1> QED BY <1>5, <1>6, <1>7, <1>8 DEF IInv

\* What a cloud client writes is never the empty text, nor is what a race
\* makes of it.
LEMMA CatchCloudIInv ==
  ASSUME IInv, NEW t \in Thread, CatchCloud(t)
  PROVE  IInv'
<1>1. /\ pc[t] = "catch" /\ pc'[t] = "copy" /\ provider # "ollama"
      /\ \A u \in Thread \ {t} : pc'[u] = pc[u]
  BY DEF CatchCloud, Goto, IInv, TypeOK
<1>2. \A u \in Thread : /\ At(u)' = At(u) /\ Streams(u)' = Streams(u)
                        /\ At(u) \in Endpoint
  BY AtEndpoint DEF CatchCloud, At, Streams, IInv
<1>3. call[t].text \in Text /\ call[t].text # NoText
  BY <1>1 DEF IInv, TypeOK, Texts
<1>4. /\ last_error_' \in [Endpoint -> Text]
      /\ last_error_'[At(t)] # NoText
      /\ \A e \in Endpoint \ {At(t)} : last_error_'[e] = last_error_[e]
  BY <1>3, Written, TornIsText DEF CatchCloud, IInv
<1>5. TypeOK'
  BY <1>4 DEF CatchCloud, Goto, IInv, TypeOK
<1>6. Places'
  BY <1>1, <1>2 DEF CatchCloud, IInv, Places
<1>7. Excluded' /\ OwnRequest'
  BY <1>1 DEF CatchCloud, Excluded, OwnRequest
<1>8. Texts'
  BY <1>1, <1>2, <1>4 DEF CatchCloud, IInv, Texts, Places
<1> QED BY <1>5, <1>6, <1>7, <1>8 DEF IInv

\* Nobody is where a race could touch them after one has ended the program.
LEMMA AbortIInv ==
  ASSUME IInv, NEW t \in Thread, Abort(t)
  PROVE  IInv'
<1>1. \A u \in Thread : pc'[u] = "aborted"
  BY DEF Abort
<1>2. TypeOK'
  BY DEF Abort, IInv, TypeOK
<1>3. Places' /\ Excluded' /\ OwnRequest' /\ Texts'
  BY <1>1 DEF Places, Excluded, OwnRequest, Texts
<1> QED BY <1>2, <1>3 DEF IInv

\* A call that is answered at once disturbs nobody.
LEMMA AtOnceIInv ==
  ASSUME IInv,
         query_count_' \in -IntLimit .. IntLimit - 1, calls' \in 0 .. CallBound,
         told' \in Text, rejected' \in Nat,
         UNCHANGED <<provider, mutex, handle, pc, call, last_error_, served>>
  PROVE  IInv'
<1>1. TypeOK'
  BY DEF IInv, TypeOK
<1>2. \A u \in Thread : At(u)' = At(u) /\ Own(u)' = Own(u) /\ Streams(u)' = Streams(u)
  BY DEF At, Own, Streams
<1>3. Places' /\ Excluded'
  BY <1>2 DEF IInv, Places, Excluded
<1>4. OwnRequest' /\ Texts'
  BY <1>2 DEF IInv, OwnRequest, Texts
<1> QED BY <1>1, <1>3, <1>4 DEF IInv

-----------------------------------------------------------------------------
(* The actions. *)

\* The counter stays an int.
LEMMA IncrementedIsInt ==
  ASSUME NEW n \in -IntLimit .. IntLimit - 1
  PROVE  Incremented(n) \in -IntLimit .. IntLimit - 1
BY DEF Incremented

LEMMA CallIInv ==
  ASSUME IInv, NEW t \in Thread, Call(t)
  PROVE  IInv'
<1>1. query_count_ \in -IntLimit .. IntLimit - 1 /\ served \in [Endpoint -> Nat]
  BY DEF IInv, TypeOK
<1>2. CASE Send(t)
  <2>1. PICK method \in Query : Enter(t, method, Selected)
    BY <1>2 DEF Send
  <2>2. /\ method \in Operation /\ Selected \in Endpoint
        /\ provider = "ollama" /\ Goto(t, "lock")
        /\ UNCHANGED <<provider, mutex, handle, last_error_, told, rejected>>
    BY <1>2 DEF Send, Query, Operation
  <2>3. query_count_' \in -IntLimit .. IntLimit - 1 /\ served' \in [Endpoint -> Nat]
    BY <1>1, <1>2, <2>2, IncrementedIsInt DEF Send
  <2> QED BY <2>1, <2>2, <2>3, EnterIInv
<1>3. CASE Reject(t)
  <2>1. query_count_' \in -IntLimit .. IntLimit - 1
    BY <1>1, <1>3, IncrementedIsInt DEF Reject
  <2>2. calls' \in 0 .. CallBound /\ told' \in Text /\ rejected' \in Nat
    BY <1>3 DEF Reject, IInv, TypeOK
  <2> QED BY <1>3, <2>1, <2>2, AtOnceIInv DEF Reject
<1>4. CASE AskPrimary(t)
  <2>1. PICK method \in Operation \ Query : Enter(t, method, 0)
    BY <1>4 DEF AskPrimary
  <2> QED BY <1>1, <1>4, <2>1, Endpoint0, EnterIInv DEF AskPrimary
<1>5. ASSUME NEW cloud \in {"claude", "google-agy"}, SendToCloud(t, cloud)
      PROVE  IInv'
  <2>1. PICK method \in Query \cup {"available"} : Enter(t, method, 0)
    BY <1>5 DEF SendToCloud
  <2>2. method \in Operation /\ provider # "ollama" /\ Goto(t, "perform")
    BY <1>5 DEF SendToCloud, Query, Operation
  <2> QED BY <1>1, <1>5, <2>1, <2>2, Endpoint0, EnterIInv DEF SendToCloud
<1>6. ASSUME NEW cloud, AnswerFromList(t, cloud)
      PROVE  IInv'
  <2>1. calls' \in 0 .. CallBound /\ told' \in Text /\ rejected' \in Nat
    BY <1>6, TornIsText DEF AnswerFromList, IInv, TypeOK
  <2> QED BY <1>1, <1>6, <2>1, AtOnceIInv DEF AnswerFromList
<1> QED BY <1>2, <1>3, <1>4, <1>5, <1>6
        DEF Call, QueryClaude, QueryGoogle, ListClaude, ListGoogle

\* The steps with which a thread leaves its method.
Leaves(t) ==
  \/ Succeed(t) \/ Callback(t) \/ Throw(t) \/ CatchOllama(t)
  \/ CatchUnavailable(t) \/ Copy(t)

LEMMA LeavesIInv ==
  ASSUME IInv, NEW t \in Thread, Leaves(t)
  PROVE  IInv'
<1>1. last_error_ \in [Endpoint -> Text]
  BY DEF IInv, TypeOK
<1>2. CASE Succeed(t)
  BY <1>1, <1>2, TornIsText, ReturnIInv DEF Succeed
<1>3. CASE Callback(t)
  BY <1>1, <1>3, TornIsText, ReturnIInv DEF Callback
<1>4. CASE Throw(t)
  <2>1. PICK text \in Copied(t) : Return(t, text)
    BY <1>4 DEF Throw
  <2>2. text \in Text
    BY Taken DEF IInv
  <2> QED BY <1>1, <1>4, <2>1, <2>2, ReturnIInv DEF Throw
<1>5. CASE CatchOllama(t)
  <2>1. /\ pc[t] = "catch" /\ provider = "ollama"
        /\ call[t].text \in Text /\ call[t].text.by \in Foreign
    BY <1>5 DEF CatchOllama, IInv, TypeOK, Texts
  <2>2. /\ last_error_' \in [Endpoint -> Text]
        /\ last_error_'[At(t)].by \in Foreign
        /\ \A e \in Endpoint \ {At(t)} : last_error_'[e] = last_error_[e]
    BY <1>5, <2>1, Written, TornIsText DEF CatchOllama, IInv
  <2>3. \A u \in Thread \ {t} : pc[u] \in {"throw", "copy"} =>
          /\ pc[u] = "throw"
          /\ last_error_'[At(u)] = last_error_[At(u)] \/ last_error_'[At(u)].by \in Foreign
    BY <2>1, <2>2, AtEndpoint DEF IInv, Places
  <2> QED BY <1>5, <2>1, <2>2, <2>3, ReturnIInv DEF CatchOllama
<1>6. CASE Copy(t)
  <2>1. PICK text \in Copied(t) : Return(t, text)
    BY <1>6 DEF Copy
  <2>2. text \in Text
    BY Taken DEF IInv
  <2> QED BY <1>1, <1>6, <2>1, <2>2, ReturnIInv DEF Copy
<1>7. CASE CatchUnavailable(t)
  <2>1. /\ pc[t] = "catch" /\ provider # "ollama"
        /\ call[t].text \in Text /\ call[t].text # NoText
    BY <1>7 DEF CatchUnavailable, IInv, TypeOK, Texts
  <2>2. /\ last_error_' \in [Endpoint -> Text]
        /\ last_error_'[At(t)] # NoText
        /\ \A e \in Endpoint \ {At(t)} : last_error_'[e] = last_error_[e]
    BY <1>7, <2>1, Written, TornIsText DEF CatchUnavailable, IInv
  <2>3. \A u \in Thread \ {t} : pc[u] \in {"throw", "copy"} =>
          /\ pc[u] = "copy"
          /\ last_error_'[At(u)] = last_error_[At(u)] \/ last_error_'[At(u)] # NoText
    BY <2>1, <2>2, AtEndpoint DEF IInv, Places
  <2> QED BY <1>7, <2>1, <2>2, <2>3, ReturnIInv DEF CatchUnavailable
<1> QED BY <1>2, <1>3, <1>4, <1>5, <1>6, <1>7 DEF Leaves

LEMMA NextIInv == IInv /\ [Next]_vars => IInv'
<1> SUFFICES ASSUME IInv, [Next]_vars PROVE IInv'
  OBVIOUS
<1>1. ASSUME NEW t \in Thread, Call(t) PROVE IInv'
  BY <1>1, CallIInv
<1>2. ASSUME NEW t \in Thread, Continue(t) PROVE IInv'
  <2>1. CASE Leaves(t)
    BY <2>1, LeavesIInv
  <2>2. CASE Lock(t) \/ SucceedStream(t) \/ Fail(t) \/ Rethrow(t)
    BY <2>2, LockIInv, GoOnIInv, FailIInv, RethrowIInv
  <2>3. CASE FailCloud(t) \/ CatchCloud(t)
    BY <2>3, FailCloudIInv, CatchCloudIInv
  <2> QED BY <1>2, <2>1, <2>2, <2>3 DEF Continue, Leaves
<1>3. ASSUME NEW t \in Thread, Abort(t) PROVE IInv'
  BY <1>3, AbortIInv
<1>4. CASE UNCHANGED vars
  BY <1>4, AtOnceIInv DEF vars, IInv, TypeOK
<1> QED BY <1>1, <1>2, <1>3, <1>4 DEF Next

-----------------------------------------------------------------------------
(* The theorems. *)

\* The inductive invariant holds of every behaviour of a shared client.
THEOREM ClientInvariant == Spec => []IInv
<1> QED BY InitIInv, NextIInv, PTL DEF Spec

\* The state of a shared client stays well typed.
THEOREM ClientTypeCorrect == Spec => []TypeOK
<1>1. IInv => TypeOK
  BY DEF IInv
<1> QED BY <1>1, ClientInvariant, PTL

\* However many threads share an Ollama client, make_request performs each
\* request with the address and the body of its own call.
THEOREM RequestsAreOwn == Spec => []OwnRequest
<1>1. IInv => OwnRequest
  BY DEF IInv
<1> QED BY <1>1, ClientInvariant, PTL

\* What a call that returns tells, by the step with which it returns.
LEMMA LeavingTells ==
  ASSUME IInv, NEW t \in Thread, Leaves(t)
  PROVE  /\ told' = NoText <=> HasAnswer(t)
         /\ provider = "ollama" /\ ~HasAnswer(t) =>
              told' = Own(t) \/ told'.by \in Foreign
<1>1. CASE Succeed(t)
  <2>1. call[t].text = NoText
    BY <1>1 DEF Succeed, IInv, Texts
  <2> QED BY <1>1, <2>1 DEF Succeed, Return, HasAnswer
<1>2. CASE Callback(t)
  <2>1. call[t].text = NoText /\ Streams(t)
    BY <1>2 DEF Callback, IInv, Texts, Places
  <2> QED BY <1>2, <2>1 DEF Callback, Return, HasAnswer
<1>3. CASE Throw(t)
  <2>1. PICK text \in Copied(t) : told' = text
    BY <1>3 DEF Throw, Return
  <2>2. /\ pc[t] = "throw" /\ provider = "ollama" /\ call[t].method \in Operation
        /\ last_error_[At(t)] = Own(t) \/ last_error_[At(t)].by \in Foreign
    BY <1>3 DEF Throw, IInv, Places, Texts
  <2>3. told' # NoText /\ (told' = Own(t) \/ told'.by \in Foreign)
    BY <2>1, <2>2, Taken, OwnIsText, TornIsText
  <2> QED BY <2>2, <2>3 DEF HasAnswer, Streams
<1>4. CASE CatchOllama(t)
  <2>1. /\ pc[t] = "catch" /\ provider = "ollama" /\ told' = call[t].text
        /\ call[t].text # NoText /\ call[t].text.by \in Foreign
    BY <1>4 DEF CatchOllama, Return, IInv, Texts
  <2> QED BY <2>1 DEF HasAnswer
<1>5. CASE Copy(t)
  <2>1. PICK text \in Copied(t) : told' = text
    BY <1>5 DEF Copy, Return
  <2>2. pc[t] = "copy" /\ provider # "ollama" /\ last_error_[At(t)] # NoText
    BY <1>5 DEF Copy, IInv, Places, Texts
  <2>3. told' # NoText
    BY <2>1, <2>2, Taken, TornIsText
  <2> QED BY <2>2, <2>3 DEF HasAnswer
<1>6. CASE CatchUnavailable(t)
  <2>1. /\ pc[t] = "catch" /\ provider # "ollama" /\ told' = call[t].text
        /\ call[t].text # NoText
    BY <1>6 DEF CatchUnavailable, Return, IInv, Texts
  <2> QED BY <2>1 DEF HasAnswer
<1> QED BY <1>1, <1>2, <1>3, <1>4, <1>5, <1>6 DEF Leaves

\* Nothing else makes a thread idle that was not.
LEMMA OnlyLeaving ==
  ASSUME IInv, [Next]_vars, NEW t \in Thread, pc[t] # "idle", pc'[t] = "idle"
  PROVE  Leaves(t)
<1>1. ASSUME NEW u \in Thread, NEW state, Goto(u, state)
      PROVE  u = t /\ state = "idle"
  BY <1>1 DEF Goto, IInv, TypeOK
<1>2. ASSUME NEW u \in Thread, Call(u) PROVE FALSE
  BY <1>1, <1>2 DEF Call, Send, Reject, AskPrimary, QueryClaude, QueryGoogle,
       SendToCloud, ListClaude, ListGoogle, AnswerFromList
<1>3. ASSUME NEW u \in Thread, Continue(u) PROVE Leaves(t)
  <2>1. CASE Leaves(u)
    BY <1>1, <2>1 DEF Leaves, Succeed, Callback, Throw, CatchOllama,
       CatchUnavailable, Copy, Return
  <2>2. CASE ~Leaves(u)
    BY <1>1, <1>3, <2>2 DEF Continue, Leaves, Lock, SucceedStream, Fail, Rethrow,
         FailCloud, CatchCloud
  <2> QED BY <2>1, <2>2
<1>4. ASSUME NEW u \in Thread, Abort(u) PROVE FALSE
  BY <1>4 DEF Abort
<1>5. CASE UNCHANGED vars
  BY <1>5 DEF vars
<1> QED BY <1>2, <1>3, <1>4, <1>5 DEF Next

\* Whatever races make of the texts, a call comes back without an error exactly
\* when it has its answer, and a failed query of an Ollama client reports its
\* own error or one that available_models or get_model_info wrote.
THEOREM ErrorsAreTold == Spec => ErrorsTold
<1>1. ASSUME IInv, [Next]_vars, NEW t \in Thread, pc[t] # "idle", pc'[t] = "idle"
      PROVE  /\ told' = NoText <=> HasAnswer(t)
             /\ provider = "ollama" /\ ~HasAnswer(t) =>
                  told' = Own(t) \/ told'.by \in {"race", "/api/tags", "/api/show"}
  BY <1>1, OnlyLeaving, LeavingTells DEF Foreign
<1>2. IInv /\ [Next]_vars =>
        [\A t \in Thread : pc[t] # "idle" /\ pc'[t] = "idle" =>
           /\ told' = NoText <=> HasAnswer(t)
           /\ provider = "ollama" /\ ~HasAnswer(t) =>
                told' = Own(t) \/ told'.by \in {"race", "/api/tags", "/api/show"}]_vars
  BY <1>1
<1> QED BY <1>2, ClientInvariant, PTL DEF Spec, ErrorsTold

-----------------------------------------------------------------------------
(* The round-robin.  The counter is the number of the queries until it      *)
(* overflows: then an endpoint was selected once for each full turn, and    *)
(* once more if the turn that has begun has come past it.                   *)

Ahead(e) == IF e < query_count_ % Endpoints THEN 1 ELSE 0

\* As long as the counter counts, as long as it is negative, and later.
Spread ==
  \/ /\ query_count_ \in 0 .. calls
     /\ rejected = 0
     /\ \A e, f \in Endpoint : served[e] - Ahead(e) = served[f] - Ahead(f)
  \/ query_count_ < 0 /\ query_count_ + 2 * IntLimit <= calls
  \/ calls >= 2 * IntLimit

LEMMA Division ==
  ASSUME NEW a \in Nat, NEW n \in Nat \ {0}
  PROVE  a % n \in 0 .. n - 1 /\ a \div n \in Nat /\ a = n * (a \div n) + (a % n)
<1>1. a % n \in 0 .. n - 1
  OBVIOUS
<1>2. a = n * (a \div n) + (a % n)
  OBVIOUS
<1>3. a \div n \in Nat
  OBVIOUS
<1> QED BY <1>1, <1>2, <1>3

\* A number has one remainder.
LEMMA RemainderUnique ==
  ASSUME NEW n \in Nat \ {0}, NEW p \in Int, NEW q \in Int,
         NEW r \in 0 .. n - 1, NEW s \in 0 .. n - 1, n * p + r = n * q + s
  PROVE  r = s
<1>1. n * (p - q) = s - r
  OBVIOUS
<1>2. p - q <= 0
  <2>1. SUFFICES ASSUME p - q >= 1 PROVE FALSE
    OBVIOUS
  <2>2. n * (p - q) >= n
    BY <2>1
  <2> QED BY <1>1, <2>2
<1>3. p - q >= 0
  <2>1. SUFFICES ASSUME p - q <= -1 PROVE FALSE
    OBVIOUS
  <2>2. n * (p - q) <= -n
    BY <2>1
  <2> QED BY <1>1, <2>2
<1>4. p - q = 0
  BY <1>2, <1>3
<1> QED BY <1>1, <1>4

\* The remainder of the next number.
LEMMA NextRemainder ==
  ASSUME NEW a \in Nat, NEW n \in Nat \ {0}
  PROVE  (a + 1) % n = IF a % n = n - 1 THEN 0 ELSE (a % n) + 1
<1> DEFINE p == a \div n
           q == (a + 1) \div n
           r == a % n
           s == (a + 1) % n
<1>1. p \in Nat /\ r \in 0 .. n - 1 /\ a = n * p + r
  BY Division
<1>2. q \in Nat /\ s \in 0 .. n - 1 /\ a + 1 = n * q + s
  <2>1. a + 1 \in Nat
    OBVIOUS
  <2> QED BY <2>1, Division
<1> HIDE DEF p, q, r, s
<1>3. CASE r = n - 1
  <2>1. n * (p + 1) = n * p + n
    BY <1>1
  <2>2. n * (p + 1) + 0 = n * q + s
    BY <1>1, <1>2, <1>3, <2>1
  <2>3. 0 \in 0 .. n - 1 /\ p + 1 \in Int /\ q \in Int
    BY <1>1, <1>2
  <2>4. s = 0
    BY <1>2, <2>2, <2>3, RemainderUnique
  <2> QED BY <1>3, <2>4 DEF r, s
<1>4. CASE r # n - 1
  <2>1. r + 1 \in 0 .. n - 1 /\ n * p + (r + 1) = n * q + s
    BY <1>1, <1>2, <1>4
  <2>2. s = r + 1
    BY <1>1, <1>2, <2>1, RemainderUnique
  <2> QED BY <1>4, <2>2 DEF r, s
<1> QED BY <1>3, <1>4

\* A query goes to the endpoint whose turn it is, and the turns stay even.
LEMMA SendSpread ==
  ASSUME IInv, Spread, NEW t \in Thread, Send(t)
  PROVE  Spread'
<1>1. /\ query_count_ \in -IntLimit .. IntLimit - 1 /\ calls \in Nat
      /\ query_count_' = Incremented(query_count_) /\ calls' = calls + 1
      /\ rejected' = rejected /\ served \in [Endpoint -> Nat]
      /\ served' = [served EXCEPT ![Selected] = @ + 1]
  BY DEF Send, Enter, IInv, TypeOK
<1>2. CASE query_count_ \in 0 .. calls /\ query_count_ < IntLimit - 1 /\ rejected = 0
             /\ \A e, f \in Endpoint : served[e] - Ahead(e) = served[f] - Ahead(f)
  <2> DEFINE turn == query_count_ % Endpoints
             next == (query_count_ + 1) % Endpoints
  <2>1. /\ turn \in 0 .. Endpoints - 1
        /\ next = IF turn = Endpoints - 1 THEN 0 ELSE turn + 1
    <3>1. query_count_ \in Nat /\ Endpoints \in Nat \ {0}
      BY <1>1, <1>2
    <3> QED BY <3>1, Division, NextRemainder
  <2>2. Selected = turn /\ query_count_' = query_count_ + 1
    BY <1>1, <1>2 DEF Selected, Remainder, Incremented
  <2>3. /\ \A e \in Endpoint : Ahead(e) = IF e < turn THEN 1 ELSE 0
        /\ \A e \in Endpoint : Ahead(e)' = IF e < next THEN 1 ELSE 0
    BY <2>2 DEF Ahead
  <2> HIDE DEF turn, next
  <2>4. \A e \in Endpoint : served'[e] = IF e = turn THEN served[e] + 1 ELSE served[e]
    BY <1>1, <2>1, <2>2
  <2>5. ASSUME NEW e \in Endpoint
        PROVE  /\ Ahead(e) \in {0, 1} /\ Ahead(e)' \in {0, 1} /\ served[e] \in Nat
               /\ turn = Endpoints - 1 =>
                    served'[e] - Ahead(e)' = served[e] - Ahead(e) + 1
               /\ turn # Endpoints - 1 =>
                    served'[e] - Ahead(e)' = served[e] - Ahead(e)
    <3>1. e \in 0 .. Endpoints - 1 /\ served[e] \in Nat
      BY <1>1 DEF Endpoint
    <3>2. CASE turn = Endpoints - 1
      <4>1. next = 0
        BY <2>1, <3>2
      <4> QED BY <2>3, <2>4, <3>1, <3>2, <4>1
    <3>3. CASE turn # Endpoints - 1
      <4>1. next = turn + 1
        BY <2>1, <3>3
      <4> QED BY <2>1, <2>3, <2>4, <3>1, <3>3, <4>1
    <3> QED BY <3>2, <3>3
  <2>6. \A e, f \in Endpoint : served'[e] - Ahead(e)' = served'[f] - Ahead(f)'
    BY <1>2, <2>5
  <2>7. query_count_' \in 0 .. calls'
    BY <1>1, <1>2, <2>2
  <2> QED BY <1>1, <1>2, <2>6, <2>7 DEF Spread
<1>3. CASE query_count_ \in 0 .. calls /\ query_count_ = IntLimit - 1
  BY <1>1, <1>3 DEF Spread, Incremented
<1>4. CASE query_count_ < 0 /\ query_count_ + 2 * IntLimit <= calls
  BY <1>1, <1>4 DEF Spread, Incremented
<1>5. CASE calls >= 2 * IntLimit
  BY <1>1, <1>5 DEF Spread
<1>6. query_count_ \in 0 .. calls => query_count_ < IntLimit - 1 \/ query_count_ = IntLimit - 1
  BY <1>1
<1> QED BY <1>2, <1>3, <1>4, <1>5, <1>6 DEF Spread

\* Only a negative counter makes a query go nowhere.
LEMMA RejectSpread ==
  ASSUME IInv, Spread, NEW t \in Thread, Reject(t)
  PROVE  Spread'
<1>1. /\ query_count_ \in -IntLimit .. IntLimit - 1 /\ calls \in Nat
      /\ query_count_' = Incremented(query_count_) /\ calls' = calls + 1
      /\ Selected \notin Endpoint
  BY DEF Reject, IInv, TypeOK
<1>2. query_count_ < 0
  <2>1. query_count_ \in Nat => query_count_ % Endpoints \in 0 .. Endpoints - 1
    BY Division
  <2> QED BY <1>1, <2>1 DEF Selected, Remainder, Endpoint
<1> QED BY <1>1, <1>2 DEF Spread, Incremented

\* The other steps select no endpoint.
LEMMA StillSpread ==
  ASSUME IInv, Spread, calls' \in {calls, calls + 1},
         UNCHANGED <<query_count_, served, rejected>>
  PROVE  Spread'
<1>1. calls \in Nat /\ query_count_ \in Int
  BY DEF IInv, TypeOK
<1>2. \A e \in Endpoint : Ahead(e)' = Ahead(e)
  BY DEF Ahead
<1> QED BY <1>1, <1>2 DEF Spread

LEMMA NextSpread == IInv /\ Spread /\ [Next]_vars => Spread'
<1> SUFFICES ASSUME IInv, Spread, [Next]_vars PROVE Spread'
  OBVIOUS
<1>1. ASSUME NEW t \in Thread, Call(t) PROVE Spread'
  <2>1. CASE Send(t)
    BY <2>1, SendSpread
  <2>2. CASE Reject(t)
    BY <2>2, RejectSpread
  <2>3. CASE ~Send(t) /\ ~Reject(t)
    <3>1. calls' = calls + 1 /\ UNCHANGED <<query_count_, served, rejected>>
      BY <1>1, <2>3 DEF Call, AskPrimary, QueryClaude, QueryGoogle, SendToCloud,
           ListClaude, ListGoogle, AnswerFromList, Enter
    <3> QED BY <3>1, StillSpread
  <2> QED BY <2>1, <2>2, <2>3
<1>2. ASSUME NEW t \in Thread, Continue(t) PROVE Spread'
  <2>1. UNCHANGED <<query_count_, calls, served, rejected>>
    BY <1>2 DEF Continue, Lock, Succeed, SucceedStream, Callback, Fail, Throw,
         Rethrow, CatchOllama, FailCloud, CatchUnavailable, CatchCloud, Copy
  <2> QED BY <2>1, StillSpread
<1>3. ASSUME NEW t \in Thread, Abort(t) PROVE Spread'
  BY <1>3, StillSpread DEF Abort
<1>4. CASE UNCHANGED vars
  BY <1>4, StillSpread DEF vars
<1> QED BY <1>1, <1>2, <1>3, <1>4 DEF Next

\* Until its counter overflows MultiEndpointOllamaClient refuses no query and
\* no endpoint is more than one query behind another, for any number of
\* endpoints and threads; a request never goes to one that does not exist.
THEOREM LoadIsEven == Spec => []EvenLoad
<1>1. Init => Spread
  <2>1. 0 % Endpoints = 0
    OBVIOUS
  <2>2. ASSUME Init, NEW e \in Endpoint
        PROVE  served[e] = 0 /\ Ahead(e) = 0
    BY <2>1, <2>2 DEF Init, Ahead, Endpoint
  <2> QED BY <2>2 DEF Init, Spread
<1>2. IInv /\ Spread => EvenLoad
  <2> SUFFICES ASSUME IInv, Spread PROVE EvenLoad
    OBVIOUS
  <2>1. \A t \in Thread : At(t) \in Endpoint
    BY AtEndpoint DEF IInv
  <2>2. ASSUME query_count_ >= 0, calls < 2 * IntLimit
        PROVE  rejected = 0 /\ \A e, f \in Endpoint : served[e] <= served[f] + 1
    <3>1. /\ calls \in Nat /\ query_count_ \in Int
          /\ \A e \in Endpoint : served[e] \in Nat /\ Ahead(e) \in {0, 1}
      BY DEF IInv, TypeOK, Ahead
    <3>2. /\ rejected = 0
          /\ \A e, f \in Endpoint : served[e] - Ahead(e) = served[f] - Ahead(f)
      BY <2>2, <3>1 DEF Spread
    <3> QED BY <3>1, <3>2
  <2> QED BY <2>1, <2>2 DEF EvenLoad
<1> QED BY <1>1, <1>2, NextSpread, ClientInvariant, PTL DEF Spec
=============================================================================
