----------------------------- MODULE AnalystPool -----------------------------
(***************************************************************************)
(* core::AnalystPool::execute_round as the code runs it.                   *)
(*                                                                         *)
(* The caller starts one std::thread for each active analyst and joins     *)
(* them in order.  A thread queries the LLM for its analyst and, when that *)
(* succeeds, executes success_count++ on a plain int that all threads      *)
(* share: a load and a store that other threads' come between.             *)
(*                                                                         *)
(* The system may refuse a thread.  The exception then unwinds the vector  *)
(* of the threads started so far: without any, it leaves execute_round;    *)
(* with one, a joinable std::thread is destroyed and the process ends.     *)
(***************************************************************************)
EXTENDS AtomicPool

VARIABLES
  caller,   \* where the caller is: outside, starting or joining threads,
            \* or gone with the process
  cursor,   \* the analyst its loop has reached
  thread,   \* each analyst's thread
  loaded,   \* the value the thread's increment has read
  counter,  \* the local success_count of the running execute_round
  before    \* history: the analysts when the running round began, <<>> outside

roundVars == <<caller, cursor, thread, loaded, counter, before>>

vars == <<analysts, clock, success_count, edits, caller, cursor, thread,
          loaded, counter, before>>

Slot == 1 .. MaxModels

\* "ok" and "failed" are threads that have ended, after execute_round
\* returned true or false; "none" is an analyst without a thread.
Running == {"query", "load", "store"}
ThreadState == Running \cup {"none", "ok", "failed"}

PoolTypeOK ==
  /\ analysts \in Seq(AnalystRecord) /\ Len(analysts) <= MaxModels
  /\ clock \in Nat
  /\ success_count \in Nat
  /\ caller \in {"outside", "start", "join", "terminated"}
  /\ cursor \in 1 .. MaxModels + 1
  /\ thread \in [Slot -> ThreadState]
  /\ loaded \in [Slot -> Nat]
  /\ counter \in Nat
  /\ before \in Seq(AnalystRecord)

NoRound ==
  /\ caller = "outside"
  /\ cursor = 1
  /\ thread = [i \in Slot |-> "none"]
  /\ loaded = [i \in Slot |-> 0]
  /\ counter = 0
  /\ before = <<>>

PoolInit == AtomicInit /\ NoRound

-----------------------------------------------------------------------------
(* The caller. *)

\* The pool is only changed between rounds: nothing in it is locked.
OwnerStep ==
  /\ caller = "outside"
  /\ Owner
  /\ UNCHANGED roundVars

Call ==
  /\ caller = "outside"
  /\ clock < RoundBound
  /\ clock' = clock + 1
  /\ caller' = "start"
  /\ cursor' = 1
  /\ thread' = [i \in Slot |-> "none"]
  /\ before' = analysts
  /\ UNCHANGED <<analysts, success_count, edits, loaded, counter>>

\* Mutant: the pruned and the completed analysts are asked too.
StartAll ==
  /\ caller = "start"
  /\ cursor \in Index
  /\ thread' = [thread EXCEPT ![cursor] = "query"]
  /\ cursor' = cursor + 1
  /\ UNCHANGED <<analysts, clock, success_count, edits, caller, loaded,
                 counter, before>>

\* Threads already started run while the loop goes on.
Start ==
  /\ caller = "start"
  /\ cursor \in Index
  /\ thread' = [thread EXCEPT
       ![cursor] = IF is_active(analysts[cursor]) THEN "query" ELSE @]
  /\ cursor' = cursor + 1
  /\ UNCHANGED <<analysts, clock, success_count, edits, caller, loaded,
                 counter, before>>

ThreadRefused ==
  caller = "start" /\ cursor \in Index /\ is_active(analysts[cursor])

StartedAny == \E i \in Slot : thread[i] # "none"

\* Nothing of a round that throws is left; the clock does not count it.
StartThrows ==
  /\ ThreadRefused /\ ~StartedAny
  /\ caller' = "outside"
  /\ cursor' = 1
  /\ clock' = clock - 1
  /\ before' = <<>>
  /\ UNCHANGED <<analysts, success_count, edits, thread, loaded, counter>>

\* A thread that has ended and was not joined is joinable all the same.
StartTerminates ==
  /\ ThreadRefused /\ StartedAny
  /\ caller' = "terminated"
  /\ UNCHANGED <<analysts, clock, success_count, edits, cursor, thread, loaded,
                 counter, before>>

AllStarted ==
  /\ caller = "start"
  /\ cursor \notin Index
  /\ caller' = "join"
  /\ cursor' = 1
  /\ UNCHANGED <<analysts, clock, success_count, edits, thread, loaded,
                 counter, before>>

\* Mutants: the threads are detached; the caller also waits for the threads
\* of analysts that were skipped.
Detach ==
  /\ caller = "join"
  /\ cursor \in Index
  /\ cursor' = cursor + 1
  /\ UNCHANGED <<analysts, clock, success_count, edits, caller, thread,
                 loaded, counter, before>>

JoinSkipped ==
  /\ caller = "join"
  /\ cursor \in Index
  /\ thread[cursor] \in {"ok", "failed"}
  /\ cursor' = cursor + 1
  /\ UNCHANGED <<analysts, clock, success_count, edits, caller, thread,
                 loaded, counter, before>>

\* join returns once the thread has ended; skipped analysts have none.
Join ==
  /\ caller = "join"
  /\ cursor \in Index
  /\ thread[cursor] \notin Running
  /\ cursor' = cursor + 1
  /\ UNCHANGED <<analysts, clock, success_count, edits, caller, thread,
                 loaded, counter, before>>

\* Mutant: the counter outlives the call.
ReturnKeepsCounter ==
  /\ caller = "join"
  /\ cursor \notin Index
  /\ caller' = "outside"
  /\ success_count' = counter
  /\ cursor' = 1
  /\ before' = <<>>
  /\ UNCHANGED <<analysts, clock, edits, thread, loaded, counter>>

Return ==
  /\ caller = "join"
  /\ cursor \notin Index
  /\ caller' = "outside"
  /\ success_count' = counter
  /\ cursor' = 1
  /\ counter' = 0
  /\ before' = <<>>
  /\ UNCHANGED <<analysts, clock, edits, thread, loaded>>

-----------------------------------------------------------------------------
(* The threads. *)

QuerySucceeds(i, len) ==
  /\ thread[i] = "query"
  /\ thread' = [thread EXCEPT ![i] = "load"]
  /\ analysts' = [analysts EXCEPT ![i] = Answered(@, len, clock)]
  /\ UNCHANGED <<clock, success_count, edits, caller, cursor, loaded,
                 counter, before>>

QueryFails(i) ==
  /\ thread[i] = "query"
  /\ thread' = [thread EXCEPT ![i] = "failed"]
  /\ analysts' = [analysts EXCEPT ![i] = Failed(@, clock)]
  /\ UNCHANGED <<clock, success_count, edits, caller, cursor, loaded,
                 counter, before>>

LoadCount(i) ==
  /\ thread[i] = "load"
  /\ thread' = [thread EXCEPT ![i] = "store"]
  /\ loaded' = [loaded EXCEPT ![i] = counter]
  /\ UNCHANGED <<analysts, clock, success_count, edits, caller, cursor,
                 counter, before>>

StoreCount(i) ==
  /\ thread[i] = "store"
  /\ thread' = [thread EXCEPT ![i] = "ok"]
  /\ counter' = loaded[i] + 1
  /\ loaded' = [loaded EXCEPT ![i] = 0]
  /\ UNCHANGED <<analysts, clock, success_count, edits, caller, cursor,
                 before>>

Thread(i) ==
  /\ caller # "terminated"
  /\ \/ \E len \in Lengths : QuerySucceeds(i, len)
     \/ QueryFails(i)
     \/ LoadCount(i)
     \/ StoreCount(i)

CallerStep ==
  Call \/ Start \/ StartThrows \/ StartTerminates \/ AllStarted \/ Join \/ Return

PoolNext == OwnerStep \/ CallerStep \/ \E i \in Slot : Thread(i)

PoolSpec == PoolInit /\ [][PoolNext]_vars

-----------------------------------------------------------------------------
(* Properties. *)

Succeeded == {i \in Slot : thread[i] = "ok"}

\* When the last thread has been joined the count is zero exactly when every
\* query failed, and never exceeds the number of successes: increments lost
\* to the race cannot end a debate that has an answer, nor start an election
\* on a round that has none (Council.cpp:62 tests success_count <= 0).
CountDecides ==
  caller = "join" /\ cursor \notin Index =>
    /\ counter = 0 <=> Succeeded = {}
    /\ counter <= Cardinality(Succeeded)

\* A thread holds references to its analyst, to the client and to the local
\* counter of execute_round: none may still run once the round returned.
NoThreadOutlivesRound ==
  caller = "outside" => \A i \in Slot : thread[i] \notin Running

\* A round asks every analyst that was active when it began exactly once and
\* leaves the pruned and the completed ones alone, however the threads
\* interleave: all the elections of a debate index the responses by round.
AskedOnce ==
  caller = "join" /\ cursor \notin Index =>
    /\ Len(analysts) = Len(before)
    /\ \A i \in Index :
         IF is_active(before[i])
           THEN /\ SubSeq(analysts[i].responses, 1, Len(before[i].responses))
                     = before[i].responses
                /\ Len(analysts[i].responses) = Len(before[i].responses) + 1
                /\ get_response(analysts[i], Len(before[i].responses)).at
                     = clock
           ELSE analysts[i] = before[i]

\* The pool implements AtomicPool: nothing of a round shows before it returns,
\* nor if it throws.
Atomic == INSTANCE AtomicPool WITH
  analysts <- IF caller = "outside" THEN analysts ELSE before,
  clock <- IF caller = "outside" THEN clock ELSE clock - 1

ImplementsAtomic == Atomic!AtomicSpec
=============================================================================
