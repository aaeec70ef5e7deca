------------------------------ MODULE TaskPool ------------------------------
(***************************************************************************)
(* What util::ThreadPool promises: tasks are accepted until the pool is    *)
(* stopped, started in the order they were accepted, each once, at most    *)
(* NumWorkers at a time, and every one that was started ends.              *)
(***************************************************************************)
EXTENDS Integers, Sequences, FiniteSets

CONSTANTS
  Task,         \* the callables a client may enqueue
  NumWorkers    \* the number of worker threads

VARIABLES
  accepted,   \* the tasks accepted so far, in order
  started,    \* how many of them have been started
  finished,   \* the tasks that have ended
  stopped     \* the pool accepts no more tasks

taskVars == <<accepted, started, finished, stopped>>

TaskInit ==
  /\ accepted = <<>>
  /\ started = 0
  /\ finished = {}
  /\ stopped = FALSE

StartedTasks == {accepted[k] : k \in 1 .. started}

Accept(t) ==
  /\ ~stopped
  /\ accepted' = Append(accepted, t)
  /\ UNCHANGED <<started, finished, stopped>>

StartNext ==
  /\ started < Len(accepted)
  /\ Cardinality(StartedTasks \ finished) < NumWorkers
  /\ started' = started + 1
  /\ UNCHANGED <<accepted, finished, stopped>>

Finish(t) ==
  /\ t \in StartedTasks \ finished
  /\ finished' = finished \cup {t}
  /\ UNCHANGED <<accepted, started, stopped>>

StopAccepting ==
  /\ stopped' = TRUE
  /\ UNCHANGED <<accepted, started, finished>>

TaskNext ==
  \/ \E t \in Task : Accept(t) \/ Finish(t)
  \/ StartNext
  \/ StopAccepting

TaskSpec == TaskInit /\ [][TaskNext]_taskVars
=============================================================================
