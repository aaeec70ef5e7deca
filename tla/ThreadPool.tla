----------------------------- MODULE ThreadPool -----------------------------
(***************************************************************************)
(* util::ThreadPool: worker threads that take tasks from a queue guarded   *)
(* by a mutex, with two condition variables.  queue_cv wakes workers, and  *)
(* every change of what they wait for is made under the mutex; done_cv     *)
(* wakes wait(), and the decrement it waits for is made without it.        *)
(*                                                                         *)
(* A thread is in the wait set of its condition variable while its pc is   *)
(* "asleep".  A critical section is one step where nothing outside reads   *)
(* what it changes, and several where another thread looks in unlocked.    *)
(***************************************************************************)
EXTENDS Integers, Sequences, FiniteSets

CONSTANTS
  Worker,         \* the worker threads
  Client,         \* the threads that use the pool
  Owner,          \* the client that owns the pool, and alone may stop it
  Task,           \* the callables clients enqueue, each once
  NoTask,
  Free,           \* the mutex is not held
  CallBound,      \* bound on the calls of a behaviour
  SpuriousBound   \* bound on its spurious wakeups

ASSUME ThreadPoolAssumption ==
  /\ IsFiniteSet(Worker) /\ Worker # {}
  /\ Owner \in Client
  /\ Worker \cap Client = {}
  /\ NoTask \notin Task
  /\ Free \notin Worker \cup Client
  /\ CallBound \in Nat /\ SpuriousBound \in Nat

VARIABLES
  tasks,          \* every task pushed so far: tasks_ is what follows popped
  popped,         \* how many have been popped
  mutex,          \* the holder of queue_mutex_
  stop_,
  active_tasks,
  pc,             \* where each thread is
  job,            \* the task a worker has taken
  seen,           \* what a worker's unlocked tasks_.empty() has read so far
  arg,            \* the task a client is enqueueing
  finished,       \* history: the tasks that have ended
  due,            \* history: the tasks a client's wait() has to wait for
  calls,
  spurious

vars == <<tasks, popped, mutex, stop_, active_tasks, pc, job, seen, arg,
          finished, due, calls, spurious>>

WorkerState == {"lock", "popped", "run", "ended", "look", "lookTail",
                "lookHead", "lookActive", "signal", "asleep", "exited"}

ClientState == {"idle", "enqueue", "notify", "wait", "sleep", "asleep",
                "stop", "notifyAll", "join"}

Empty == popped = Len(tasks)

Queued == {tasks[k] : k \in popped + 1 .. Len(tasks)}

TypeOK ==
  /\ tasks \in Seq(Task)
  /\ popped \in 0 .. Len(tasks)
  /\ mutex \in Worker \cup Client \cup {Free}
  /\ stop_ \in BOOLEAN
  /\ active_tasks \in 0 .. Cardinality(Worker)
  /\ pc \in [Worker \cup Client -> WorkerState \cup ClientState]
  /\ \A w \in Worker : pc[w] \in WorkerState
  /\ \A c \in Client : pc[c] \in ClientState
  /\ job \in [Worker -> Task \cup {NoTask}]
  /\ seen \in [Worker -> Nat]
  /\ arg \in [Client -> Task \cup {NoTask}]
  /\ finished \subseteq Task
  /\ due \in [Client -> SUBSET Task]
  /\ calls \in 0 .. CallBound
  /\ spurious \in 0 .. SpuriousBound

Init ==
  /\ tasks = <<>>
  /\ popped = 0
  /\ mutex = Free
  /\ stop_ = FALSE
  /\ active_tasks = 0
  /\ pc = [t \in Worker \cup Client |-> IF t \in Worker THEN "lock" ELSE "idle"]
  /\ job = [w \in Worker |-> NoTask]
  /\ seen = [w \in Worker |-> 0]
  /\ arg = [c \in Client |-> NoTask]
  /\ finished = {}
  /\ due = [c \in Client |-> {}]
  /\ calls = 0
  /\ spurious = 0

Goto(t, state) == pc' = [pc EXCEPT ![t] = state]

-----------------------------------------------------------------------------
(* Clients: enqueue, wait, stop. *)

Fresh == Task \ ({tasks[k] : k \in 1 .. Len(tasks)} \cup {arg[c] : c \in Client})

CallEnqueue(c) ==
  /\ pc[c] = "idle" /\ calls < CallBound
  /\ calls' = calls + 1
  /\ \E t \in Fresh : arg' = [arg EXCEPT ![c] = t]
  /\ Goto(c, "enqueue")
  /\ UNCHANGED <<tasks, popped, mutex, stop_, active_tasks, job, seen,
                 finished, due, spurious>>

\* Mutant: a stopped pool still accepts tasks.
EnqueueAlways(c) ==
  /\ pc[c] = "enqueue" /\ mutex = Free
  /\ Goto(c, "notify")
  /\ tasks' = Append(tasks, arg[c])
  /\ arg' = [arg EXCEPT ![c] = NoTask]
  /\ UNCHANGED <<popped, mutex, stop_, active_tasks, job, seen, finished, due,
                 calls, spurious>>

\* A stopped pool throws, with the lock released and nothing queued.
Enqueue(c) ==
  /\ pc[c] = "enqueue" /\ mutex = Free
  /\ IF stop_
       THEN Goto(c, "idle") /\ UNCHANGED tasks
       ELSE Goto(c, "notify") /\ tasks' = Append(tasks, arg[c])
  /\ arg' = [arg EXCEPT ![c] = NoTask]
  /\ UNCHANGED <<popped, mutex, stop_, active_tasks, job, seen, finished, due,
                 calls, spurious>>

\* Mutant: nobody is notified of a new task.
NotifyNobody(c) ==
  /\ pc[c] = "notify"
  /\ Goto(c, "idle")
  /\ UNCHANGED <<tasks, popped, mutex, stop_, active_tasks, job, seen, arg,
                 finished, due, calls, spurious>>

\* notify_one wakes one sleeping worker if there is one.
NotifyOne(c) ==
  /\ pc[c] = "notify"
  /\ LET asleep == {w \in Worker : pc[w] = "asleep"}
     IN  IF asleep = {}
           THEN Goto(c, "idle")
           ELSE \E w \in asleep :
                  pc' = [pc EXCEPT ![c] = "idle", ![w] = "lock"]
  /\ UNCHANGED <<tasks, popped, mutex, stop_, active_tasks, job, seen, arg,
                 finished, due, calls, spurious>>

CallWait(c) ==
  /\ pc[c] = "idle" /\ calls < CallBound
  /\ calls' = calls + 1
  /\ due' = [due EXCEPT ![c] = {tasks[k] : k \in 1 .. Len(tasks)}]
  /\ Goto(c, "wait")
  /\ UNCHANGED <<tasks, popped, mutex, stop_, active_tasks, job, seen, arg,
                 finished, spurious>>

\* Mutant: wait() looks at the queue alone.
QueueDone == Empty

AllDone == Empty /\ active_tasks = 0

WaitReturns(c) ==
  /\ pc[c] = "wait" /\ mutex = Free
  /\ AllDone
  /\ due' = [due EXCEPT ![c] = {}]
  /\ Goto(c, "idle")
  /\ UNCHANGED <<tasks, popped, mutex, stop_, active_tasks, job, seen, arg,
                 finished, calls, spurious>>

\* The predicate is false; the client holds the mutex until it is asleep.
WaitBlocks(c) ==
  /\ pc[c] = "wait" /\ mutex = Free
  /\ ~AllDone
  /\ mutex' = c
  /\ Goto(c, "sleep")
  /\ UNCHANGED <<tasks, popped, stop_, active_tasks, job, seen, arg, finished,
                 due, calls, spurious>>

WaitSleeps(c) ==
  /\ pc[c] = "sleep"
  /\ mutex' = Free
  /\ Goto(c, "asleep")
  /\ UNCHANGED <<tasks, popped, stop_, active_tasks, job, seen, arg, finished,
                 due, calls, spurious>>

\* stop() is called by the owner, by its destructor at the latest; a second
\* call finds no joinable worker.
CallStop ==
  /\ pc[Owner] = "idle" /\ calls < CallBound
  /\ calls' = calls + 1
  /\ Goto(Owner, "stop")
  /\ UNCHANGED <<tasks, popped, mutex, stop_, active_tasks, job, seen, arg,
                 finished, due, spurious>>

Stop ==
  /\ pc[Owner] = "stop" /\ mutex = Free
  /\ stop_' = TRUE
  /\ Goto(Owner, "notifyAll")
  /\ UNCHANGED <<tasks, popped, mutex, active_tasks, job, seen, arg, finished,
                 due, calls, spurious>>

\* Mutant: the stop wakes one worker only.
StopNotifiesOne ==
  /\ pc[Owner] = "notifyAll"
  /\ LET asleep == {w \in Worker : pc[w] = "asleep"}
     IN  IF asleep = {}
           THEN Goto(Owner, "join")
           ELSE \E w \in asleep :
                  pc' = [pc EXCEPT ![Owner] = "join", ![w] = "lock"]
  /\ UNCHANGED <<tasks, popped, mutex, stop_, active_tasks, job, seen, arg,
                 finished, due, calls, spurious>>

NotifyAll ==
  /\ pc[Owner] = "notifyAll"
  /\ pc' = [t \in Worker \cup Client |->
              IF t = Owner THEN "join"
              ELSE IF t \in Worker /\ pc[t] = "asleep" THEN "lock"
              ELSE pc[t]]
  /\ UNCHANGED <<tasks, popped, mutex, stop_, active_tasks, job, seen, arg,
                 finished, due, calls, spurious>>

JoinAll ==
  /\ pc[Owner] = "join"
  /\ \A w \in Worker : pc[w] = "exited"
  /\ Goto(Owner, "idle")
  /\ UNCHANGED <<tasks, popped, mutex, stop_, active_tasks, job, seen, arg,
                 finished, due, calls, spurious>>

-----------------------------------------------------------------------------
(* Workers: worker_loop. *)

Sleep(w) ==
  /\ pc[w] = "lock" /\ mutex = Free
  /\ Empty /\ ~stop_
  /\ Goto(w, "asleep")
  /\ UNCHANGED <<tasks, popped, mutex, stop_, active_tasks, job, seen, arg,
                 finished, due, calls, spurious>>

\* Mutant: a stopped worker leaves the queue as it is.
ExitAtOnce(w) ==
  /\ pc[w] = "lock" /\ mutex = Free
  /\ stop_
  /\ Goto(w, "exited")
  /\ UNCHANGED <<tasks, popped, mutex, stop_, active_tasks, job, seen, arg,
                 finished, due, calls, spurious>>

Exit(w) ==
  /\ pc[w] = "lock" /\ mutex = Free
  /\ Empty /\ stop_
  /\ Goto(w, "exited")
  /\ UNCHANGED <<tasks, popped, mutex, stop_, active_tasks, job, seen, arg,
                 finished, due, calls, spurious>>

\* Mutants: the task stays in the queue; the mutex is released between the
\* pop and the increment of active_tasks_.
PopKeeps(w) ==
  /\ pc[w] = "lock" /\ mutex = Free
  /\ ~Empty
  /\ mutex' = w
  /\ job' = [job EXCEPT ![w] = tasks[popped + 1]]
  /\ Goto(w, "popped")
  /\ UNCHANGED <<tasks, popped, stop_, active_tasks, seen, arg, finished, due,
                 calls, spurious>>

PopUnlocks(w) ==
  /\ pc[w] = "lock" /\ mutex = Free
  /\ ~Empty
  /\ popped' = popped + 1
  /\ job' = [job EXCEPT ![w] = tasks[popped + 1]]
  /\ Goto(w, "popped")
  /\ UNCHANGED <<tasks, mutex, stop_, active_tasks, seen, arg, finished, due,
                 calls, spurious>>

\* The queue shrinks before active_tasks_ grows, both under the mutex.
Pop(w) ==
  /\ pc[w] = "lock" /\ mutex = Free
  /\ ~Empty
  /\ mutex' = w
  /\ popped' = popped + 1
  /\ job' = [job EXCEPT ![w] = tasks[popped + 1]]
  /\ Goto(w, "popped")
  /\ UNCHANGED <<tasks, stop_, active_tasks, seen, arg, finished, due, calls,
                 spurious>>

\* Mutant: the task is not counted when it starts.
ActivateUncounted(w) ==
  /\ pc[w] = "popped"
  /\ mutex' = Free
  /\ Goto(w, "run")
  /\ UNCHANGED <<tasks, popped, stop_, active_tasks, job, seen, arg, finished,
                 due, calls, spurious>>

Activate(w) ==
  /\ pc[w] = "popped"
  /\ active_tasks' = active_tasks + 1
  /\ mutex' = Free
  /\ Goto(w, "run")
  /\ UNCHANGED <<tasks, popped, stop_, job, seen, arg, finished, due, calls,
                 spurious>>

\* The task returns, or throws what the worker swallows.
Run(w) ==
  /\ pc[w] = "run"
  /\ finished' = finished \cup {job[w]}
  /\ Goto(w, "ended")
  /\ UNCHANGED <<tasks, popped, mutex, stop_, active_tasks, job, seen, arg,
                 due, calls, spurious>>

Deactivate(w) ==
  /\ pc[w] = "ended"
  /\ active_tasks' = active_tasks - 1
  /\ job' = [job EXCEPT ![w] = NoTask]
  /\ Goto(w, "look")
  /\ UNCHANGED <<tasks, popped, mutex, stop_, seen, arg, finished, due, calls,
                 spurious>>

\* tasks_.empty() without the lock compares the two cursors of the deque,
\* read at different moments and in either order.
LookTail(w) ==
  /\ pc[w] = "look"
  /\ seen' = [seen EXCEPT ![w] = Len(tasks)]
  /\ Goto(w, "lookHead")
  /\ UNCHANGED <<tasks, popped, mutex, stop_, active_tasks, job, arg, finished,
                 due, calls, spurious>>

LookHead(w) ==
  /\ pc[w] = "look"
  /\ seen' = [seen EXCEPT ![w] = popped]
  /\ Goto(w, "lookTail")
  /\ UNCHANGED <<tasks, popped, mutex, stop_, active_tasks, job, arg, finished,
                 due, calls, spurious>>

Compare(w) ==
  /\ \/ pc[w] = "lookHead"
        /\ Goto(w, IF seen[w] = popped THEN "lookActive" ELSE "lock")
     \/ pc[w] = "lookTail"
        /\ Goto(w, IF seen[w] = Len(tasks) THEN "lookActive" ELSE "lock")
  /\ seen' = [seen EXCEPT ![w] = 0]
  /\ UNCHANGED <<tasks, popped, mutex, stop_, active_tasks, job, arg, finished,
                 due, calls, spurious>>

LookActive(w) ==
  /\ pc[w] = "lookActive"
  /\ Goto(w, IF active_tasks = 0 THEN "signal" ELSE "lock")
  /\ UNCHANGED <<tasks, popped, mutex, stop_, active_tasks, job, seen, arg,
                 finished, due, calls, spurious>>

\* notify_all wakes the clients asleep in wait(); one that has evaluated its
\* predicate and is not asleep yet does not hear it.
SignalDone(w) ==
  /\ pc[w] = "signal"
  /\ pc' = [t \in Worker \cup Client |->
              IF t = w THEN "lock"
              ELSE IF t \in Client /\ pc[t] = "asleep" THEN "wait"
              ELSE pc[t]]
  /\ UNCHANGED <<tasks, popped, mutex, stop_, active_tasks, job, seen, arg,
                 finished, due, calls, spurious>>

SpuriousWakeup(t) ==
  /\ pc[t] = "asleep" /\ spurious < SpuriousBound
  /\ spurious' = spurious + 1
  /\ Goto(t, IF t \in Worker THEN "lock" ELSE "wait")
  /\ UNCHANGED <<tasks, popped, mutex, stop_, active_tasks, job, seen, arg,
                 finished, due, calls>>

-----------------------------------------------------------------------------

WorkerStep(w) ==
  \/ Sleep(w) \/ Exit(w) \/ Pop(w) \/ Activate(w) \/ Run(w) \/ Deactivate(w)
  \/ LookTail(w) \/ LookHead(w) \/ Compare(w) \/ LookActive(w)
  \/ SignalDone(w)

ClientStep(c) ==
  \/ Enqueue(c) \/ NotifyOne(c)
  \/ WaitReturns(c) \/ WaitBlocks(c) \/ WaitSleeps(c)

StopStep == Stop \/ NotifyAll \/ JoinAll

Next ==
  \/ \E c \in Client : CallEnqueue(c) \/ CallWait(c) \/ ClientStep(c)
  \/ CallStop \/ StopStep
  \/ \E w \in Worker : WorkerStep(w)
  \/ \E t \in Worker \cup Client : SpuriousWakeup(t)

Spec == Init /\ [][Next]_vars

\* Every thread that can go on does: the mutex is only ever held for a few
\* instructions, and the tasks end.  No call has to be made and no wakeup has
\* to be spurious.
Fairness ==
  /\ \A w \in Worker : WF_vars(WorkerStep(w))
  /\ \A c \in Client : WF_vars(ClientStep(c))
  /\ WF_vars(StopStep)

FairSpec == Spec /\ Fairness

-----------------------------------------------------------------------------
(* Properties. *)

Accepted == {tasks[k] : k \in 1 .. Len(tasks)}

\* No task is lost and none is run twice: each accepted task is in the queue,
\* in the hands of exactly one worker, or finished.
TasksAccounted ==
  LET busy == {w \in Worker : pc[w] \in {"popped", "run"}}
      held == {job[w] : w \in busy}
  IN  /\ Accepted = Queued \cup held \cup finished
      /\ Queued \cap (held \cup finished) = {}
      /\ held \cap finished = {}
      /\ \A w, v \in busy : job[w] = job[v] => w = v

\* Concurrent.h:73 "Wait for all currently enqueued tasks to complete" and
\* Concurrent.h:84 "Existing tasks are completed": when wait() returns, what was
\* enqueued before it was called has finished, although a task that a worker
\* has popped is neither queued nor active for a moment; when stop() returns
\* every accepted task has, also those that raced with the call.
ReturnsWithWorkDone ==
  [][/\ \A c \in Client :
          pc[c] = "wait" /\ pc'[c] = "idle" => due[c] \subseteq finished
     /\ pc[Owner] = "join" /\ pc'[Owner] = "idle" => Accepted = finished]_vars

\* No wakeup of a worker is lost: an accepted task is run in the end, and the
\* workers all notice the stop and can be joined.
NoWakeupLost ==
  /\ \A t \in Task : t \in Accepted ~> t \in finished
  /\ pc[Owner] = "stop" ~> pc[Owner] = "idle"

\* The pool implements TaskPool: first in first out, each task once, at most
\* as many at a time as there are workers.
Tasks == INSTANCE TaskPool WITH
  NumWorkers <- Cardinality(Worker),
  accepted <- tasks, started <- popped, stopped <- stop_

ImplementsTaskPool == Tasks!TaskSpec

\* Concurrent.h:76 "Blocks until all workers finish current work", that is,
\* no longer: a call of wait() returns when the tasks have ended.
WaitEnds == \A c \in Client : pc[c] = "wait" ~> pc[c] = "idle"
=============================================================================
