-------------------------- MODULE ThreadPoolProofs --------------------------
(***************************************************************************)
(* Proofs about ThreadPool, for any set of workers, clients and tasks.     *)
(***************************************************************************)
EXTENDS ThreadPool, FiniteSetTheorems, TLAPS

USE ThreadPoolAssumption DEF ThreadPoolAssumption

-----------------------------------------------------------------------------
(* The inductive invariant. *)

\* The workers that have a task which has not ended, and those counted.
Busy == {w \in Worker : pc[w] \in {"popped", "run"}}
Active == {w \in Worker : pc[w] \in {"run", "ended"}}

Held == {job[w] : w \in Busy}

PlacesOK ==
  /\ pc \in [Worker \cup Client -> WorkerState \cup ClientState]
  /\ \A w \in Worker : pc[w] \in WorkerState
  /\ \A c \in Client : pc[c] \in ClientState

\* Each task is enqueued once.
Distinct == \A k, l \in 1 .. Len(tasks) : tasks[k] = tasks[l] => k = l

\* What clients are about to enqueue is new, and different for each.
ArgsFresh ==
  /\ \A c \in Client : arg[c] \notin Accepted
  /\ \A c \in Client : pc[c] = "enqueue" => arg[c] \in Task
  /\ \A c, d \in Client : arg[c] = arg[d] /\ arg[c] # NoTask => c = d

\* Who has popped a task and not counted it yet holds the mutex.
Locked ==
  /\ \A w \in Worker : pc[w] = "popped" => mutex = w
  /\ \A c \in Client : pc[c] = "sleep" => mutex = c

Counted == active_tasks = Cardinality(Active)

\* A worker leaves a stopped and empty queue, which stays so.
LeftStopped == \A w \in Worker : pc[w] = "exited" => stop_ /\ Empty

DueAccepted == \A c \in Client : due[c] \subseteq Accepted

IInv ==
  /\ TypeOK /\ TasksAccounted
  /\ Distinct /\ ArgsFresh /\ Locked /\ Counted /\ LeftStopped /\ DueAccepted

-----------------------------------------------------------------------------
(* Lemmas about the state. *)

LEMMA Accounted ==
  TasksAccounted <=>
    /\ Accepted = Queued \cup Held \cup finished
    /\ Queued \cap (Held \cup finished) = {}
    /\ Held \cap finished = {}
    /\ \A w, v \in Busy : job[w] = job[v] => w = v
BY DEF TasksAccounted, Held, Busy

LEMMA PlacesTyped == TypeOK => PlacesOK
BY DEF TypeOK, PlacesOK

LEMMA AcceptedTyped == TypeOK => Accepted \subseteq Task
BY DEF TypeOK, Accepted

\* Goto moves one thread.
LEMMA Moved ==
  ASSUME TypeOK, NEW t \in Worker \cup Client, NEW state,
         t \in Worker => state \in WorkerState,
         t \in Client => state \in ClientState,
         Goto(t, state)
  PROVE  /\ PlacesOK'
         /\ pc'[t] = state
         /\ \A u \in Worker \cup Client : u # t => pc'[u] = pc[u]
<1>1. pc'[t] = state /\ \A u \in Worker \cup Client : u # t => pc'[u] = pc[u]
  BY DEF Goto, TypeOK
<1>2. pc' \in [Worker \cup Client -> WorkerState \cup ClientState]
  BY DEF Goto, TypeOK
<1> QED BY <1>1, <1>2 DEF PlacesOK, TypeOK

\* The types of what a step that only moves threads may change.
ControlOK ==
  /\ mutex \in Worker \cup Client \cup {Free}
  /\ seen \in [Worker -> Nat]
  /\ arg \in [Client -> Task \cup {NoTask}]
  /\ due \in [Client -> SUBSET Task]
  /\ calls \in 0 .. CallBound /\ spurious \in 0 .. SpuriousBound

\* Nobody takes a task, counts one or ends one, and who leaves does so as the
\* loop says.
Moves ==
  /\ \A w \in Worker :
       /\ \/ pc'[w] = pc[w]
          \/ /\ pc[w] \notin {"popped", "run", "ended"}
             /\ pc'[w] \notin {"popped", "run", "ended"}
       /\ pc'[w] = "popped" => mutex' = w
       /\ pc'[w] = "exited" => pc[w] = "exited" \/ (stop_ /\ Empty)
  /\ \A c \in Client : pc'[c] = "sleep" => mutex' = c

\* A step that changes neither the tasks nor who has one.
LEMMA MoveIInv ==
  ASSUME IInv, PlacesOK', ControlOK', Moves,
         UNCHANGED <<tasks, popped, stop_, active_tasks, job, finished>>,
         ArgsFresh', DueAccepted'
  PROVE  IInv'
<1>1. Busy' = Busy /\ Active' = Active
  BY DEF Moves, Busy, Active
<1>2. Queued' = Queued /\ Accepted' = Accepted /\ Empty' = Empty
  BY DEF Queued, Accepted, Empty
<1>3. Held' = Held
  BY <1>1 DEF Held
<1>4. TypeOK'
  BY DEF IInv, TypeOK, PlacesOK, ControlOK
<1>5. TasksAccounted'
  <2>1. TasksAccounted' <=>
          /\ Accepted' = Queued' \cup Held' \cup finished'
          /\ Queued' \cap (Held' \cup finished') = {}
          /\ Held' \cap finished' = {}
          /\ \A w, v \in Busy' : job'[w] = job'[v] => w = v
    BY DEF TasksAccounted, Held, Busy
  <2> QED BY <1>1, <1>2, <1>3, <2>1, Accounted DEF IInv
<1>6. Distinct' /\ Counted'
  BY <1>1 DEF IInv, Distinct, Counted
<1>7. Locked' /\ LeftStopped'
  BY <1>2 DEF Moves, IInv, Locked, LeftStopped
<1> QED BY <1>4, <1>5, <1>6, <1>7 DEF IInv

-----------------------------------------------------------------------------

LEMMA InitIInv == Init => IInv
<1> SUFFICES ASSUME Init PROVE IInv
  OBVIOUS
<1>1. /\ \A w \in Worker : pc[w] = "lock"
      /\ \A c \in Client : pc[c] = "idle"
  BY DEF Init
<1>2. Busy = {} /\ Active = {} /\ Accepted = {} /\ Queued = {} /\ Held = {}
  BY <1>1 DEF Busy, Active, Held, Accepted, Queued, Init
<1>3. TypeOK
  <2>1. Cardinality(Worker) \in Nat
    BY FS_CardinalityType
  <2>2. PlacesOK
    BY <1>1 DEF Init, PlacesOK, WorkerState, ClientState
  <2>3. tasks \in Seq(Task) /\ popped \in 0 .. Len(tasks)
    BY DEF Init
  <2>4. active_tasks \in 0 .. Cardinality(Worker)
    BY <2>1 DEF Init
  <2>5. due \in [Client -> SUBSET Task]
    BY DEF Init
  <2> QED BY <2>2, <2>3, <2>4, <2>5 DEF Init, TypeOK, PlacesOK
<1>4. TasksAccounted
  BY <1>2, Accounted DEF Init
<1>5. Counted
  BY <1>2, FS_EmptySet DEF Init, Counted
<1>6. Distinct /\ ArgsFresh /\ Locked /\ LeftStopped /\ DueAccepted
  BY <1>1, <1>2 DEF Init, Distinct, ArgsFresh, Locked, LeftStopped, DueAccepted
<1> QED BY <1>3, <1>4, <1>5, <1>6 DEF IInv

\* The steps of clients that only move them, and wake others.
LEMMA ClientIInv ==
  ASSUME IInv, NEW c \in Client,
         \/ CallEnqueue(c) \/ NotifyOne(c)
         \/ CallWait(c) \/ WaitReturns(c) \/ WaitBlocks(c) \/ WaitSleeps(c)
  PROVE  IInv'
<1>1. TypeOK /\ ArgsFresh /\ Locked /\ DueAccepted /\ Accepted \subseteq Task
  BY AcceptedTyped DEF IInv
<1>2. c \notin Worker /\ \A w \in Worker : w # c
  OBVIOUS
<1>3. CASE CallEnqueue(c)
  <2>1. PICK t \in Fresh : arg' = [arg EXCEPT ![c] = t]
    BY <1>3 DEF CallEnqueue
  <2>2. t \in Task /\ t \notin Accepted /\ \A d \in Client : arg[d] # t
    BY <2>1 DEF Fresh, Accepted
  <2>3. PlacesOK' /\ pc'[c] = "enqueue" /\ \A u \in Worker \cup Client : u # c => pc'[u] = pc[u]
    BY <1>1, <1>2, <1>3, Moved DEF CallEnqueue, ClientState
  <2>4. Accepted' = Accepted
    BY <1>3 DEF CallEnqueue, Accepted
  <2>5. arg' \in [Client -> Task \cup {NoTask}] /\ calls' \in 0 .. CallBound
    BY <1>1, <1>3, <2>1, <2>2 DEF CallEnqueue, TypeOK
  <2>6. ArgsFresh'
    BY <1>1, <2>1, <2>2, <2>3, <2>4 DEF ArgsFresh, TypeOK
  <2>7. DueAccepted'
    BY <1>1, <1>3, <2>4 DEF CallEnqueue, DueAccepted
  <2>8. ControlOK'
    BY <1>1, <1>2, <1>3, <2>3, <2>5, <2>6, <2>7 DEF CallEnqueue, ControlOK, TypeOK
  <2>9. Moves
    BY <1>1, <1>2, <1>3, <2>3, <2>5, <2>6, <2>7 DEF CallEnqueue, Moves, Locked
  <2> QED BY <1>1, <1>2, <1>3, <2>3, <2>5, <2>6, <2>7, <2>8, <2>9, MoveIInv DEF CallEnqueue
<1>4. CASE NotifyOne(c)
  <2>1. /\ \A u \in Worker \cup Client :
             \/ pc'[u] = pc[u]
             \/ u = c /\ pc'[u] = "idle"
             \/ u \in Worker /\ pc[u] = "asleep" /\ pc'[u] = "lock"
        /\ PlacesOK'
    <3>1. CASE Goto(c, "idle")
      BY <1>1, <1>2, <3>1, Moved DEF ClientState
    <3>2. CASE \E w \in Worker : pc[w] = "asleep" /\ pc' = [pc EXCEPT ![c] = "idle", ![w] = "lock"]
      BY <1>1, <1>2, <3>2 DEF PlacesOK, TypeOK, WorkerState, ClientState
    <3> QED BY <1>4, <3>1, <3>2 DEF NotifyOne
  <2>2. Accepted' = Accepted
    BY <1>4 DEF NotifyOne, Accepted
  <2>3. ArgsFresh' /\ DueAccepted'
    BY <1>1, <1>2, <1>4, <2>1, <2>2 DEF NotifyOne, ArgsFresh, DueAccepted
  <2>8. ControlOK'
    BY <1>1, <1>2, <1>4, <2>1, <2>3 DEF NotifyOne, ControlOK, TypeOK
  <2>9. Moves
    BY <1>1, <1>2, <1>4, <2>1, <2>3 DEF NotifyOne, Moves, Locked
  <2> QED BY <1>1, <1>2, <1>4, <2>1, <2>3, <2>8, <2>9, MoveIInv DEF NotifyOne
<1>5. CASE CallWait(c)
  <2>1. PlacesOK' /\ pc'[c] = "wait" /\ \A u \in Worker \cup Client : u # c => pc'[u] = pc[u]
    BY <1>1, <1>2, <1>5, Moved DEF CallWait, ClientState
  <2>2. Accepted' = Accepted /\ due' = [due EXCEPT ![c] = Accepted]
    BY <1>5 DEF CallWait, Accepted
  <2>3. due' \in [Client -> SUBSET Task] /\ calls' \in 0 .. CallBound
    BY <1>1, <1>5, <2>2 DEF CallWait, TypeOK
  <2>4. ArgsFresh' /\ DueAccepted'
    BY <1>1, <1>5, <2>1, <2>2 DEF CallWait, ArgsFresh, DueAccepted, TypeOK
  <2>8. ControlOK'
    BY <1>1, <1>2, <1>5, <2>1, <2>3, <2>4 DEF CallWait, ControlOK, TypeOK
  <2>9. Moves
    BY <1>1, <1>2, <1>5, <2>1, <2>3, <2>4 DEF CallWait, Moves, Locked
  <2> QED BY <1>1, <1>2, <1>5, <2>1, <2>3, <2>4, <2>8, <2>9, MoveIInv DEF CallWait
<1>6. CASE WaitReturns(c)
  <2>1. PlacesOK' /\ pc'[c] = "idle" /\ \A u \in Worker \cup Client : u # c => pc'[u] = pc[u]
    BY <1>1, <1>2, <1>6, Moved DEF WaitReturns, ClientState
  <2>2. Accepted' = Accepted
    BY <1>6 DEF WaitReturns, Accepted
  <2>3. due' \in [Client -> SUBSET Task]
    BY <1>1, <1>6 DEF WaitReturns, TypeOK
  <2>4. ArgsFresh' /\ DueAccepted'
    BY <1>1, <1>6, <2>1, <2>2 DEF WaitReturns, ArgsFresh, DueAccepted, TypeOK
  <2>8. ControlOK'
    BY <1>1, <1>2, <1>6, <2>1, <2>3, <2>4 DEF WaitReturns, ControlOK, TypeOK
  <2>9. Moves
    BY <1>1, <1>2, <1>6, <2>1, <2>3, <2>4 DEF WaitReturns, Moves, Locked
  <2> QED BY <1>1, <1>2, <1>6, <2>1, <2>3, <2>4, <2>8, <2>9, MoveIInv DEF WaitReturns
<1>7. CASE WaitBlocks(c)
  <2>1. PlacesOK' /\ pc'[c] = "sleep" /\ \A u \in Worker \cup Client : u # c => pc'[u] = pc[u]
    BY <1>1, <1>2, <1>7, Moved DEF WaitBlocks, ClientState
  <2>2. Accepted' = Accepted
    BY <1>7 DEF WaitBlocks, Accepted
  <2>3. ArgsFresh' /\ DueAccepted'
    BY <1>1, <1>7, <2>1, <2>2 DEF WaitBlocks, ArgsFresh, DueAccepted
  <2>8. ControlOK'
    BY <1>1, <1>2, <1>7, <2>1, <2>3 DEF WaitBlocks, ControlOK, TypeOK
  <2>9. Moves
    BY <1>1, <1>2, <1>7, <2>1, <2>3 DEF WaitBlocks, Moves, Locked
  <2> QED BY <1>1, <1>2, <1>7, <2>1, <2>3, <2>8, <2>9, MoveIInv DEF WaitBlocks
<1>8. CASE WaitSleeps(c)
  <2>1. PlacesOK' /\ pc'[c] = "asleep" /\ \A u \in Worker \cup Client : u # c => pc'[u] = pc[u]
    BY <1>1, <1>2, <1>8, Moved DEF WaitSleeps, ClientState
  <2>2. Accepted' = Accepted
    BY <1>8 DEF WaitSleeps, Accepted
  <2>3. ArgsFresh' /\ DueAccepted'
    BY <1>1, <1>8, <2>1, <2>2 DEF WaitSleeps, ArgsFresh, DueAccepted
  <2>4. mutex = c
    BY <1>1, <1>8 DEF WaitSleeps, Locked
  <2>8. ControlOK'
    BY <1>1, <1>2, <1>8, <2>1, <2>3, <2>4 DEF WaitSleeps, ControlOK, TypeOK
  <2>9. Moves
    BY <1>1, <1>2, <1>8, <2>1, <2>3, <2>4 DEF WaitSleeps, Moves, Locked
  <2> QED BY <1>1, <1>2, <1>8, <2>1, <2>3, <2>4, <2>8, <2>9, MoveIInv DEF WaitSleeps
<1> QED BY <1>3, <1>4, <1>5, <1>6, <1>7, <1>8

\* The owner's steps of stop() that change no data.
LEMMA OwnerIInv ==
  ASSUME IInv, CallStop \/ NotifyAll \/ JoinAll
  PROVE  IInv'
<1>1. TypeOK /\ ArgsFresh /\ Locked /\ DueAccepted /\ Owner \notin Worker
  BY DEF IInv
<1>2. /\ PlacesOK'
      /\ \A u \in Worker \cup Client :
           \/ pc'[u] = pc[u]
           \/ u = Owner /\ pc'[u] \in {"stop", "join", "idle"}
           \/ u \in Worker /\ pc[u] = "asleep" /\ pc'[u] = "lock"
  <2>1. CASE CallStop
    BY <1>1, <2>1, Moved DEF CallStop, ClientState
  <2>2. CASE NotifyAll
    BY <1>1, <2>2 DEF NotifyAll, PlacesOK, TypeOK, WorkerState, ClientState
  <2>3. CASE JoinAll
    BY <1>1, <2>3, Moved DEF JoinAll, ClientState
  <2> QED BY <2>1, <2>2, <2>3
<1>3. /\ UNCHANGED <<tasks, popped, mutex, stop_, active_tasks, job, seen, arg,
                      finished, due, spurious>>
      /\ calls' \in 0 .. CallBound
  BY <1>1 DEF CallStop, NotifyAll, JoinAll, TypeOK
<1>4. Accepted' = Accepted
  BY <1>3 DEF Accepted
<1>5. ArgsFresh' /\ DueAccepted'
  BY <1>1, <1>2, <1>3, <1>4 DEF ArgsFresh, DueAccepted
<1>8. ControlOK'
  BY <1>1, <1>2, <1>3, <1>5 DEF ControlOK, TypeOK
<1>9. Moves
  BY <1>1, <1>2, <1>3, <1>5 DEF Moves, Locked
<1> QED BY <1>1, <1>2, <1>3, <1>5, <1>8, <1>9, MoveIInv

\* The steps of a worker between tasks, and wakeups.
LEMMA WorkerIInv ==
  ASSUME IInv, NEW t \in Worker \cup Client,
         \/ SpuriousWakeup(t)
         \/ /\ t \in Worker
            /\ \/ Sleep(t) \/ Exit(t) \/ LookTail(t) \/ LookHead(t) \/ Compare(t)
               \/ LookActive(t) \/ SignalDone(t)
  PROVE  IInv'
<1>1. TypeOK /\ ArgsFresh /\ Locked /\ DueAccepted
  BY DEF IInv
<1>2. /\ UNCHANGED <<tasks, popped, mutex, stop_, active_tasks, job, arg,
                      finished, due, calls>>
      /\ seen' \in [Worker -> Nat] /\ spurious' \in 0 .. SpuriousBound
  <2>1. Len(tasks) \in Nat /\ popped \in Nat
    BY <1>1 DEF TypeOK
  <2>2. \/ seen' = seen
        \/ seen' = [seen EXCEPT ![t] = Len(tasks)]
        \/ seen' = [seen EXCEPT ![t] = popped]
        \/ seen' = [seen EXCEPT ![t] = 0]
    BY DEF SpuriousWakeup, Sleep, Exit, LookTail, LookHead, Compare, LookActive,
           SignalDone
  <2>3. seen' \in [Worker -> Nat]
    BY <1>1, <2>1, <2>2 DEF TypeOK
  <2>4. spurious' = spurious \/ (spurious < SpuriousBound /\ spurious' = spurious + 1)
    BY DEF SpuriousWakeup, Sleep, Exit, LookTail, LookHead, Compare, LookActive,
           SignalDone
  <2> QED BY <1>1, <2>3, <2>4 DEF SpuriousWakeup, Sleep, Exit, LookTail, LookHead,
             Compare, LookActive, SignalDone, TypeOK
<1>3. /\ PlacesOK'
      /\ \A u \in Worker \cup Client :
           \/ pc'[u] = pc[u]
           \/ /\ pc[u] \notin {"popped", "run", "ended", "sleep", "enqueue"}
              /\ pc'[u] \notin {"popped", "run", "ended", "sleep", "enqueue"}
              /\ pc'[u] = "exited" => stop_ /\ Empty
  <2>1. CASE SignalDone(t) /\ t \in Worker
    BY <1>1, <2>1 DEF SignalDone, PlacesOK, TypeOK, WorkerState, ClientState
  <2>2. CASE SpuriousWakeup(t)
    BY <1>1, <2>2, Moved DEF SpuriousWakeup, WorkerState, ClientState
  <2>3. CASE /\ t \in Worker
             /\ \/ Sleep(t) \/ Exit(t) \/ LookTail(t) \/ LookHead(t) \/ Compare(t)
                \/ LookActive(t)
    <3>1. PICK state \in {"asleep", "exited", "lookHead", "lookTail", "lookActive",
                          "lock", "signal"} :
            /\ Goto(t, state)
            /\ state = "exited" => stop_ /\ Empty
            /\ pc[t] \in {"lock", "look", "lookHead", "lookTail", "lookActive"}
      BY <2>3 DEF Sleep, Exit, LookTail, LookHead, Compare, LookActive
    <3>2. t \notin Client /\ state \in WorkerState
      BY <2>3, <3>1 DEF WorkerState
    <3> QED BY <1>1, <3>1, <3>2, Moved
  <2> QED BY <2>1, <2>2, <2>3
<1>4. Accepted' = Accepted
  BY <1>2 DEF Accepted
<1>5. ArgsFresh' /\ DueAccepted'
  BY <1>1, <1>2, <1>3, <1>4 DEF ArgsFresh, DueAccepted
<1>8. ControlOK'
  BY <1>1, <1>2, <1>3, <1>5 DEF ControlOK, TypeOK
<1>9. Moves
  BY <1>1, <1>2, <1>3, <1>5 DEF Moves, Locked
<1> QED BY <1>1, <1>2, <1>3, <1>5, <1>8, <1>9, MoveIInv

-----------------------------------------------------------------------------
(* The steps that move a task. *)

\* What a new task changes.
LEMMA Appended ==
  ASSUME TypeOK, NEW t \in Task, tasks' = Append(tasks, t), popped' = popped
  PROVE  /\ tasks' \in Seq(Task) /\ popped' \in 0 .. Len(tasks')
         /\ Len(tasks') = Len(tasks) + 1
         /\ tasks'[Len(tasks')] = t
         /\ \A k \in 1 .. Len(tasks) : tasks'[k] = tasks[k]
         /\ Accepted' = Accepted \cup {t} /\ Queued' = Queued \cup {t}
<1>1. /\ tasks' \in Seq(Task) /\ Len(tasks') = Len(tasks) + 1
      /\ Len(tasks) \in Nat /\ popped \in 0 .. Len(tasks)
      /\ tasks'[Len(tasks')] = t
      /\ \A k \in 1 .. Len(tasks) : tasks'[k] = tasks[k]
  BY DEF TypeOK
<1>2. Accepted' = Accepted \cup {t}
  BY <1>1 DEF Accepted
<1>3. Queued' = Queued \cup {t}
  BY <1>1 DEF Queued
<1> QED BY <1>1, <1>2, <1>3

LEMMA EnqueueIInv ==
  ASSUME IInv, NEW c \in Client, Enqueue(c)
  PROVE  IInv'
<1>1. TypeOK /\ ArgsFresh /\ Locked /\ DueAccepted /\ Accepted \subseteq Task
  BY AcceptedTyped DEF IInv
<1>2. /\ pc[c] = "enqueue" /\ PlacesOK' /\ pc'[c] \in {"idle", "notify"}
      /\ \A u \in Worker \cup Client : u # c => pc'[u] = pc[u]
  BY <1>1, Moved DEF Enqueue, ClientState
<1>3. arg[c] \in Task /\ arg[c] \notin Accepted
  BY <1>1, <1>2 DEF ArgsFresh
<1>4. ControlOK'
  BY <1>1 DEF Enqueue, ControlOK, TypeOK
<1>5. /\ arg'[c] = NoTask /\ NoTask \notin Task
      /\ \A d \in Client : d # c => arg'[d] = arg[d]
  BY <1>1 DEF Enqueue, TypeOK
<1>6. CASE stop_
  <2>1. UNCHANGED <<tasks, popped, stop_, active_tasks, job, finished, mutex, due>>
    BY <1>6 DEF Enqueue
  <2>2. Accepted' = Accepted
    BY <2>1 DEF Accepted
  <2>3. ArgsFresh'
    BY <1>1, <1>2, <1>5, <2>2 DEF ArgsFresh
  <2>4. DueAccepted'
    BY <1>1, <2>1, <2>2 DEF DueAccepted
  <2>5. Moves
    BY <1>1, <1>2, <2>1 DEF Moves, Locked
  <2> QED BY <1>2, <1>4, <2>1, <2>3, <2>4, <2>5, MoveIInv
<1>7. CASE ~stop_
  <2>1. /\ UNCHANGED <<popped, stop_, active_tasks, job, finished, mutex, due>>
        /\ tasks' = Append(tasks, arg[c])
    BY <1>7 DEF Enqueue
  <2>2. /\ tasks' \in Seq(Task) /\ popped' \in 0 .. Len(tasks')
        /\ Len(tasks') = Len(tasks) + 1 /\ Len(tasks) \in Nat
        /\ tasks'[Len(tasks')] = arg[c]
        /\ \A k \in 1 .. Len(tasks) : tasks'[k] = tasks[k]
        /\ Accepted' = Accepted \cup {arg[c]} /\ Queued' = Queued \cup {arg[c]}
    BY <1>1, <1>3, <2>1, Appended DEF TypeOK
  <2>3. Busy' = Busy /\ Active' = Active /\ Held' = Held
    <3>1. \A w \in Worker : pc'[w] = pc[w]
      BY <1>2
    <3>2. Busy' = Busy /\ Active' = Active
      BY <3>1 DEF Busy, Active
    <3> QED BY <2>1, <3>2 DEF Held
  <2>4. TypeOK'
    BY <1>1, <1>2, <1>4, <2>1, <2>2 DEF TypeOK, ControlOK, PlacesOK
  <2>5. TasksAccounted'
    <3>1. /\ Accepted' = Queued' \cup Held' \cup finished'
          /\ Queued' \cap (Held' \cup finished') = {}
      BY <1>3, <2>1, <2>2, <2>3, Accounted DEF IInv
    <3>2. /\ Held' \cap finished' = {}
          /\ \A w, v \in Busy' : job'[w] = job'[v] => w = v
      BY <2>1, <2>3, Accounted DEF IInv
    <3> QED BY <3>1, <3>2 DEF TasksAccounted, Held, Busy
  <2>6. Distinct'
    <3>1. \A k \in 1 .. Len(tasks) : tasks[k] # arg[c]
      BY <1>3 DEF Accepted
    <3>2. \A k \in 1 .. Len(tasks') : k \in 1 .. Len(tasks) \/ k = Len(tasks')
      BY <2>2
    <3> QED BY <2>2, <3>1, <3>2 DEF IInv, Distinct
  <2>7. ArgsFresh'
    BY <1>1, <1>2, <1>3, <1>5, <2>2 DEF ArgsFresh
  <2>8. Locked'
    BY <1>1, <1>2, <2>1 DEF Locked
  <2>9. Counted' /\ DueAccepted'
    BY <2>1, <2>2, <2>3 DEF IInv, Counted, DueAccepted
  <2>10. LeftStopped'
    BY <1>2, <1>7 DEF IInv, LeftStopped, PlacesOK
  <2> QED BY <2>4, <2>5, <2>6, <2>7, <2>8, <2>9, <2>10 DEF IInv
<1> QED BY <1>6, <1>7

LEMMA StopIInv ==
  ASSUME IInv, Stop
  PROVE  IInv'
<1>1. /\ TypeOK /\ PlacesOK' /\ pc'[Owner] = "notifyAll"
      /\ \A u \in Worker \cup Client : u # Owner => pc'[u] = pc[u]
      /\ stop_' = TRUE
      /\ UNCHANGED <<tasks, popped, mutex, active_tasks, job, seen, arg, finished,
                      due, calls, spurious>>
  BY Moved DEF IInv, Stop, ClientState
<1>2. \A w \in Worker : pc'[w] = pc[w]
  BY <1>1
<1>3. Busy' = Busy /\ Active' = Active /\ Held' = Held
  BY <1>1, <1>2 DEF Busy, Active, Held
<1>4. Queued' = Queued /\ Accepted' = Accepted /\ Empty' = Empty
  BY <1>1 DEF Queued, Accepted, Empty
<1>5. TypeOK'
  BY <1>1 DEF TypeOK, PlacesOK
<1>6. TasksAccounted'
  <2>1. TasksAccounted' <=>
          /\ Accepted' = Queued' \cup Held' \cup finished'
          /\ Queued' \cap (Held' \cup finished') = {}
          /\ Held' \cap finished' = {}
          /\ \A w, v \in Busy' : job'[w] = job'[v] => w = v
    BY DEF TasksAccounted, Held, Busy
  <2> QED BY <1>1, <1>3, <1>4, <2>1, Accounted DEF IInv
<1>7. Distinct' /\ Counted' /\ DueAccepted'
  BY <1>1, <1>3, <1>4 DEF IInv, Distinct, Counted, DueAccepted
<1>8. ArgsFresh' /\ Locked' /\ LeftStopped'
  BY <1>1, <1>2, <1>4 DEF IInv, ArgsFresh, Locked, LeftStopped
<1> QED BY <1>5, <1>6, <1>7, <1>8 DEF IInv

LEMMA PopIInv ==
  ASSUME IInv, NEW w \in Worker, Pop(w)
  PROVE  IInv'
<1>1. /\ TypeOK /\ PlacesOK' /\ pc[w] = "lock" /\ pc'[w] = "popped"
      /\ \A u \in Worker \cup Client : u # w => pc'[u] = pc[u]
      /\ popped' = popped + 1 /\ mutex = Free /\ mutex' = w
      /\ UNCHANGED <<tasks, stop_, active_tasks, seen, arg, finished, due, calls,
                      spurious>>
  BY Moved DEF IInv, Pop, WorkerState
<1>2. popped < Len(tasks) /\ popped \in Nat /\ Len(tasks) \in Nat
  BY <1>1 DEF TypeOK, Pop, Empty
<1> DEFINE first == tasks[popped + 1]
<1>3. first \in Task
  BY <1>1, <1>2 DEF TypeOK
<1>4. Queued = Queued' \cup {first} /\ first \notin Queued' /\ Accepted' = Accepted
  <2>1. Accepted' = Accepted
    BY <1>1 DEF Accepted
  <2>2. Queued = Queued' \cup {first}
    BY <1>1, <1>2 DEF Queued
  <2>3. \A k \in popped + 2 .. Len(tasks) : tasks[k] # first
    BY <1>2 DEF IInv, Distinct
  <2> QED BY <1>1, <1>2, <2>1, <2>2, <2>3 DEF Queued
<1>5. /\ job' \in [Worker -> Task \cup {NoTask}] /\ job'[w] = first
      /\ \A v \in Worker : v # w => job'[v] = job[v]
  BY <1>1, <1>3 DEF Pop, TypeOK
<1> HIDE DEF first
<1>6. /\ Busy' = Busy \cup {w} /\ w \notin Busy /\ Active' = Active
  BY <1>1 DEF Busy, Active
<1>7. Held' = Held \cup {first}
  BY <1>5, <1>6 DEF Held, Busy
<1>8. TypeOK'
  BY <1>1, <1>2, <1>5 DEF TypeOK, PlacesOK
<1>9. TasksAccounted'
  <2>1. /\ Accepted' = Queued' \cup Held' \cup finished'
        /\ Queued' \cap (Held' \cup finished') = {}
        /\ Held' \cap finished' = {}
    BY <1>1, <1>4, <1>7, Accounted DEF IInv
  <2>2. \A v \in Busy : job[v] # first
    BY <1>4, Accounted DEF IInv, Held
  <2>3. \A u, v \in Busy' : job'[u] = job'[v] => u = v
    BY <1>5, <1>6, <2>2, Accounted DEF IInv, Busy
  <2> QED BY <2>1, <2>3 DEF TasksAccounted, Held, Busy
<1>10. Distinct' /\ Counted' /\ DueAccepted'
  BY <1>1, <1>4, <1>6 DEF IInv, Distinct, Counted, DueAccepted
<1>11. ArgsFresh' /\ Locked'
  BY <1>1, <1>4 DEF IInv, ArgsFresh, Locked
<1>12. LeftStopped'
  BY <1>1, <1>2 DEF IInv, LeftStopped, Empty
<1> QED BY <1>8, <1>9, <1>10, <1>11, <1>12 DEF IInv

LEMMA ActivateIInv ==
  ASSUME IInv, NEW w \in Worker, Activate(w)
  PROVE  IInv'
<1>1. /\ TypeOK /\ PlacesOK' /\ pc[w] = "popped" /\ pc'[w] = "run"
      /\ \A u \in Worker \cup Client : u # w => pc'[u] = pc[u]
      /\ mutex' = Free /\ active_tasks' = active_tasks + 1
      /\ UNCHANGED <<tasks, popped, stop_, job, seen, arg, finished, due, calls,
                      spurious>>
  BY Moved DEF IInv, Activate, WorkerState
<1>2. Queued' = Queued /\ Accepted' = Accepted /\ Empty' = Empty
  BY <1>1 DEF Queued, Accepted, Empty
<1>3. Busy' = Busy /\ Held' = Held
  <2>1. Busy' = Busy
    BY <1>1 DEF Busy
  <2> QED BY <1>1, <2>1 DEF Held
<1>4. Active' = Active \cup {w} /\ w \notin Active
  BY <1>1 DEF Active
<1>5. active_tasks' = Cardinality(Active') /\ active_tasks' \in 0 .. Cardinality(Worker)
  <2>1. IsFiniteSet(Active)
    BY FS_Subset DEF Active
  <2>2. Cardinality(Active') = Cardinality(Active) + 1
    BY <1>4, <2>1, FS_AddElement
  <2>3. Active' \subseteq Worker /\ IsFiniteSet(Worker)
    BY DEF Active
  <2>4. Cardinality(Active') <= Cardinality(Worker) /\ IsFiniteSet(Active')
    BY <2>3, FS_Subset
  <2>5. Cardinality(Active') \in Nat /\ Cardinality(Worker) \in Nat
    BY <2>3, <2>4, FS_CardinalityType
  <2> QED BY <1>1, <2>2, <2>4, <2>5 DEF IInv, Counted
<1>6. TypeOK'
  BY <1>1, <1>5 DEF TypeOK, PlacesOK
<1>7. TasksAccounted'
  <2>1. TasksAccounted' <=>
          /\ Accepted' = Queued' \cup Held' \cup finished'
          /\ Queued' \cap (Held' \cup finished') = {}
          /\ Held' \cap finished' = {}
          /\ \A u, v \in Busy' : job'[u] = job'[v] => u = v
    BY DEF TasksAccounted, Held, Busy
  <2> QED BY <1>1, <1>2, <1>3, <2>1, Accounted DEF IInv
<1>8. Distinct' /\ DueAccepted' /\ ArgsFresh'
  BY <1>1, <1>2 DEF IInv, Distinct, DueAccepted, ArgsFresh
<1>9. Locked'
  <2>1. mutex = w
    BY <1>1 DEF IInv, Locked
  <2> QED BY <1>1, <2>1 DEF IInv, Locked
<1>10. LeftStopped'
  BY <1>1, <1>2 DEF IInv, LeftStopped
<1> QED BY <1>5, <1>6, <1>7, <1>8, <1>9, <1>10 DEF IInv, Counted

LEMMA RunIInv ==
  ASSUME IInv, NEW w \in Worker, Run(w)
  PROVE  IInv'
<1>1. /\ TypeOK /\ PlacesOK' /\ pc[w] = "run" /\ pc'[w] = "ended"
      /\ \A u \in Worker \cup Client : u # w => pc'[u] = pc[u]
      /\ finished' = finished \cup {job[w]}
      /\ UNCHANGED <<tasks, popped, mutex, stop_, active_tasks, job, seen, arg,
                      due, calls, spurious>>
  BY Moved DEF IInv, Run, WorkerState
<1>2. Queued' = Queued /\ Accepted' = Accepted /\ Empty' = Empty
  BY <1>1 DEF Queued, Accepted, Empty
<1>3. Busy = Busy' \cup {w} /\ w \notin Busy' /\ Active' = Active
  BY <1>1 DEF Busy, Active
<1>4. Held = Held' \cup {job[w]}
  BY <1>1, <1>3 DEF Held
<1>5. job[w] \notin Held'
  BY <1>1, <1>3, Accounted DEF IInv, Held
<1>6. job[w] \in Task
  BY <1>4, Accounted, AcceptedTyped DEF IInv
<1>7. TypeOK'
  BY <1>1, <1>6 DEF TypeOK, PlacesOK
<1>8. TasksAccounted'
  <2>1. /\ Accepted' = Queued' \cup Held' \cup finished'
        /\ Queued' \cap (Held' \cup finished') = {}
        /\ Held' \cap finished' = {}
    BY <1>1, <1>2, <1>4, <1>5, Accounted DEF IInv
  <2>2. \A u, v \in Busy' : job'[u] = job'[v] => u = v
    BY <1>1, <1>3, Accounted DEF IInv
  <2> QED BY <2>1, <2>2 DEF TasksAccounted, Held, Busy
<1>9. Distinct' /\ DueAccepted' /\ ArgsFresh' /\ Counted'
  BY <1>1, <1>2, <1>3 DEF IInv, Distinct, DueAccepted, ArgsFresh, Counted
<1>10. Locked' /\ LeftStopped'
  BY <1>1, <1>2 DEF IInv, Locked, LeftStopped
<1> QED BY <1>7, <1>8, <1>9, <1>10 DEF IInv

LEMMA DeactivateIInv ==
  ASSUME IInv, NEW w \in Worker, Deactivate(w)
  PROVE  IInv'
<1>1. /\ TypeOK /\ PlacesOK' /\ pc[w] = "ended" /\ pc'[w] = "look"
      /\ \A u \in Worker \cup Client : u # w => pc'[u] = pc[u]
      /\ active_tasks' = active_tasks - 1
      /\ UNCHANGED <<tasks, popped, mutex, stop_, seen, arg, finished, due, calls,
                      spurious>>
  BY Moved DEF IInv, Deactivate, WorkerState
<1>2. Queued' = Queued /\ Accepted' = Accepted /\ Empty' = Empty
  BY <1>1 DEF Queued, Accepted, Empty
<1>3. /\ job' \in [Worker -> Task \cup {NoTask}]
      /\ \A v \in Worker : v # w => job'[v] = job[v]
  BY <1>1 DEF Deactivate, TypeOK
<1>4. Busy' = Busy /\ w \notin Busy /\ Active' = Active \ {w} /\ w \in Active
  BY <1>1 DEF Busy, Active
<1>5. Held' = Held /\ \A v \in Busy : job'[v] = job[v]
  BY <1>3, <1>4 DEF Held, Busy
<1>6. active_tasks' = Cardinality(Active') /\ active_tasks' \in 0 .. Cardinality(Worker)
  <2>1. IsFiniteSet(Active)
    BY FS_Subset DEF Active
  <2>2. Cardinality(Active') = Cardinality(Active) - 1 /\ IsFiniteSet(Active')
    BY <1>4, <2>1, FS_RemoveElement
  <2>3. Cardinality(Active') \in Nat
    BY <2>2, FS_CardinalityType
  <2>4. active_tasks \in 0 .. Cardinality(Worker) /\ Cardinality(Worker) \in Nat
    BY <1>1, FS_CardinalityType DEF TypeOK
  <2> QED BY <1>1, <2>2, <2>3, <2>4 DEF IInv, Counted
<1>7. TypeOK'
  BY <1>1, <1>3, <1>6 DEF TypeOK, PlacesOK
<1>8. TasksAccounted'
  <2>1. /\ Accepted' = Queued' \cup Held' \cup finished'
        /\ Queued' \cap (Held' \cup finished') = {}
        /\ Held' \cap finished' = {}
        /\ \A u, v \in Busy' : job'[u] = job'[v] => u = v
    BY <1>1, <1>2, <1>4, <1>5, Accounted DEF IInv
  <2> QED BY <2>1 DEF TasksAccounted, Held, Busy
<1>9. Distinct' /\ DueAccepted' /\ ArgsFresh'
  BY <1>1, <1>2 DEF IInv, Distinct, DueAccepted, ArgsFresh
<1>10. Locked' /\ LeftStopped'
  BY <1>1, <1>2 DEF IInv, Locked, LeftStopped
<1> QED BY <1>6, <1>7, <1>8, <1>9, <1>10 DEF IInv, Counted

-----------------------------------------------------------------------------
(* The invariant. *)

LEMMA NextIInv == IInv /\ [Next]_vars => IInv'
<1> SUFFICES ASSUME IInv, [Next]_vars PROVE IInv'
  OBVIOUS
<1>1. CASE UNCHANGED vars
  <2>1. UNCHANGED <<tasks, popped, mutex, stop_, active_tasks, pc, job, seen, arg,
                    finished, due, calls, spurious>>
    BY <1>1 DEF vars
  <2>2. Accepted' = Accepted
    BY <2>1 DEF Accepted
  <2>3. ArgsFresh' /\ DueAccepted'
    BY <2>1, <2>2 DEF IInv, ArgsFresh, DueAccepted
  <2>4. PlacesOK' /\ ControlOK'
    BY <2>1 DEF IInv, TypeOK, PlacesOK, ControlOK
  <2>5. Moves
    BY <2>1 DEF IInv, Moves, Locked
  <2> QED BY <2>1, <2>3, <2>4, <2>5, MoveIInv
<1>2. CASE \E c \in Client : CallEnqueue(c) \/ CallWait(c) \/ ClientStep(c)
  BY <1>2, ClientIInv, EnqueueIInv DEF ClientStep
<1>3. CASE CallStop \/ StopStep
  BY <1>3, OwnerIInv, StopIInv DEF StopStep
<1>4. CASE \E w \in Worker : WorkerStep(w)
  <2>1. PICK w \in Worker : WorkerStep(w)
    BY <1>4
  <2>2. CASE Pop(w) \/ Activate(w) \/ Run(w) \/ Deactivate(w)
    BY <2>2, PopIInv, ActivateIInv, RunIInv, DeactivateIInv
  <2>3. CASE \/ Sleep(w) \/ Exit(w) \/ LookTail(w) \/ LookHead(w) \/ Compare(w)
             \/ LookActive(w) \/ SignalDone(w)
    <3>1. w \in Worker \cup Client
      OBVIOUS
    <3> QED BY <2>3, <3>1, WorkerIInv
  <2> QED BY <2>1, <2>2, <2>3 DEF WorkerStep
<1>5. CASE \E t \in Worker \cup Client : SpuriousWakeup(t)
  BY <1>5, WorkerIInv
<1> QED BY <1>1, <1>2, <1>3, <1>4, <1>5 DEF Next

\* The pool's invariant: tasks are queued once and in one place, active_tasks_
\* counts the workers between its increment and its decrement, and a worker
\* that has popped and not counted holds the mutex.
THEOREM ThreadPoolInvariant == Spec => []IInv
<1>1. Init => IInv
  BY InitIInv
<1>2. IInv /\ [Next]_vars => IInv'
  BY NextIInv
<1> QED BY <1>1, <1>2, PTL DEF Spec

\* active_tasks_ never goes below zero nor above the number of workers, and
\* every thread is where its loop can be.
THEOREM ThreadPoolTypeCorrect == Spec => []TypeOK
<1>1. IInv => TypeOK
  BY DEF IInv
<1> QED BY <1>1, ThreadPoolInvariant, PTL

\* No task that enqueue() accepted is lost and none is run twice, whatever
\* interleaving of clients, workers, stop() and spurious wakeups.
THEOREM EveryTaskAccounted == Spec => []TasksAccounted
<1>1. IInv => TasksAccounted
  BY DEF IInv
<1> QED BY <1>1, ThreadPoolInvariant, PTL

-----------------------------------------------------------------------------
(* What wait() and stop() return on. *)

\* Only the return of wait() takes a client from wait to idle, and only the
\* joins take the owner from join to idle.
LEMMA WhoReturns ==
  ASSUME IInv, [Next]_vars
  PROVE  /\ \A c \in Client : pc[c] = "wait" /\ pc'[c] = "idle" => WaitReturns(c)
         /\ pc[Owner] = "join" /\ pc'[Owner] = "idle" => JoinAll
<1>1. TypeOK /\ Owner \notin Worker
  BY DEF IInv
<1> DEFINE Returned(c) == \/ pc[c] = "wait" /\ pc'[c] = "idle"
                          \/ pc[c] = "join" /\ pc'[c] = "idle"
<1> DEFINE Goal == \A c \in Client : Returned(c) => FALSE
<1>2. CASE UNCHANGED vars
  BY <1>2 DEF vars
<1>3. ASSUME NEW d \in Client,
             \/ CallEnqueue(d) \/ CallWait(d) \/ Enqueue(d)
             \/ WaitBlocks(d) \/ WaitSleeps(d)
      PROVE  Goal
  BY <1>1, <1>3 DEF CallEnqueue, CallWait, Enqueue, WaitBlocks, WaitSleeps, Goto, TypeOK
<1>4. ASSUME NEW d \in Client, NotifyOne(d)
      PROVE  Goal
  BY <1>1, <1>4 DEF NotifyOne, Goto, TypeOK
<1>5. ASSUME NEW d \in Client, WaitReturns(d)
      PROVE  \A c \in Client : c # d => ~Returned(c)
  BY <1>1, <1>5 DEF WaitReturns, Goto, TypeOK
<1>6. ASSUME CallStop \/ Stop \/ NotifyAll
      PROVE  Goal
  BY <1>1, <1>6 DEF CallStop, Stop, NotifyAll, Goto, TypeOK
<1>7. ASSUME JoinAll
      PROVE  \A c \in Client : c # Owner => ~Returned(c)
  BY <1>1, <1>7 DEF JoinAll, Goto, TypeOK
<1>8. ASSUME NEW w \in Worker, WorkerStep(w)
      PROVE  Goal
  <2>1. CASE SignalDone(w)
    BY <1>1, <2>1 DEF SignalDone, TypeOK
  <2>2. CASE ~SignalDone(w)
    BY <1>1, <1>8, <2>2 DEF WorkerStep, Sleep, Exit, Pop, Activate, Run, Deactivate,
       LookTail, LookHead, Compare, LookActive, Goto, TypeOK
  <2> QED BY <2>1, <2>2
<1>9. ASSUME NEW t \in Worker \cup Client, SpuriousWakeup(t)
      PROVE  Goal
  BY <1>1, <1>9 DEF SpuriousWakeup, Goto, TypeOK
<1>10. JoinAll => pc[Owner] = "join"
  BY DEF JoinAll
<1>11. \A d \in Client : WaitReturns(d) => pc[d] = "wait"
  BY DEF WaitReturns
<1> QED BY <1>2, <1>3, <1>4, <1>5, <1>6, <1>7, <1>8, <1>9, <1>10, <1>11
        DEF Next, ClientStep, StopStep

\* With the mutex free, an empty queue and nothing active mean that every
\* accepted task has ended.
LEMMA DoneWhenQuiet ==
  ASSUME IInv, mutex = Free, AllDone
  PROVE  Accepted = finished
<1>1. Active = {}
  <2>1. IsFiniteSet(Active)
    BY FS_Subset DEF Active
  <2> QED BY <2>1, FS_EmptySet DEF IInv, Counted, AllDone
<1>2. \A w \in Worker : pc[w] # "popped"
  BY DEF IInv, Locked
<1>3. Held = {}
  BY <1>1, <1>2 DEF Active, Busy, Held
<1>4. Queued = {}
  BY DEF IInv, TypeOK, AllDone, Empty, Queued
<1> QED BY <1>3, <1>4, Accounted DEF IInv

\* When every worker has left, every accepted task has ended.
LEMMA DoneWhenLeft ==
  ASSUME IInv, \A w \in Worker : pc[w] = "exited"
  PROVE  Accepted = finished
<1>1. Held = {}
  BY DEF Busy, Held
<1>2. Queued = {}
  <2>1. Empty
    BY DEF IInv, LeftStopped
  <2> QED BY <2>1 DEF IInv, TypeOK, Empty, Queued
<1> QED BY <1>1, <1>2, Accounted DEF IInv

\* wait() returns with everything that was enqueued before it finished, and
\* stop() with everything that was ever accepted.
THEOREM WaitAndStopReturnDone == Spec => ReturnsWithWorkDone
<1> DEFINE Returns ==
      /\ \A c \in Client :
           pc[c] = "wait" /\ pc'[c] = "idle" => due[c] \subseteq finished
      /\ pc[Owner] = "join" /\ pc'[Owner] = "idle" => Accepted = finished
<1>1. IInv /\ [Next]_vars => Returns
  <2> SUFFICES ASSUME IInv, [Next]_vars PROVE Returns
    OBVIOUS
  <2>1. ASSUME NEW c \in Client, pc[c] = "wait", pc'[c] = "idle"
        PROVE  due[c] \subseteq finished
    <3>1. mutex = Free /\ AllDone
      BY <2>1, WhoReturns DEF WaitReturns
    <3> QED BY <3>1, DoneWhenQuiet DEF IInv, DueAccepted
  <2>2. ASSUME pc[Owner] = "join", pc'[Owner] = "idle"
        PROVE  Accepted = finished
    <3>1. \A w \in Worker : pc[w] = "exited"
      BY <2>2, WhoReturns DEF JoinAll
    <3> QED BY <3>1, DoneWhenLeft
  <2> QED BY <2>1, <2>2
<1> QED BY <1>1, ThreadPoolInvariant, PTL DEF Spec, ReturnsWithWorkDone

-----------------------------------------------------------------------------
(* The pool implements TaskPool. *)

\* The tasks started and not finished are those workers have.
LEMMA StartedAreHeld ==
  ASSUME IInv
  PROVE  Tasks!StartedTasks \ finished = Held
<1>1. /\ popped \in Nat /\ Len(tasks) \in Nat /\ popped <= Len(tasks)
  BY DEF IInv, TypeOK
<1>2. Accepted = Tasks!StartedTasks \cup Queued
  BY <1>1 DEF Accepted, Queued, Tasks!StartedTasks
<1>3. Tasks!StartedTasks \cap Queued = {}
  BY <1>1 DEF IInv, Distinct, Queued, Tasks!StartedTasks
<1> QED BY <1>2, <1>3, Accounted DEF IInv

\* TaskPool counts with the Cardinality this module does.
LEMMA SameCardinality == \A S : Tasks!Cardinality(S) = Cardinality(S)
BY DEF Tasks!Cardinality, Cardinality

\* Before a pop, fewer tasks are in workers' hands than there are workers.
LEMMA RoomToStart ==
  ASSUME IInv, NEW w \in Worker, pc[w] = "lock"
  PROVE  Cardinality(Held) < Cardinality(Worker)
<1>1. Busy \subseteq Worker \ {w}
  BY DEF Busy
<1>2. /\ IsFiniteSet(Worker \ {w})
      /\ Cardinality(Worker \ {w}) = Cardinality(Worker) - 1
  BY FS_RemoveElement
<1>3. IsFiniteSet(Busy) /\ Cardinality(Busy) <= Cardinality(Worker \ {w})
  BY <1>1, <1>2, FS_Subset
<1>4. IsFiniteSet(Held) /\ Cardinality(Held) <= Cardinality(Busy)
  <2>1. [v \in Busy |-> job[v]] \in Surjection(Busy, Held)
    BY DEF Surjection, Held
  <2> QED BY <1>3, <2>1, FS_Surjection
<1> QED BY <1>2, <1>3, <1>4, FS_CardinalityType

\* ThreadPool implements TaskPool: tasks are accepted until the stop, started
\* in order and each once, at most as many at a time as there are workers.
THEOREM PoolImplementsTaskPool == Spec => ImplementsTaskPool
<1>1. Init => Tasks!TaskInit
  BY DEF Init, Tasks!TaskInit
<1>2. IInv /\ [Next]_vars => [Tasks!TaskNext]_(Tasks!taskVars)
  <2> SUFFICES ASSUME IInv, [Next]_vars
               PROVE  Tasks!TaskNext \/ UNCHANGED <<tasks, popped, finished, stop_>>
    BY DEF Tasks!taskVars
  <2>1. CASE UNCHANGED vars
    BY <2>1 DEF vars
  <2>2. ASSUME NEW c \in Client, Enqueue(c)
        PROVE  Tasks!TaskNext \/ UNCHANGED <<tasks, popped, finished, stop_>>
    <3>1. arg[c] \in Task
      BY <2>2 DEF IInv, ArgsFresh, Enqueue
    <3>2. ~stop_ => Tasks!Accept(arg[c])
      BY <2>2 DEF Enqueue, Tasks!Accept
    <3> QED BY <2>2, <3>1, <3>2 DEF Enqueue, Tasks!TaskNext
  <2>3. ASSUME NEW w \in Worker, Pop(w)
        PROVE  Tasks!TaskNext
    <3>1. popped < Len(tasks)
      BY <2>3 DEF IInv, TypeOK, Pop, Empty
    <3>2. Cardinality(Tasks!StartedTasks \ finished) < Cardinality(Worker)
      BY <2>3, StartedAreHeld, RoomToStart DEF Pop
    <3>3. Tasks!StartNext
      BY <2>3, <3>1, <3>2, SameCardinality DEF Pop, Tasks!StartNext
    <3> QED BY <3>3 DEF Tasks!TaskNext
  <2>4. ASSUME NEW w \in Worker, Run(w)
        PROVE  Tasks!TaskNext
    <3>1. w \in Busy
      BY <2>4 DEF Run, Busy
    <3>2. job[w] \in Tasks!StartedTasks \ finished
      BY <3>1, StartedAreHeld DEF Held
    <3>3. job[w] \in Task
      BY <3>1, Accounted, AcceptedTyped DEF IInv, Held
    <3>4. Tasks!Finish(job[w])
      BY <2>4, <3>2 DEF Run, Tasks!Finish
    <3> QED BY <3>3, <3>4 DEF Tasks!TaskNext
  <2>5. CASE Stop
    BY <2>5 DEF Stop, Tasks!StopAccepting, Tasks!TaskNext
  <2>6. ASSUME NEW c \in Client,
               \/ CallEnqueue(c) \/ CallWait(c) \/ NotifyOne(c)
               \/ WaitReturns(c) \/ WaitBlocks(c) \/ WaitSleeps(c)
        PROVE  UNCHANGED <<tasks, popped, finished, stop_>>
    BY <2>6 DEF CallEnqueue, CallWait, NotifyOne, WaitReturns, WaitBlocks, WaitSleeps
  <2>7. CASE CallStop \/ NotifyAll \/ JoinAll
    BY <2>7 DEF CallStop, NotifyAll, JoinAll
  <2>8. ASSUME NEW w \in Worker,
               \/ Sleep(w) \/ Exit(w) \/ Activate(w) \/ Deactivate(w)
               \/ LookTail(w) \/ LookHead(w) \/ Compare(w) \/ LookActive(w)
               \/ SignalDone(w)
        PROVE  UNCHANGED <<tasks, popped, finished, stop_>>
    BY <2>8 DEF Sleep, Exit, Activate, Deactivate, LookTail, LookHead, Compare,
       LookActive, SignalDone
  <2>9. ASSUME NEW t \in Worker \cup Client, SpuriousWakeup(t)
        PROVE  UNCHANGED <<tasks, popped, finished, stop_>>
    BY <2>9 DEF SpuriousWakeup
  <2> QED BY <2>1, <2>2, <2>3, <2>4, <2>5, <2>6, <2>7, <2>8, <2>9
          DEF Next, ClientStep, WorkerStep, StopStep
<1> QED BY <1>1, <1>2, ThreadPoolInvariant, PTL
        DEF Spec, ImplementsTaskPool, Tasks!TaskSpec
=============================================================================
