----------------------------- MODULE JobServer -----------------------------
(***************************************************************************)
(* http::HttpServer with util::Metrics: an accept loop that serves one     *)
(* connection at a time, and a detached thread for each query posted.      *)
(*                                                                         *)
(* The jobs and the history are guarded by mutex_, the metrics by their    *)
(* own mutex.  The council all the threads debate with is guarded by       *)
(* nothing: each replaces its client, pool and voting system in turn and   *)
(* then uses whatever it finds there.  An object of the council is named   *)
(* by its kind and by the job whose thread made it, and is freed when      *)
(* another takes its place.  Working on freed memory is undefined: the     *)
(* thread goes on with some outcome, or the process dies.                  *)
(***************************************************************************)
EXTENDS Integers, Sequences, FiniteSets

CONSTANTS
  JobBound,       \* bound on the queries posted
  Rounds,         \* Configuration::rounds
  MaxInFlight,    \* how many unfinished jobs the clients leave at a time
  StatsAllowed,   \* whether anybody asks for /metrics or /api/stats
  StopAllowed     \* whether anybody calls stop()

ASSUME JobServerAssumption ==
  /\ JobBound \in Nat /\ Rounds \in Nat /\ MaxInFlight \in Nat
  /\ StatsAllowed \in BOOLEAN /\ StopAllowed \in BOOLEAN

VARIABLES
  server,          \* where start() is
  running_,
  jobs,            \* the status of each job of jobs_
  query_history_,  \* the status each job has in the history
  thread,          \* where each job's thread is
  left,            \* the rounds it still has to run
  using,           \* the objects of the council it is working on
  llm_client_,     \* the makers of the council's three objects
  pool_,
  voting_system_,
  voting_pool,     \* the pool voting_system_ refers to
  debates_,        \* the debates recorded in the metrics
  serial           \* history: no query was posted while a job was running

serverVars == <<server, running_, jobs, query_history_, serial>>
councilVars == <<llm_client_, pool_, voting_system_, voting_pool>>
vars == <<serverVars, thread, left, using, councilVars, debates_>>

Job == 1 .. JobBound

Nobody == 0

\* ExecutionJob::status.
RunningStatus == 0
CompleteStatus == 1
FailedStatus == 2
Status == {RunningStatus, CompleteStatus, FailedStatus}

Object == {"client", "pool", "voting"} \X (Job \cup {Nobody})

Debate == [job : Job, success : BOOLEAN]

TypeOK ==
  /\ server \in {"starting", "accept", "spawn", "sending", "stats",
                 "returned", "destroyed", "gone"}
  /\ running_ \in BOOLEAN
  /\ jobs \in Seq(Status) /\ Len(jobs) <= JobBound
  /\ query_history_ \in Seq(Status) /\ Len(query_history_) = Len(jobs)
  /\ thread \in [Job -> {"none", "create", "newPool", "newVoting", "round",
                         "asking", "election", "electing", "final",
                         "finalizing", "record", "complete", "fail",
                         "failRecord", "done"}]
  /\ left \in [Job -> 0 .. Rounds]
  /\ using \in [Job -> SUBSET Object]
  /\ {llm_client_, pool_, voting_system_, voting_pool} \subseteq Job \cup {Nobody}
  /\ debates_ \in Seq(Debate)
  /\ serial \in BOOLEAN

Init ==
  /\ server = "starting"
  /\ running_ = FALSE
  /\ jobs = <<>>
  /\ query_history_ = <<>>
  /\ thread = [j \in Job |-> "none"]
  /\ left = [j \in Job |-> 0]
  /\ using = [j \in Job |-> {}]
  /\ llm_client_ = Nobody
  /\ pool_ = Nobody
  /\ voting_system_ = Nobody
  /\ voting_pool = Nobody
  /\ debates_ = <<>>
  /\ serial = TRUE

-----------------------------------------------------------------------------
(* The accept loop. *)

\* start() sets running_ itself, also after a stop() that came first.
Listen ==
  /\ server = "starting"
  /\ \/ server' = "accept" /\ running_' = TRUE
     \/ server' = "returned" /\ UNCHANGED running_
  /\ UNCHANGED <<jobs, query_history_, thread, left, using, councilVars,
                 debates_, serial>>

\* The loop's condition, tested after each request.
Loop == server' = IF running_ THEN "accept" ELSE "returned"

InFlight == {j \in 1 .. Len(jobs) : jobs[j] = RunningStatus}

\* Mutant: the job is not entered in the history.
PostWithoutHistory ==
  /\ server = "accept" /\ running_
  /\ Len(jobs) < JobBound /\ Cardinality(InFlight) < MaxInFlight
  /\ jobs' = Append(jobs, RunningStatus)
  /\ server' = "spawn"
  /\ serial' = (serial /\ InFlight = {})
  /\ UNCHANGED <<running_, query_history_, thread, left, using, councilVars,
                 debates_>>

\* handle_query: the job is allocated and its number sent to the client.
\* The history takes a copy of the job.
PostQuery ==
  /\ server = "accept" /\ running_
  /\ Len(jobs) < JobBound /\ Cardinality(InFlight) < MaxInFlight
  /\ jobs' = Append(jobs, RunningStatus)
  /\ query_history_' = Append(query_history_, RunningStatus)
  /\ server' = "spawn"
  /\ serial' = (serial /\ InFlight = {})
  /\ UNCHANGED <<running_, thread, left, using, councilVars, debates_>>

NewThread ==
  /\ server = "spawn"
  /\ thread' = [thread EXCEPT ![Len(jobs)] = "create"]
  /\ left' = [left EXCEPT ![Len(jobs)] = Rounds]
  /\ Loop
  /\ UNCHANGED <<running_, jobs, query_history_, using, councilVars, debates_,
                 serial>>

\* The handlers that list or show jobs hold mutex_ until send() returns.
ReadJobs ==
  /\ server = "accept" /\ running_
  /\ server' = "sending"
  /\ UNCHANGED <<running_, jobs, query_history_, thread, left, using,
                 councilVars, debates_, serial>>

Sent ==
  /\ server = "sending"
  /\ Loop
  /\ UNCHANGED <<running_, jobs, query_history_, thread, left, using,
                 councilVars, debates_, serial>>

\* get_prometheus_text and get_json_summary lock the metrics and call
\* get_all_stats, which locks them again: the mutex is not recursive, and the
\* loop's thread waits for itself.  No step leads out of "stats".
ReadStats ==
  /\ server = "accept" /\ running_ /\ StatsAllowed
  /\ server' = "stats"
  /\ UNCHANGED <<running_, jobs, query_history_, thread, left, using,
                 councilVars, debates_, serial>>

stop ==
  /\ StopAllowed /\ server # "gone"
  /\ running_' = FALSE
  /\ UNCHANGED <<server, jobs, query_history_, thread, left, using,
                 councilVars, debates_, serial>>

\* accept() blocks until somebody connects; that connection is dropped.
LastConnection ==
  /\ server = "accept" /\ ~running_
  /\ server' = "returned"
  /\ UNCHANGED <<running_, jobs, query_history_, thread, left, using,
                 councilVars, debates_, serial>>

\* std::stoi throws on a request whose Content-Length or job_id is no number,
\* and std::thread's constructor when the system is out of threads.  Nothing
\* catches it before main, and the loop is left.
HandlerThrows ==
  /\ server \in {"accept", "spawn"} /\ running_
  /\ server' = "returned"
  /\ UNCHANGED <<running_, jobs, query_history_, thread, left, using,
                 councilVars, debates_, serial>>

\* send() on a connection that its client has reset raises SIGPIPE, which the
\* program neither handles nor ignores.
SendKills ==
  /\ server \in {"spawn", "sending"} \/ (server = "accept" /\ running_)
  /\ server' = "gone"
  /\ UNCHANGED <<running_, jobs, query_history_, thread, left, using,
                 councilVars, debates_, serial>>

\* The server is a local of main: its jobs and its council are destroyed, and
\* the detached threads are not waited for.
Destroy ==
  /\ server = "returned"
  /\ server' = "destroyed"
  /\ running_' = FALSE
  /\ UNCHANGED <<jobs, query_history_, thread, left, using, councilVars,
                 debates_, serial>>

\* main returns, and the detached threads end with the process.
Exit ==
  /\ server = "destroyed"
  /\ server' = "gone"
  /\ UNCHANGED <<running_, jobs, query_history_, thread, left, using,
                 councilVars, debates_, serial>>

ServerStep == Listen \/ NewThread \/ Sent \/ Destroy \/ Exit

-----------------------------------------------------------------------------
(* The thread of a job: the council it shares with the others. *)

Alive ==
  IF server = "destroyed"
    THEN {}
    ELSE {<<"client", llm_client_>>, <<"pool", pool_>>,
          <<"voting", voting_system_>>} \ ({"client", "pool", "voting"} \X {Nobody})

Goto(j, state) == thread' = [thread EXCEPT ![j] = state]

At(j, state) == server # "gone" /\ thread[j] = state

\* The factory makes a client or throws, and initialize_analysts installs it
\* or, without models, returns false: either way the job fails.
CreateClient(j) ==
  /\ At(j, "create")
  /\ \/ Goto(j, "newPool") /\ llm_client_' = j
     \/ Goto(j, "fail") /\ UNCHANGED llm_client_
  /\ UNCHANGED <<serverVars, left, using, pool_, voting_system_, voting_pool,
                 debates_>>

NewPool(j) ==
  /\ At(j, "newPool")
  /\ pool_' = j
  /\ Goto(j, "newVoting")
  /\ UNCHANGED <<serverVars, left, using, llm_client_, voting_system_,
                 voting_pool, debates_>>

\* Mutant: the voting system keeps the pool it was first given.
NewVotingOldPool(j) ==
  /\ At(j, "newVoting")
  /\ voting_system_' = j
  /\ voting_pool' = IF voting_pool = Nobody THEN pool_ ELSE voting_pool
  /\ Goto(j, "round")
  /\ UNCHANGED <<serverVars, left, using, llm_client_, pool_, debates_>>

\* The voting system keeps a reference to the pool found in pool_ now.
NewVoting(j) ==
  /\ At(j, "newVoting")
  /\ voting_system_' = j
  /\ voting_pool' = pool_
  /\ Goto(j, "round")
  /\ UNCHANGED <<serverVars, left, using, llm_client_, pool_, debates_>>

Take(j, objects) == using' = [using EXCEPT ![j] = objects]

BeginRound(j) ==
  /\ At(j, "round")
  /\ IF left[j] > 0
       THEN /\ Goto(j, "asking")
            /\ Take(j, {<<"client", llm_client_>>, <<"pool", pool_>>})
       ELSE Goto(j, "final") /\ UNCHANGED using
  /\ UNCHANGED <<serverVars, left, councilVars, debates_>>

\* A round nobody answered is the last one; starting the first of the analysts'
\* threads may throw.
EndRound(j) ==
  /\ At(j, "asking")
  /\ \E next \in {"election", "final", "fail"} : Goto(j, next)
  /\ left' = [left EXCEPT ![j] = @ - 1]
  /\ Take(j, {})
  /\ UNCHANGED <<serverVars, councilVars, debates_>>

\* When the system refuses a later one, execute_round destroys the threads it
\* has started and not joined, and the process ends.
RoundTerminates(j) ==
  /\ At(j, "asking")
  /\ server' = "gone"
  /\ UNCHANGED <<running_, jobs, query_history_, thread, left, using,
                 councilVars, debates_, serial>>

BeginElection(j) ==
  /\ At(j, "election")
  /\ Goto(j, "electing")
  /\ Take(j, {<<"voting", voting_system_>>, <<"pool", voting_pool>>})
  /\ UNCHANGED <<serverVars, left, councilVars, debates_>>

EndElection(j) ==
  /\ At(j, "electing")
  /\ Goto(j, "round")
  /\ Take(j, {})
  /\ UNCHANGED <<serverVars, left, councilVars, debates_>>

BeginFinalize(j) ==
  /\ At(j, "final")
  /\ Goto(j, "finalizing")
  /\ Take(j, {<<"pool", pool_>>})
  /\ UNCHANGED <<serverVars, left, councilVars, debates_>>

\* Mutant: the status is updated without a record of the debate.
EndFinalizeUnrecorded(j) ==
  /\ At(j, "finalizing")
  /\ Goto(j, "complete")
  /\ Take(j, {})
  /\ UNCHANGED <<serverVars, left, councilVars, debates_>>

EndFinalize(j) ==
  /\ At(j, "finalizing")
  /\ Goto(j, "record")
  /\ Take(j, {})
  /\ UNCHANGED <<serverVars, left, councilVars, debates_>>

\* What working on freed memory, or for a destroyed server, may also end in.
Crash ==
  /\ server # "gone"
  /\ \E j \in Job : \/ ~(using[j] \subseteq Alive)
                    \/ server = "destroyed" /\ thread[j] \notin {"none", "done"}
  /\ server' = "gone"
  /\ UNCHANGED <<running_, jobs, query_history_, thread, left, using,
                 councilVars, debates_, serial>>

-----------------------------------------------------------------------------
(* The thread of a job: its status and its record in the metrics. *)

\* The metrics' mutex is free unless the accept loop hangs with it.
record_debate(j, success) ==
  /\ server # "stats"
  /\ debates_' = Append(debates_, [job |-> j, success |-> success])

\* mutex_ is free unless a handler is sending.
update_job_output(j, status) ==
  /\ server # "sending"
  /\ jobs' = [jobs EXCEPT ![j] = status]

RecordSuccess(j) ==
  /\ At(j, "record")
  /\ record_debate(j, TRUE)
  /\ Goto(j, "complete")
  /\ UNCHANGED <<serverVars, left, using, councilVars>>

Complete(j) ==
  /\ At(j, "complete")
  /\ update_job_output(j, CompleteStatus)
  /\ Goto(j, "done")
  /\ UNCHANGED <<server, running_, query_history_, left, using, councilVars,
                 debates_, serial>>

\* Mutants: the failure is not recorded in the metrics; the status of the
\* failed job is not updated.
FailUnrecorded(j) ==
  /\ At(j, "fail")
  /\ update_job_output(j, FailedStatus)
  /\ Goto(j, "done")
  /\ UNCHANGED <<server, running_, query_history_, left, using, councilVars,
                 debates_, serial>>

FailSilently(j) ==
  /\ At(j, "fail")
  /\ Goto(j, "failRecord")
  /\ UNCHANGED <<serverVars, left, using, councilVars, debates_>>

Fail(j) ==
  /\ At(j, "fail")
  /\ update_job_output(j, FailedStatus)
  /\ Goto(j, "failRecord")
  /\ UNCHANGED <<server, running_, query_history_, left, using, councilVars,
                 debates_, serial>>

RecordFailure(j) ==
  /\ At(j, "failRecord")
  /\ record_debate(j, FALSE)
  /\ Goto(j, "done")
  /\ UNCHANGED <<serverVars, left, using, councilVars>>

JobStep(j) ==
  \/ CreateClient(j) \/ NewPool(j) \/ NewVoting(j)
  \/ BeginRound(j) \/ EndRound(j) \/ BeginElection(j) \/ EndElection(j)
  \/ BeginFinalize(j) \/ EndFinalize(j)
  \/ RecordSuccess(j) \/ Complete(j) \/ Fail(j) \/ RecordFailure(j)

Next ==
  \/ ServerStep
  \/ PostQuery \/ ReadJobs \/ ReadStats \/ HandlerThrows \/ SendKills
  \/ LastConnection
  \/ stop
  \/ \E j \in Job : JobStep(j) \/ RoundTerminates(j)
  \/ Crash

Spec == Init /\ [][Next]_vars

\* The accept loop and the threads go on when they can: clients read what is
\* sent to them, and queries to the LLM end.  Nobody has to connect or to
\* call stop().  Strong fairness on the status update says that a thread that
\* waits for mutex_ gets it, though request after request takes it too: the
\* accept loop holds it for one answer and not from one to the next.
Fairness ==
  /\ WF_vars(ServerStep)
  /\ \A j \in Job : WF_vars(JobStep(j)) /\ SF_vars(Complete(j) \/ Fail(j))

FairSpec == Spec /\ Fairness

-----------------------------------------------------------------------------
(* Properties. *)

RecordsOf(j) == {k \in 1 .. Len(debates_) : debates_[k].job = j}

\* The metrics agree with the jobs: no job is counted twice, no failed job is
\* counted as a success or the reverse, a job that is reported complete has
\* been counted before, a status that was reported is final, and a thread that
\* has ended has left exactly one record, whether it ended by return or by
\* exception and whatever the other threads did to the council.
MetricsMatchJobs ==
  /\ [](\A j \in 1 .. Len(jobs) :
          /\ \A k, l \in RecordsOf(j) : k = l
          /\ thread[j] = "done" \/ jobs[j] = CompleteStatus =>
               RecordsOf(j) # {}
          /\ jobs[j] # RunningStatus =>
               \A k \in RecordsOf(j) :
                 debates_[k].success <=> jobs[j] = CompleteStatus)
  /\ [][\A j \in 1 .. Len(jobs) :
          jobs[j] # RunningStatus => jobs'[j] = jobs[j]]_vars

\* HttpServer.cpp:361 "Create new LLM client for this thread using configured
\* provider": a job works on the client, the pool and the voting system it
\* made, and as long as the server exists these do.
Isolated ==
  server # "destroyed" =>
    \A j \in Job : \A object \in using[j] :
      object[2] = j /\ object \in Alive

\* That holds as long as every client waits for the last job to end before
\* the next query is posted, although the thread of the last job may not have
\* ended yet.
IsolatedIfSerial == serial => Isolated

\* A posted job ends, unless the process does first or the accept loop hangs
\* with the metrics locked.
JobEnds ==
  \A j \in Job :
    j \in InFlight ~> j \notin InFlight \/ server \in {"gone", "stats"}

-----------------------------------------------------------------------------
(* What comments and documents say and the code does not do. *)

\* HttpServer.h:76 "GET /metrics - Prometheus metrics (text format)": who
\* asks for them gets them.
StatsAnswered == server = "stats" ~> server # "stats"
=============================================================================
