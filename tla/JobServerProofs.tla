--------------------------- MODULE JobServerProofs ---------------------------
(***************************************************************************)
(* Proofs about main and the server it runs in web mode: about JobServer,  *)
(* for any number of jobs and rounds, whatever the clients ask for and     *)
(* whether or not somebody stops the server; and about Startup, for every  *)
(* command line, file and environment.                                     *)
(***************************************************************************)
EXTENDS JobServer, Startup, TLAPS

USE JobServerAssumption DEF JobServerAssumption

-----------------------------------------------------------------------------
(* The inductive invariant. *)

Reported == {"failRecord", "done"}
Recorded == {"complete", "done"}
Working == {"asking", "electing", "finalizing"}
Debating == Working \cup {"round", "election", "final"}

\* How far the thread has come tells the status and the record of its job.
JobFits(j) ==
  /\ j > Len(jobs) => thread[j] = "none"
  /\ thread[j] = "asking" => left[j] > 0
  /\ using[j] # {} => thread[j] \in Working
  /\ j <= Len(jobs) =>
       /\ jobs[j] # RunningStatus <=> thread[j] \in Reported
       /\ thread[j] = "failRecord" => jobs[j] = FailedStatus
  /\ RecordsOf(j) # {} <=> thread[j] \in Recorded
  /\ \A k, l \in RecordsOf(j) : k = l
  /\ \A k \in RecordsOf(j) :
       debates_[k].success <=> thread[j] = "complete" \/ jobs[j] = CompleteStatus

\* The objects of the council a thread finds are those it put there.
Own(j) ==
  /\ thread[j] \in {"newPool", "newVoting"} \cup Debating => llm_client_ = j
  /\ thread[j] \in {"newVoting"} \cup Debating => pool_ = j
  /\ thread[j] \in Debating => voting_system_ = j /\ voting_pool = j
  /\ using[j] \subseteq {<<"client", j>>, <<"pool", j>>, <<"voting", j>>}

\* With one query at a time, only the last job may be unfinished.
OneAtATime(j) ==
  serial => (j < Len(jobs) => jobs[j] # RunningStatus) /\ Own(j)

SpawnIsNew == server = "spawn" => Len(jobs) > 0 /\ thread[Len(jobs)] = "none"

IInv ==
  /\ TypeOK
  /\ SpawnIsNew
  /\ \A j \in Job : JobFits(j) /\ OneAtATime(j)

-----------------------------------------------------------------------------

LEMMA InitIInv == Init => IInv
<1> SUFFICES ASSUME Init PROVE IInv
  OBVIOUS
<1>1. TypeOK
  <2>1. jobs \in Seq(Status) /\ query_history_ \in Seq(Status) /\ debates_ \in Seq(Debate)
    BY DEF Init
  <2>2. Len(jobs) = 0 /\ Len(query_history_) = 0
    BY DEF Init
  <2>3. left \in [Job -> 0 .. Rounds] /\ using \in [Job -> SUBSET Object]
    BY DEF Init
  <2>4. {llm_client_, pool_, voting_system_, voting_pool} \subseteq Job \cup {Nobody}
    BY DEF Init
  <2>5. thread = [j \in Job |-> "none"] /\ serial \in BOOLEAN /\ server = "starting" /\ running_ = FALSE
    BY DEF Init
  <2>6. Len(jobs) <= JobBound /\ Len(query_history_) = Len(jobs)
    BY <2>2
  <2>7. server = "starting" /\ running_ \in BOOLEAN /\ serial \in BOOLEAN
    BY <2>5
  <2> QED BY <2>1, <2>3, <2>4, <2>5, <2>6, <2>7 DEF TypeOK
<1>2. SpawnIsNew
  BY DEF Init, SpawnIsNew
<1>3. ASSUME NEW j \in Job PROVE JobFits(j) /\ OneAtATime(j)
  <2>1. /\ thread[j] = "none" /\ using[j] = {} /\ Len(jobs) = 0 /\ debates_ = <<>>
        /\ j > 0
    BY DEF Init, Job
  <2>2. RecordsOf(j) = {}
    BY <2>1 DEF RecordsOf
  <2> QED BY <2>1, <2>2 DEF JobFits, OneAtATime, Own, Reported, Recorded, Debating, Working, Job
<1> QED BY <1>1, <1>2, <1>3 DEF IInv

\* Who asks, stops or crashes disturbs no job.
LEMMA LoopKeeps ==
  ASSUME IInv,
         UNCHANGED <<jobs, query_history_, serial, thread, left, using, councilVars, debates_>>,
         running_' \in BOOLEAN,
         server' \in {"starting", "accept", "sending", "stats", "returned", "destroyed", "gone"}
                       \cup {server}
  PROVE  IInv'
<1>1. TypeOK'
  BY DEF IInv, TypeOK, councilVars
<1>2. SpawnIsNew'
  BY DEF IInv, SpawnIsNew
<1>3. ASSUME NEW j \in Job PROVE (JobFits(j) /\ OneAtATime(j))'
  BY DEF IInv, JobFits, OneAtATime, Own, RecordsOf, councilVars
<1> QED BY <1>1, <1>2, <1>3 DEF IInv

\* A new job has no thread and no record, and when the others have ended by
\* then, none of them is among the objects of the council.
LEMMA PostKeeps == IInv /\ PostQuery => IInv'
<1> SUFFICES ASSUME IInv, PostQuery PROVE IInv'
  OBVIOUS
<1> DEFINE n == Len(jobs)
<1>1. /\ n \in Nat /\ n < JobBound /\ n + 1 \in Job
      /\ jobs \in Seq(Status) /\ query_history_ \in Seq(Status)
      /\ Len(query_history_) = n /\ RunningStatus \in Status
  BY DEF PostQuery, IInv, TypeOK, Job, Status
<1>2. /\ jobs' \in Seq(Status) /\ Len(jobs') = n + 1
      /\ jobs'[n + 1] = RunningStatus
      /\ \A i \in 1 .. n : jobs'[i] = jobs[i]
      /\ query_history_' \in Seq(Status) /\ Len(query_history_') = n + 1
  BY <1>1 DEF PostQuery
<1>3. /\ server' = "spawn" /\ serial' = (serial /\ InFlight = {})
      /\ UNCHANGED <<running_, thread, left, using, councilVars, debates_>>
  BY DEF PostQuery
<1>4. TypeOK'
  BY <1>1, <1>2, <1>3 DEF IInv, TypeOK, councilVars
<1>5. SpawnIsNew'
  BY <1>1, <1>2, <1>3 DEF SpawnIsNew, IInv, JobFits
<1>6. ASSUME NEW j \in Job PROVE (JobFits(j) /\ OneAtATime(j))'
  <2>1. JobFits(j) /\ OneAtATime(j) /\ j \in Nat /\ j > 0
    BY DEF IInv, Job
  <2>2. RecordsOf(j)' = RecordsOf(j)
    BY <1>3 DEF RecordsOf
  <2>3. CASE j <= n
    <3>1. jobs'[j] = jobs[j] /\ j \in 1 .. n
      BY <1>1, <1>2, <2>1, <2>3
    <3>2. JobFits(j)'
      BY <1>1, <1>2, <1>3, <2>1, <2>2, <2>3, <3>1 DEF JobFits
    <3>3. ASSUME serial' PROVE jobs[j] # RunningStatus /\ serial
      BY <1>3, <3>1, <3>3 DEF InFlight
    <3>4. ASSUME serial' PROVE Own(j)'
      BY <1>3, <2>1, <2>3, <3>3, <3>4 DEF OneAtATime, Own, JobFits, Reported, councilVars
    <3> QED BY <3>1, <3>2, <3>3, <3>4 DEF OneAtATime
  <2>4. CASE j > n
    <3>1. thread[j] = "none" /\ thread' = thread /\ using' = using /\ left' = left
      BY <1>3, <2>1, <2>4 DEF JobFits
    <3>2. RecordsOf(j) = {} /\ using[j] = {}
      BY <2>1, <3>1 DEF JobFits, Recorded, Working
    <3>3. j <= n + 1 => j = n + 1
      BY <1>1, <2>1, <2>4
    <3>4. JobFits(j)'
      BY <1>1, <1>2, <2>1, <2>2, <2>4, <3>1, <3>2, <3>3
         DEF JobFits, Recorded, Working, Reported
    <3>5. OneAtATime(j)'
      BY <1>1, <1>2, <2>1, <2>4, <3>1, <3>2 DEF OneAtATime, Own, Debating, Working
    <3> QED BY <3>4, <3>5
  <2> QED BY <1>1, <2>1, <2>3, <2>4
<1> QED BY <1>4, <1>5, <1>6 DEF IInv

LEMMA SpawnKeeps == IInv /\ NewThread => IInv'
<1> SUFFICES ASSUME IInv, NewThread PROVE IInv'
  OBVIOUS
<1> DEFINE n == Len(jobs)
<1>1. n \in Job /\ thread[n] = "none" /\ JobFits(n) /\ OneAtATime(n)
  BY DEF NewThread, IInv, TypeOK, SpawnIsNew, Job
<1>2. /\ thread' = [thread EXCEPT ![n] = "create"] /\ left' = [left EXCEPT ![n] = Rounds]
      /\ server' \in {"accept", "returned"}
      /\ UNCHANGED <<running_, jobs, query_history_, using, councilVars, debates_, serial>>
  BY DEF NewThread, Loop
<1>3. TypeOK'
  BY <1>1, <1>2 DEF IInv, TypeOK, councilVars
<1>4. SpawnIsNew'
  BY <1>2 DEF SpawnIsNew
<1>5. ASSUME NEW j \in Job PROVE (JobFits(j) /\ OneAtATime(j))'
  <2>1. JobFits(j) /\ OneAtATime(j) /\ RecordsOf(j)' = RecordsOf(j)
    BY <1>2 DEF IInv, RecordsOf
  <2>2. CASE j = n
    <3>1. thread'[j] = "create"
      BY <1>1, <1>2, <2>2 DEF IInv, TypeOK
    <3> QED BY <1>1, <1>2, <2>1, <2>2, <3>1
          DEF JobFits, OneAtATime, Own, Reported, Recorded, Debating, Working, councilVars
  <2>3. CASE j # n
    <3>1. thread'[j] = thread[j] /\ left'[j] = left[j]
      BY <1>1, <1>2, <2>3 DEF IInv, TypeOK
    <3> QED BY <1>2, <2>1, <3>1 DEF JobFits, OneAtATime, Own, councilVars
  <2> QED BY <2>2, <2>3
<1> QED BY <1>3, <1>4, <1>5 DEF IInv

-----------------------------------------------------------------------------
(* The steps of a job's thread. *)

\* An unfinished job is the last one when they come one at a time; the others
\* have nothing of the council.
LEMMA OthersOwnNothing ==
  ASSUME IInv, serial, NEW j \in Job, thread[j] \notin {"none"} \cup Reported,
         NEW i \in Job \ {j}
  PROVE  thread[i] \in {"none"} \cup Reported /\ using[i] = {}
<1>1. /\ JobFits(i) /\ OneAtATime(i) /\ JobFits(j) /\ OneAtATime(j)
      /\ i \in Nat /\ j \in Nat /\ i # j /\ Len(jobs) \in Nat
  BY DEF IInv, Job, TypeOK
<1>2. j <= Len(jobs) /\ jobs[j] = RunningStatus
  BY <1>1 DEF JobFits
<1>3. j = Len(jobs)
  BY <1>1, <1>2 DEF OneAtATime
<1>4. CASE i > Len(jobs)
  BY <1>1, <1>4 DEF JobFits, Working
<1>5. CASE i < Len(jobs)
  <2>1. thread[i] \in Reported
    BY <1>1, <1>5 DEF JobFits, OneAtATime
  <2> QED BY <1>1, <2>1 DEF JobFits, Working, Reported
<1> QED BY <1>1, <1>3, <1>4, <1>5

\* What a step of a debate has to show.
LEMMA DebateKeeps ==
  ASSUME IInv, NEW j \in Job,
         NEW place \in {"newPool", "newVoting", "record", "fail"} \cup Debating,
         thread[j] \notin {"none"} \cup Reported \cup Recorded,
         thread' = [thread EXCEPT ![j] = place],
         UNCHANGED <<serverVars, debates_>>,
         {llm_client_, pool_, voting_system_, voting_pool}' \subseteq Job \cup {Nobody},
         NEW rounds \in 0 .. Rounds, left' = [left EXCEPT ![j] = rounds],
         NEW objects \in SUBSET Object, using' = [using EXCEPT ![j] = objects],
         place = "asking" => rounds > 0,
         objects # {} => place \in Working,
         serial => Own(j)'
  PROVE  IInv'
<1>1. /\ thread'[j] = place /\ left'[j] = rounds /\ using'[j] = objects
      /\ \A i \in Job \ {j} :
           thread'[i] = thread[i] /\ left'[i] = left[i] /\ using'[i] = using[i]
  BY DEF IInv, TypeOK
<1>2. UNCHANGED <<server, running_, jobs, query_history_, serial, debates_>>
  BY DEF serverVars
<1>3. TypeOK'
  <2>1. left' \in [Job -> 0 .. Rounds]
    BY DEF IInv, TypeOK
  <2>2. using' \in [Job -> SUBSET Object]
    BY DEF IInv, TypeOK
  <2> QED BY <1>2, <2>1, <2>2 DEF IInv, TypeOK, Debating, Working
<1>4. SpawnIsNew'
  <2>1. server = "spawn" => Len(jobs) \in Job \ {j}
    BY DEF IInv, SpawnIsNew, TypeOK, Job
  <2> QED BY <1>1, <1>2, <2>1 DEF IInv, SpawnIsNew
<1>5. ASSUME NEW i \in Job PROVE (JobFits(i) /\ OneAtATime(i))'
  <2>1. JobFits(i) /\ OneAtATime(i) /\ RecordsOf(i)' = RecordsOf(i)
    BY <1>2 DEF IInv, RecordsOf
  <2>2. CASE i = j
    <3>1. JobFits(j)'
      BY <1>1, <1>2, <2>1, <2>2 DEF JobFits, Reported, Recorded, Working, Debating
    <3> QED BY <1>2, <2>1, <2>2, <3>1 DEF OneAtATime
  <2>3. CASE i # j
    <3>1. JobFits(i)'
      BY <1>1, <1>2, <2>1, <2>3 DEF JobFits
    <3>2. ASSUME serial PROVE Own(i)'
      BY <1>1, <2>3, <3>2, OthersOwnNothing DEF Own, Reported, Debating, Working
    <3> QED BY <1>2, <2>1, <3>1, <3>2 DEF OneAtATime
  <2> QED BY <2>2, <2>3
<1> QED BY <1>3, <1>4, <1>5 DEF IInv

LEMMA DebateStepKeeps ==
  ASSUME IInv, NEW j \in Job,
         \/ CreateClient(j) \/ NewPool(j) \/ NewVoting(j)
         \/ BeginRound(j) \/ EndRound(j) \/ BeginElection(j) \/ EndElection(j)
         \/ BeginFinalize(j) \/ EndFinalize(j)
  PROVE  IInv'
<1> USE DEF Reported, Recorded, Debating, Working
<1>1. /\ JobFits(j) /\ OneAtATime(j) /\ left[j] \in 0 .. Rounds /\ using[j] \in SUBSET Object
      /\ {llm_client_, pool_, voting_system_, voting_pool} \subseteq Job \cup {Nobody}
      /\ left = [left EXCEPT ![j] = left[j]] /\ using = [using EXCEPT ![j] = using[j]]
  BY DEF IInv, TypeOK
<1>2. /\ UNCHANGED <<serverVars, debates_>> /\ thread[j] \notin {"none"} \cup Reported \cup Recorded
      /\ thread \in [Job -> {thread[i] : i \in Job}]
  BY DEF CreateClient, NewPool, NewVoting, BeginRound, EndRound, BeginElection, EndElection,
     BeginFinalize, EndFinalize, At, IInv, TypeOK
<1>3. thread[j] \notin Working => using[j] = {}
  BY <1>1 DEF JobFits
<1>4. CASE CreateClient(j)
  <2>1. PICK place \in {"newPool", "fail"} :
             /\ thread' = [thread EXCEPT ![j] = place]
             /\ place = "newPool" => llm_client_' = j
             /\ llm_client_' \in {llm_client_, j}
    BY <1>4 DEF CreateClient, Goto
  <2>2. UNCHANGED <<left, using, pool_, voting_system_, voting_pool>> /\ using[j] = {}
    BY <1>3, <1>4 DEF CreateClient, At
  <2>3. serial => Own(j)'
    BY <1>2, <2>1, <2>2 DEF Own
  <2> QED BY <1>1, <1>2, <2>1, <2>2, <2>3, DebateKeeps
<1>5. CASE NewPool(j)
  <2>1. /\ thread[j] = "newPool" /\ thread' = [thread EXCEPT ![j] = "newVoting"] /\ pool_' = j
        /\ UNCHANGED <<left, using, llm_client_, voting_system_, voting_pool>> /\ using[j] = {}
    BY <1>3, <1>5 DEF NewPool, At, Goto
  <2>2. serial => Own(j)'
    BY <1>1, <1>2, <2>1 DEF Own, OneAtATime
  <2>3. /\ left' = [left EXCEPT ![j] = left[j]] /\ using' = [using EXCEPT ![j] = using[j]]
        /\ {llm_client_, pool_, voting_system_, voting_pool}' \subseteq Job \cup {Nobody}
    BY <1>1, <2>1
  <2>4. PICK place \in {"newVoting"} : thread' = [thread EXCEPT ![j] = place]
    BY <2>1
  <2> QED BY <1>1, <1>2, <2>1, <2>2, <2>3, <2>4, DebateKeeps
<1>6. CASE NewVoting(j)
  <2>1. /\ thread[j] = "newVoting" /\ thread' = [thread EXCEPT ![j] = "round"]
        /\ voting_system_' = j /\ voting_pool' = pool_
        /\ UNCHANGED <<left, using, llm_client_, pool_>> /\ using[j] = {}
    BY <1>3, <1>6 DEF NewVoting, At, Goto
  <2>2. serial => Own(j)'
    BY <1>1, <1>2, <2>1 DEF Own, OneAtATime
  <2>3. /\ left' = [left EXCEPT ![j] = left[j]] /\ using' = [using EXCEPT ![j] = using[j]]
        /\ {llm_client_, pool_, voting_system_, voting_pool}' \subseteq Job \cup {Nobody}
    BY <1>1, <2>1
  <2>4. PICK place \in {"round"} : thread' = [thread EXCEPT ![j] = place]
    BY <2>1
  <2> QED BY <1>1, <1>2, <2>1, <2>2, <2>3, <2>4, DebateKeeps
<1>7. CASE BeginRound(j) \/ BeginElection(j) \/ BeginFinalize(j)
  <2>1. /\ thread[j] \in {"round", "election", "final"} /\ using[j] = {}
        /\ UNCHANGED <<left, llm_client_, pool_, voting_system_, voting_pool>>
    BY <1>3, <1>7 DEF BeginRound, BeginElection, BeginFinalize, At, councilVars
  <2>2. PICK place \in Debating, objects \in SUBSET {<<"client", llm_client_>>,
             <<"pool", pool_>>, <<"voting", voting_system_>>, <<"pool", voting_pool>>} :
             /\ thread' = [thread EXCEPT ![j] = place]
             /\ using' = [using EXCEPT ![j] = objects]
             /\ place = "asking" => left[j] > 0
             /\ objects # {} => place \in Working
    BY <1>1, <1>7, <2>1 DEF BeginRound, BeginElection, BeginFinalize, Goto, Take
  <2>3. objects \in SUBSET Object
    BY <1>1 DEF Object
  <2>4. serial => Own(j)'
    <3>1. thread'[j] = place /\ using'[j] = objects
      BY <2>2 DEF IInv, TypeOK
    <3> QED BY <1>1, <2>1, <2>2, <3>1 DEF Own, OneAtATime, serverVars
  <2> QED BY <1>1, <1>2, <2>1, <2>2, <2>3, <2>4, DebateKeeps
<1>8. CASE EndRound(j) \/ EndElection(j) \/ EndFinalize(j)
  <2>1. /\ thread[j] \in Working /\ using' = [using EXCEPT ![j] = {}]
        /\ UNCHANGED <<llm_client_, pool_, voting_system_, voting_pool>>
    BY <1>8 DEF EndRound, EndElection, EndFinalize, At, Take, councilVars
  <2>2. PICK place \in {"election", "final", "fail", "round", "record"} :
             thread' = [thread EXCEPT ![j] = place]
    BY <1>8 DEF EndRound, EndElection, EndFinalize, Goto
  <2>3. PICK rounds \in 0 .. Rounds : left' = [left EXCEPT ![j] = rounds]
    <3>1. CASE EndRound(j)
      <4>1. left[j] > 0 /\ left' = [left EXCEPT ![j] = left[j] - 1]
        BY <1>1, <3>1 DEF EndRound, At, JobFits
      <4>2. left[j] - 1 \in 0 .. Rounds
        BY <1>1, <4>1
      <4> QED BY <4>1, <4>2
    <3>2. CASE EndElection(j) \/ EndFinalize(j)
      BY <1>1, <3>2 DEF EndElection, EndFinalize
    <3> QED BY <1>8, <3>1, <3>2
  <2>4. serial => Own(j)'
    <3>1. thread'[j] = place /\ using'[j] = {}
      BY <2>1, <2>2 DEF IInv, TypeOK
    <3> QED BY <1>1, <2>1, <3>1 DEF Own, OneAtATime
  <2>5. {} \in SUBSET Object
    OBVIOUS
  <2> QED BY <1>1, <1>2, <2>1, <2>2, <2>3, <2>4, <2>5, DebateKeeps
<1> QED BY <1>4, <1>5, <1>6, <1>7, <1>8

-----------------------------------------------------------------------------

\* A record is its thread's first: it had none before.
LEMMA RecordKeeps ==
  ASSUME IInv, NEW j \in Job, RecordSuccess(j) \/ RecordFailure(j)
  PROVE  IInv'
<1>1. PICK place \in Recorded, success \in BOOLEAN :
           /\ thread' = [thread EXCEPT ![j] = place]
           /\ debates_' = Append(debates_, [job |-> j, success |-> success])
           /\ success <=> place = "complete"
           /\ thread[j] = IF success THEN "record" ELSE "failRecord"
           /\ UNCHANGED <<serverVars, left, using, councilVars>>
  BY DEF RecordSuccess, RecordFailure, record_debate, At, Goto, Recorded
<1>2. UNCHANGED <<server, running_, jobs, query_history_, serial>>
  BY <1>1 DEF serverVars
<1>3. UNCHANGED <<llm_client_, pool_, voting_system_, voting_pool>>
  BY <1>1 DEF councilVars
<1>4. /\ thread'[j] = place
      /\ \A i \in Job \ {j} : thread'[i] = thread[i]
  BY <1>1 DEF IInv, TypeOK
<1> DEFINE n == Len(debates_)
<1>5. /\ n \in Nat /\ debates_' \in Seq(Debate) /\ Len(debates_') = n + 1
      /\ debates_'[n + 1] = [job |-> j, success |-> success]
      /\ \A k \in 1 .. n : debates_'[k] = debates_[k]
  <2>1. debates_ \in Seq(Debate) /\ [job |-> j, success |-> success] \in Debate
    BY DEF IInv, TypeOK, Debate
  <2> QED BY <1>1, <2>1
<1>6. TypeOK'
  <2>1. thread' = [thread EXCEPT ![j] = place] /\ place \in {"complete", "done"}
    BY <1>1 DEF Recorded
  <2> QED BY <1>1, <1>2, <1>3, <1>5, <2>1 DEF IInv, TypeOK
<1>7. SpawnIsNew'
  <2>1. server = "spawn" => Len(jobs) \in Job \ {j}
    BY <1>1 DEF IInv, SpawnIsNew, TypeOK, Job
  <2> QED BY <1>2, <1>4, <2>1 DEF IInv, SpawnIsNew
<1>8. ASSUME NEW i \in Job PROVE (JobFits(i) /\ OneAtATime(i))'
  <2>1. JobFits(i) /\ OneAtATime(i)
    BY DEF IInv
  <2>2. CASE i = j
    <3>1. RecordsOf(j) = {}
      BY <1>1, <2>1, <2>2 DEF JobFits, Recorded
    <3>2. RecordsOf(j)' = {n + 1}
      <4>1. \A k \in 1 .. n : debates_[k].job # j
        BY <3>1 DEF RecordsOf
      <4>2. 1 .. n + 1 = (1 .. n) \cup {n + 1}
        BY <1>5
      <4> QED BY <1>5, <4>1, <4>2 DEF RecordsOf
    <3>3. debates_'[n + 1].success = success
      BY <1>5
    <3>4. using[j] = {} /\ using' = using /\ left' = left
      BY <1>1, <2>1, <2>2 DEF JobFits, Working
    <3>5. j <= Len(jobs)
      BY <1>1, <2>1, <2>2 DEF JobFits, IInv, TypeOK, Job
    <3>6. JobFits(j)'
      <4>1. jobs[j] # CompleteStatus
        BY <1>1, <2>1, <2>2, <3>5
           DEF JobFits, Reported, RunningStatus, CompleteStatus, FailedStatus
      <4>2. \A k \in RecordsOf(j)' : debates_'[k].success <=> thread'[j] = "complete"
        BY <1>1, <1>4, <3>2, <3>3
      <4>3. jobs[j] # RunningStatus <=> place = "done"
        BY <1>1, <2>1, <2>2, <3>5 DEF JobFits, Reported, Recorded
      <4> QED BY <1>1, <1>2, <1>4, <2>1, <2>2, <3>2, <3>4, <3>5, <4>1, <4>2, <4>3
            DEF JobFits, Reported, Recorded, Working
    <3>7. serial => Own(j)'
      BY <1>1, <1>4, <3>4 DEF Own, Recorded, Debating, Working
    <3> QED BY <1>2, <2>1, <2>2, <3>6, <3>7 DEF OneAtATime
  <2>3. CASE i # j
    <3>1. RecordsOf(i)' = RecordsOf(i) /\ \A k \in RecordsOf(i) : debates_'[k] = debates_[k]
      <4>1. 1 .. n + 1 = (1 .. n) \cup {n + 1} /\ debates_'[n + 1].job # i
        BY <1>5, <2>3
      <4> QED BY <1>5, <4>1 DEF RecordsOf
    <3> QED BY <1>1, <1>2, <1>3, <1>4, <2>1, <2>3, <3>1 DEF JobFits, OneAtATime, Own
  <2> QED BY <2>2, <2>3
<1> QED BY <1>6, <1>7, <1>8 DEF IInv

\* A status is reported once, after the record of a success and before that
\* of a failure.
LEMMA ReportKeeps ==
  ASSUME IInv, NEW j \in Job, Complete(j) \/ Fail(j)
  PROVE  /\ IInv'
         /\ j <= Len(jobs) /\ jobs[j] = RunningStatus
         /\ \A i \in 1 .. Len(jobs) : i # j => jobs'[i] = jobs[i]
<1>1. PICK place \in Reported, outcome \in {CompleteStatus, FailedStatus} :
           /\ thread' = [thread EXCEPT ![j] = place]
           /\ jobs' = [jobs EXCEPT ![j] = outcome]
           /\ outcome = CompleteStatus <=> place = "done"
           /\ thread[j] = IF place = "done" THEN "complete" ELSE "fail"
           /\ UNCHANGED <<server, running_, query_history_, left, using, councilVars,
                          debates_, serial>>
  BY DEF Complete, Fail, update_job_output, At, Goto, Reported, CompleteStatus, FailedStatus
<1>2. UNCHANGED <<llm_client_, pool_, voting_system_, voting_pool>>
  BY <1>1 DEF councilVars
<1>3. /\ thread'[j] = place
      /\ \A i \in Job \ {j} : thread'[i] = thread[i]
  BY <1>1 DEF IInv, TypeOK
<1>4. JobFits(j) /\ OneAtATime(j) /\ j \in Nat /\ j > 0 /\ Len(jobs) \in Nat
  BY DEF IInv, Job, TypeOK
<1>5. j <= Len(jobs) /\ jobs[j] = RunningStatus
  BY <1>1, <1>4 DEF JobFits, Reported
<1>6. /\ jobs' \in Seq(Status) /\ Len(jobs') = Len(jobs) /\ jobs'[j] = outcome
      /\ \A i \in 1 .. Len(jobs) : i # j => jobs'[i] = jobs[i]
  <2>1. jobs \in Seq(Status) /\ outcome \in Status /\ j \in 1 .. Len(jobs)
    BY <1>4, <1>5 DEF IInv, TypeOK, Status
  <2> QED BY <1>1, <2>1
<1>7. TypeOK'
  <2>1. thread' = [thread EXCEPT ![j] = place] /\ place \in {"failRecord", "done"}
    BY <1>1 DEF Reported
  <2> QED BY <1>1, <1>2, <1>6, <2>1 DEF IInv, TypeOK
<1>8. SpawnIsNew'
  <2>1. server = "spawn" => Len(jobs) \in Job \ {j}
    BY <1>1 DEF IInv, SpawnIsNew, TypeOK, Job
  <2> QED BY <1>1, <1>3, <1>6, <2>1 DEF IInv, SpawnIsNew
<1>9. ASSUME NEW i \in Job PROVE (JobFits(i) /\ OneAtATime(i))'
  <2>1. JobFits(i) /\ OneAtATime(i) /\ RecordsOf(i)' = RecordsOf(i) /\ i \in Nat /\ i > 0
    BY <1>1 DEF IInv, RecordsOf, Job
  <2>2. CASE i = j
    <3>1. using[j] = {} /\ using' = using /\ left' = left /\ debates_' = debates_
      BY <1>1, <1>4 DEF JobFits, Working
    <3>2. JobFits(j)'
      <4>1. outcome # RunningStatus /\ (place = "failRecord" => outcome = FailedStatus)
        BY <1>1 DEF RunningStatus, CompleteStatus, FailedStatus, Reported
      <4>2. RecordsOf(j) # {} <=> place \in Recorded
        BY <1>1, <1>4 DEF JobFits, Recorded, Reported
      <4>3. \A k \in RecordsOf(j) : debates_[k].success <=> outcome = CompleteStatus
        BY <1>1, <1>4, <1>5, <4>2
           DEF JobFits, Recorded, Reported, RunningStatus, CompleteStatus
      <4> QED BY <1>1, <1>3, <1>4, <1>5, <1>6, <2>1, <2>2, <3>1, <4>1, <4>2, <4>3
            DEF JobFits, Reported, Working
    <3>3. serial => Own(j)'
      BY <1>1, <1>3, <3>1 DEF Own, Reported, Debating, Working
    <3> QED BY <1>1, <1>4, <1>6, <2>2, <3>2, <3>3 DEF OneAtATime, RunningStatus, CompleteStatus, FailedStatus
  <2>3. CASE i # j
    <3>1. thread'[i] = thread[i] /\ (i <= Len(jobs) => jobs'[i] = jobs[i])
      BY <1>3, <1>4, <1>6, <2>1, <2>3
    <3>2. RecordsOf(i) # {} => i <= Len(jobs)
      BY <1>4, <2>1 DEF JobFits, Recorded
    <3>3. JobFits(i)'
      BY <1>1, <1>6, <2>1, <3>1, <3>2 DEF JobFits
    <3> QED BY <1>1, <1>2, <1>4, <1>6, <2>1, <3>1, <3>3 DEF OneAtATime, Own
  <2> QED BY <2>2, <2>3
<1> QED BY <1>5, <1>6, <1>7, <1>8, <1>9 DEF IInv

-----------------------------------------------------------------------------

LEMMA NextIInv == IInv /\ [Next]_vars => IInv'
<1> SUFFICES ASSUME IInv, [Next]_vars PROVE IInv'
  OBVIOUS
<1>1. CASE UNCHANGED vars
  BY <1>1, LoopKeeps DEF vars, serverVars, IInv, TypeOK
<1>2. CASE Listen \/ Sent \/ Destroy \/ Exit \/ ReadJobs \/ ReadStats \/ HandlerThrows
          \/ SendKills \/ LastConnection \/ stop \/ Crash
          \/ \E j \in Job : RoundTerminates(j)
  <2>1. /\ UNCHANGED <<jobs, query_history_, serial, thread, left, using, councilVars, debates_>>
        /\ running_' \in BOOLEAN
        /\ server' \in {"starting", "accept", "sending", "stats", "returned", "destroyed", "gone"}
                         \cup {server}
    BY <1>2 DEF Listen, Sent, Destroy, Exit, ReadJobs, ReadStats, HandlerThrows, SendKills,
       LastConnection, stop, Crash, RoundTerminates, Loop, IInv, TypeOK
  <2> QED BY <2>1, LoopKeeps
<1>3. ASSUME NEW j \in Job, JobStep(j) PROVE IInv'
  BY <1>3, DebateStepKeeps, RecordKeeps, ReportKeeps DEF JobStep
<1> QED BY <1>1, <1>2, <1>3, PostKeeps, SpawnKeeps DEF Next, ServerStep

\* The invariant: how far a job's thread has come tells its status and its
\* record, and while queries come one at a time the council is its own.
THEOREM JobServerInvariant == Spec => []IInv
BY InitIInv, NextIInv, PTL DEF Spec

\* The server's state stays well typed, every job having an entry in the
\* history.
THEOREM JobServerTypeCorrect == Spec => []TypeOK
<1>1. IInv => TypeOK
  BY DEF IInv
<1> QED BY <1>1, JobServerInvariant, PTL

\* A query posted after the last one ended has the council to itself, although
\* the thread of the last job may still be running.
THEOREM SerialJobsAreIsolated == Spec => []IsolatedIfSerial
<1>1. IInv => IsolatedIfSerial
  <2> SUFFICES ASSUME IInv, serial, server # "destroyed", NEW j \in Job, NEW object \in using[j]
               PROVE  object[2] = j /\ object \in Alive
    BY DEF IsolatedIfSerial, Isolated
  <2>1. thread[j] \in Working /\ Own(j) /\ j # Nobody
    BY DEF IInv, JobFits, OneAtATime, Job, Nobody
  <2>2. object \in {<<"client", j>>, <<"pool", j>>, <<"voting", j>>}
    BY <2>1 DEF Own
  <2>3. llm_client_ = j /\ pool_ = j /\ voting_system_ = j
    BY <2>1 DEF Own, Debating
  <2> QED BY <2>1, <2>2, <2>3 DEF Alive
<1> QED BY <1>1, JobServerInvariant, PTL

\* The metrics count each job that ended once and as what it was reported to
\* be, and a reported status is final, for any number of clients and jobs.
THEOREM MetricsAgree == Spec => MetricsMatchJobs
<1> DEFINE Match ==
             \A j \in 1 .. Len(jobs) :
               /\ \A k, l \in RecordsOf(j) : k = l
               /\ thread[j] = "done" \/ jobs[j] = CompleteStatus =>
                    RecordsOf(j) # {}
               /\ jobs[j] # RunningStatus =>
                    \A k \in RecordsOf(j) :
                      debates_[k].success <=> jobs[j] = CompleteStatus
           Final == \A j \in 1 .. Len(jobs) : jobs[j] # RunningStatus => jobs'[j] = jobs[j]
<1>1. IInv => Match
  <2> SUFFICES ASSUME IInv, NEW j \in 1 .. Len(jobs)
               PROVE  /\ \A k, l \in RecordsOf(j) : k = l
                      /\ thread[j] = "done" \/ jobs[j] = CompleteStatus =>
                           RecordsOf(j) # {}
                      /\ jobs[j] # RunningStatus =>
                           \A k \in RecordsOf(j) :
                             debates_[k].success <=> jobs[j] = CompleteStatus
    OBVIOUS
  <2>1. JobFits(j) /\ j <= Len(jobs)
    BY DEF IInv, TypeOK, Job
  <2> QED BY <2>1 DEF JobFits, Reported, Recorded, RunningStatus, CompleteStatus, FailedStatus
<1>2. IInv /\ [Next]_vars => Final
  <2> SUFFICES ASSUME IInv, [Next]_vars, NEW j \in 1 .. Len(jobs), jobs[j] # RunningStatus
               PROVE  jobs'[j] = jobs[j]
    OBVIOUS
  <2>1. CASE jobs' = jobs
    BY <2>1
  <2>2. CASE PostQuery
    <3>1. jobs \in Seq(Status) /\ RunningStatus \in Status /\ jobs' = Append(jobs, RunningStatus)
      BY <2>2 DEF PostQuery, IInv, TypeOK, Status
    <3> QED BY <3>1
  <2>3. ASSUME NEW i \in Job, Complete(i) \/ Fail(i) PROVE jobs'[j] = jobs[j]
    BY <2>3, ReportKeeps
  <2>4. jobs' = jobs \/ PostQuery \/ \E i \in Job : Complete(i) \/ Fail(i)
    BY DEF Next, ServerStep, Listen, NewThread, Sent, Destroy, Exit, ReadJobs, ReadStats,
       HandlerThrows, SendKills, LastConnection, stop, Crash, RoundTerminates, JobStep, CreateClient, NewPool, NewVoting,
       BeginRound, EndRound, BeginElection, EndElection, BeginFinalize, EndFinalize,
       RecordSuccess, RecordFailure, vars, serverVars
  <2> QED BY <2>1, <2>2, <2>3, <2>4
<1> QED BY <1>1, <1>2, JobServerInvariant, PTL DEF Spec, MetricsMatchJobs

-----------------------------------------------------------------------------
(* The start of the program. *)

\* The stages by the phases they come after.
Overridden == {"defaults", "validate", "create", "available", "initialize", "debate", "serve"}
Keyed == Overridden \cup {"override"}
Read == {"arguments", "file", "environment"}

\* What each phase may rely on: the keys come from the file until the
\* environment is looked at, then from its best source; the command line has
\* its way until the end; and the validation leaves nothing to be refused.
KeysBest ==
  /\ config.claude_api_key = "ANTHROPIC_API_KEY" => "CLAUDE_API_KEY" \notin env
  /\ config.claude_api_key = "claude cli" =>
       env \cap {"CLAUDE_API_KEY", "ANTHROPIC_API_KEY"} = {}
  /\ config.google_agy_api_key = "GOOGLE_APPLICATION_CREDENTIALS" =>
       "GOOGLE_AGY_API_KEY" \notin env
  /\ config.google_agy_api_key = "gcloud" =>
       env \cap {"GOOGLE_AGY_API_KEY", "GOOGLE_APPLICATION_CREDENTIALS"} = {}
  /\ config.claude_api_key = "" =>
       env \cap {"CLAUDE_API_KEY", "ANTHROPIC_API_KEY", "claude cli"} = {}
  /\ config.google_agy_api_key = "" =>
       env \cap {"GOOGLE_AGY_API_KEY", "GOOGLE_APPLICATION_CREDENTIALS", "gcloud"} = {}

ArgumentsKept ==
  /\ opts.rounds > 0 => config.rounds = opts.rounds
  /\ opts.models > 0 => config.models = opts.models
  /\ opts.urls.count > 0 => config.urls = opts.urls

StartInv ==
  /\ MainTypeOK /\ opts.rounds \in ArgRounds \cup {0}
  /\ stage \in Read => /\ config.claude_api_key \in {"", "file"}
                       /\ config.google_agy_api_key \in {"", "file"}
  /\ stage \in Keyed => KeysBest
  /\ stage \in Overridden => ArgumentsKept
  /\ stage = "validate" => config.google_agy_model # ""
  /\ ValidatedStarts

\* The kinds of a setting.
RoundsType == {DefaultRounds} \cup FileRounds \cup {n \in ArgRounds : n > 0}
ModelType == {"", "file", "GOOGLE_AGY_MODEL", "default"}
KeyType == {"", "file"} \cup KeySource

LEMMA StartConstants ==
  /\ FileRounds \subseteq Nat /\ AskedRounds \subseteq Nat /\ LineBound \in Nat
  /\ RoundsType \subseteq Nat /\ ArgRounds \subseteq Int
<1>1. FileRounds \subseteq Nat /\ AskedRounds \subseteq Nat /\ LineBound \in Nat
  BY StartupAssumption DEF StartupAssumption
<1>2. ArgRounds \subseteq Int
  BY <1>1 DEF ArgRounds
<1>3. ASSUME NEW n \in ArgRounds, n > 0 PROVE n \in Nat
  <2>1. n \in Int
    BY <1>2
  <2> QED BY <1>3, <2>1
<1>4. DefaultRounds \in Nat
  BY DEF DefaultRounds
<1> QED BY <1>1, <1>2, <1>3, <1>4 DEF RoundsType

LEMMA InitStartInv == MainInit => StartInv
<1> SUFFICES ASSUME MainInit PROVE StartInv
  OBVIOUS
<1>1. config \in Configuration
  BY DEF MainInit, Configuration, NoUrls, Urls, ApiType
<1>2. MainTypeOK
  <2>1. NoUrls \in Urls
    BY DEF NoUrls, Urls
  <2>2. opts \in [rounds : Int, models : Nat, urls : Urls, web : BOOLEAN]
    <3>1. opts = [rounds |-> 0, models |-> 0, urls |-> NoUrls, web |-> FALSE]
      BY DEF MainInit
    <3>2. 0 \in Int /\ 0 \in Nat /\ FALSE \in BOOLEAN
      OBVIOUS
    <3> QED BY <2>1, <3>1, <3>2
  <2>3. lines \in 0 .. LineBound /\ status \in {0, 1} /\ stage \in Stage
    <3>1. lines = 0 /\ status = 0 /\ stage = "arguments"
      BY DEF MainInit
    <3>2. LineBound \in Nat
      BY StartConstants
    <3> QED BY <3>1, <3>2 DEF Stage
  <2> QED BY <1>1, <2>2, <2>3 DEF MainInit, MainTypeOK
<1>3. ValidatedStarts
  BY DEF MainInit, ValidatedStarts, Validated
<1> QED BY <1>2, <1>3 DEF MainInit, StartInv, Keyed, Overridden, Read

LEMMA ParseStartInv == StartInv /\ parse_arguments => StartInv'
<1> SUFFICES ASSUME StartInv, parse_arguments PROVE StartInv'
  OBVIOUS
<1>1. opts' \in [rounds : Int, models : Nat, urls : Urls, web : BOOLEAN]
      /\ opts'.rounds \in ArgRounds \cup {0}
  <2>1. CASE UNCHANGED opts
    BY <2>1 DEF StartInv, MainTypeOK
  <2>2. CASE \E rounds \in ArgRounds, models \in 0 .. 2, urls \in UrlChoice,
                web \in BOOLEAN :
               opts' = [rounds |-> rounds, models |-> models, urls |-> urls,
                        web |-> web]
    <3>1. UrlChoice \subseteq Urls
      <4>1. NoUrls \in Urls
        BY DEF NoUrls, Urls
      <4>2. [count : {1, 2}, valid : BOOLEAN] \subseteq Urls
        BY DEF Urls
      <4> QED BY <4>1, <4>2 DEF UrlChoice
    <3> QED BY <2>2, <3>1, StartConstants
  <2> QED BY <2>1, <2>2 DEF parse_arguments
<1>2. MainTypeOK'
  BY <1>1 DEF parse_arguments, ExitWith, Abort, StartInv, MainTypeOK, Stage
<1>3. ValidatedStarts'
  BY DEF parse_arguments, ExitWith, Abort, ValidatedStarts, Validated
<1> QED BY <1>1, <1>2, <1>3
    DEF parse_arguments, ExitWith, Abort, StartInv, Keyed, Overridden, Read

LEMMA ReadLineStartInv == StartInv /\ ReadLine => StartInv'
<1> SUFFICES ASSUME StartInv, ReadLine PROVE StartInv'
  OBVIOUS
<1>0. /\ config \in Configuration /\ lines \in Nat /\ lines' = lines + 1
      /\ lines < LineBound /\ stage = "file"
      /\ stage' \in {"file", "aborted"} /\ UNCHANGED <<opts, env, status>>
  <2>1. config \in Configuration /\ lines \in Nat
    <3>1. config \in Configuration /\ lines \in 0 .. LineBound
      BY DEF StartInv, MainTypeOK
    <3> QED BY <3>1
  <2>2. stage' \in {"file", "aborted"} /\ UNCHANGED status
    BY DEF ReadLine, Abort
  <2> QED BY <2>1, <2>2 DEF ReadLine
<1> DEFINE Fits ==
      /\ config' \in Configuration
      /\ config'.claude_api_key \in {config.claude_api_key, "file"}
      /\ config'.google_agy_api_key \in {config.google_agy_api_key, "file"}
<1>1. Fits
  <2>1. CASE UNCHANGED config
    BY <1>0, <2>1
  <2>2. ASSUME NEW n \in FileRounds, config' = [config EXCEPT !.rounds = n]
        PROVE  Fits
    BY <1>0, <2>2 DEF Configuration
  <2>3. CASE config' = [config EXCEPT !.models = @ + 1]
    <3>1. config.models + 1 \in Nat
      <4>1. config.models \in Nat
        BY <1>0 DEF Configuration
      <4> QED BY <4>1
    <3> QED BY <1>0, <2>3, <3>1 DEF Configuration
  <2>4. ASSUME NEW valid \in BOOLEAN,
               config' = [config EXCEPT !.urls =
                 [count |-> @.count + 1, valid |-> @.valid /\ valid]]
        PROVE  Fits
    <3>1. [count |-> config.urls.count + 1, valid |-> config.urls.valid /\ valid] \in Urls
      <4>1. config.urls \in Urls
        BY <1>0 DEF Configuration
      <4>2. config.urls.count + 1 \in Nat
        BY <4>1 DEF Urls
      <4>3. (config.urls.valid /\ valid) \in BOOLEAN
        OBVIOUS
      <4> QED BY <4>2, <4>3 DEF Urls
    <3> QED BY <1>0, <2>4, <3>1 DEF Configuration
  <2>5. ASSUME NEW type \in ApiType, config' = [config EXCEPT !.api_type = type]
        PROVE  Fits
    BY <1>0, <2>5 DEF Configuration
  <2>6. CASE \/ config' = [config EXCEPT !.claude_api_key = "file"]
             \/ config' = [config EXCEPT !.google_agy_api_key = "file"]
             \/ config' = [config EXCEPT !.google_agy_model = "file"]
             \/ config' = [config EXCEPT !.google_agy_endpoint = "file"]
    BY <1>0, <2>6 DEF Configuration
  <2> QED BY <2>1, <2>2, <2>3, <2>4, <2>5, <2>6 DEF ReadLine, set_config_value
<1>2. lines' \in 0 .. LineBound
  BY <1>0, StartConstants
<1>3. MainTypeOK'
  BY <1>0, <1>1, <1>2 DEF StartInv, MainTypeOK, Stage
<1>4. ValidatedStarts'
  BY <1>0 DEF ValidatedStarts, Validated
<1> QED BY <1>0, <1>1, <1>3, <1>4 DEF StartInv, Keyed, Overridden, Read

\* A key found by the environment is the best there is.
LEMMA KeysFound ==
  ASSUME NEW found \in SUBSET KeySource, NEW key \in {"", "file"}
  PROVE  /\ ClaudeKey(key, found) \in KeyType
         /\ ClaudeKey(key, found) = "ANTHROPIC_API_KEY" => "CLAUDE_API_KEY" \notin found
         /\ ClaudeKey(key, found) = "claude cli" =>
              found \cap {"CLAUDE_API_KEY", "ANTHROPIC_API_KEY"} = {}
         /\ ClaudeKey(key, found) = "" =>
              found \cap {"CLAUDE_API_KEY", "ANTHROPIC_API_KEY", "claude cli"} = {}
         /\ GoogleKey(key, found) \in KeyType
         /\ GoogleKey(key, found) = "GOOGLE_APPLICATION_CREDENTIALS" =>
              "GOOGLE_AGY_API_KEY" \notin found
         /\ GoogleKey(key, found) = "gcloud" =>
              found \cap {"GOOGLE_AGY_API_KEY", "GOOGLE_APPLICATION_CREDENTIALS"} = {}
         /\ GoogleKey(key, found) = "" =>
              found \cap {"GOOGLE_AGY_API_KEY", "GOOGLE_APPLICATION_CREDENTIALS",
                          "gcloud"} = {}
BY DEF ClaudeKey, GoogleKey, read_claude_cli_credentials, read_gcloud_credentials,
   KeyType, KeySource

LEMMA EnvironmentStartInv == StartInv /\ apply_env_overrides => StartInv'
<1> SUFFICES ASSUME StartInv, apply_env_overrides PROVE StartInv'
  OBVIOUS
<1>0. /\ stage = "environment" /\ stage' \in {"override", "aborted"}
      /\ config \in Configuration /\ UNCHANGED <<opts, lines, status>>
      /\ config.claude_api_key \in {"", "file"}
      /\ config.google_agy_api_key \in {"", "file"}
  BY DEF apply_env_overrides, Abort, StartInv, MainTypeOK, Read
<1>1. PICK found \in SUBSET KeySource, model \in {"", "GOOGLE_AGY_MODEL"},
           project \in read_gcloud_project :
        /\ env' = found
        /\ config' = [config EXCEPT
             !.claude_api_key = ClaudeKey(@, found),
             !.google_agy_api_key = GoogleKey(@, found),
             !.google_agy_model = IF @ = "" THEN model ELSE @,
             !.google_agy_endpoint = IF @ = "" THEN project ELSE @]
  BY DEF apply_env_overrides
<1>2. config' = [rounds |-> config.rounds, models |-> config.models, urls |-> config.urls,
                 api_type |-> config.api_type,
                 claude_api_key |-> ClaudeKey(config.claude_api_key, found),
                 google_agy_api_key |-> GoogleKey(config.google_agy_api_key, found),
                 google_agy_endpoint |->
                   IF config.google_agy_endpoint = "" THEN project
                                                      ELSE config.google_agy_endpoint,
                 google_agy_model |->
                   IF config.google_agy_model = "" THEN model ELSE config.google_agy_model]
  BY <1>0, <1>1 DEF Configuration
<1>3. config' \in Configuration
  <2>1. /\ ClaudeKey(config.claude_api_key, found) \in KeyType
        /\ GoogleKey(config.google_agy_api_key, found) \in KeyType
    BY <1>0, KeysFound
  <2> QED BY <1>0, <1>2, <2>1 DEF Configuration, KeyType, read_gcloud_project
<1>4. KeysBest'
  <2>1. /\ config'.claude_api_key = ClaudeKey(config.claude_api_key, found)
        /\ config'.google_agy_api_key = GoogleKey(config.google_agy_api_key, found)
        /\ env' = found
    BY <1>1, <1>2
  <2> QED BY <1>0, <2>1, KeysFound DEF KeysBest
<1>5. MainTypeOK'
  BY <1>0, <1>1, <1>3 DEF StartInv, MainTypeOK, Stage
<1>6. ValidatedStarts'
  BY <1>0 DEF ValidatedStarts, Validated
<1> QED BY <1>0, <1>4, <1>5, <1>6 DEF StartInv, Keyed, Overridden, Read

LEMMA OverrideStartInv == StartInv /\ OverrideWithArguments => StartInv'
<1> SUFFICES ASSUME StartInv, OverrideWithArguments PROVE StartInv'
  OBVIOUS
<1>0. /\ stage = "override" /\ stage' = "defaults" /\ config \in Configuration
      /\ opts \in [rounds : Int, models : Nat, urls : Urls, web : BOOLEAN]
      /\ opts.rounds \in ArgRounds \cup {0} /\ UNCHANGED <<opts, env, lines, status>>
  BY DEF OverrideWithArguments, StartInv, MainTypeOK
<1>1. config' = [rounds |-> IF opts.rounds > 0 THEN opts.rounds ELSE config.rounds,
                 models |-> IF opts.models > 0 THEN opts.models ELSE config.models,
                 urls |-> IF opts.urls.count > 0 THEN opts.urls ELSE config.urls,
                 api_type |-> config.api_type,
                 claude_api_key |-> config.claude_api_key,
                 google_agy_api_key |-> config.google_agy_api_key,
                 google_agy_endpoint |-> config.google_agy_endpoint,
                 google_agy_model |-> config.google_agy_model]
  BY <1>0 DEF OverrideWithArguments, Configuration
<1>2. config' \in Configuration
  <2>1. opts.rounds > 0 => opts.rounds \in {n \in ArgRounds : n > 0}
    BY <1>0
  <2> QED BY <1>0, <1>1, <2>1 DEF Configuration
<1>3. ArgumentsKept' /\ KeysBest'
  BY <1>0, <1>1 DEF StartInv, ArgumentsKept, KeysBest, Keyed
<1>4. MainTypeOK'
  BY <1>0, <1>2 DEF StartInv, MainTypeOK, Stage
<1>5. ValidatedStarts'
  BY <1>0 DEF ValidatedStarts, Validated
<1> QED BY <1>0, <1>3, <1>4, <1>5 DEF StartInv, Keyed, Overridden, Read

LEMMA DefaultsStartInv == StartInv /\ apply_defaults => StartInv'
<1> SUFFICES ASSUME StartInv, apply_defaults PROVE StartInv'
  OBVIOUS
<1>0. /\ stage = "defaults" /\ stage' = "validate" /\ config \in Configuration
      /\ opts \in [rounds : Int, models : Nat, urls : Urls, web : BOOLEAN]
      /\ UNCHANGED <<opts, env, lines, status>>
  BY DEF apply_defaults, StartInv, MainTypeOK
<1>1. config' = [rounds |-> IF config.rounds = 0 THEN DefaultRounds ELSE config.rounds,
                 models |-> IF config.models = 0 THEN DefaultModels ELSE config.models,
                 urls |-> IF config.urls.count = 0 THEN [count |-> 1, valid |-> TRUE]
                                                   ELSE config.urls,
                 api_type |-> config.api_type,
                 claude_api_key |-> config.claude_api_key,
                 google_agy_api_key |-> config.google_agy_api_key,
                 google_agy_endpoint |-> config.google_agy_endpoint,
                 google_agy_model |-> IF config.google_agy_model = "" THEN "default"
                                                       ELSE config.google_agy_model]
  BY <1>0 DEF apply_defaults, Configuration
<1>2. config' \in Configuration
  <2>1. [count |-> 1, valid |-> TRUE] \in Urls
    BY DEF Urls
  <2>2. DefaultModels \in Nat
    BY DEF DefaultModels
  <2>3. /\ DefaultRounds \in RoundsType /\ config.rounds \in RoundsType
        /\ config.models \in Nat /\ config.urls \in Urls
        /\ config.api_type \in ApiType
        /\ config.claude_api_key \in KeyType /\ config.google_agy_api_key \in KeyType
        /\ config.google_agy_endpoint \in {"", "file", "project"}
        /\ config.google_agy_model \in ModelType
    BY <1>0 DEF Configuration, RoundsType, KeyType, ModelType
  <2>4. /\ config'.rounds \in RoundsType /\ config'.models \in Nat /\ config'.urls \in Urls
        /\ config'.google_agy_model \in ModelType
    <3>1. "default" \in ModelType
      BY DEF ModelType
    <3> QED BY <1>1, <2>1, <2>2, <2>3, <3>1
  <2>5. config' \in [rounds : RoundsType, models : Nat, urls : Urls, api_type : ApiType,
                     claude_api_key : KeyType, google_agy_api_key : KeyType,
                     google_agy_endpoint : {"", "file", "project"},
                     google_agy_model : ModelType]
    BY <1>1, <2>3, <2>4
  <2> QED BY <2>5 DEF Configuration, RoundsType, KeyType, ModelType
<1>3. ArgumentsKept' /\ KeysBest'
  <2>1. ArgumentsKept /\ KeysBest
    BY <1>0 DEF StartInv, Keyed, Overridden
  <2>2. /\ config.rounds # 0 => config'.rounds = config.rounds
        /\ config.models # 0 => config'.models = config.models
        /\ config.urls.count # 0 => config'.urls = config.urls
        /\ config'.claude_api_key = config.claude_api_key
        /\ config'.google_agy_api_key = config.google_agy_api_key
        /\ env' = env /\ opts' = opts
    BY <1>0, <1>1
  <2>3. KeysBest'
    BY <2>1, <2>2 DEF KeysBest
  <2>4. ArgumentsKept'
    BY <1>0, <2>1, <2>2 DEF ArgumentsKept
  <2> QED BY <2>3, <2>4
<1>4. MainTypeOK'
  BY <1>0, <1>2 DEF StartInv, MainTypeOK, Stage
<1>5. ValidatedStarts'
  BY <1>0 DEF ValidatedStarts, Validated
<1>6. config'.google_agy_model # ""
  BY <1>1
<1> QED BY <1>0, <1>3, <1>4, <1>5, <1>6 DEF StartInv, Keyed, Overridden, Read

\* The phases that change neither the settings nor the keys.
LEMMA LaterStartInv ==
  ASSUME StartInv, UNCHANGED <<opts, config, env, lines>>,
         stage' \in Stage, status' \in {0, 1},
         \/ stage' \in {"exited", "aborted"}
         \/ stage = "file" /\ stage' = "environment"
         \/ stage = "validate" /\ stage' = "create" /\ Valid
         \/ stage \in {"create", "available", "initialize"} /\
            stage' \in {"available", "initialize", "debate", "serve"}
         \/ stage' = stage
  PROVE  StartInv'
<1>1. MainTypeOK'
  BY DEF StartInv, MainTypeOK
<1>2. ValidatedStarts'
  <2>1. CASE stage = "validate" /\ stage' = "create" /\ Valid
    <3>1. FactoryAccepts /\ CloudAvailable /\ config.models # 0
      <4>1. config.google_agy_model # ""
        BY <2>1 DEF StartInv
      <4>2. config.models # 0
        <5>1. config.models >= 2
          BY <2>1 DEF Valid, MinModels
        <5>2. config.models \in Nat
          BY DEF StartInv, MainTypeOK, Configuration
        <5> QED BY <5>1, <5>2
      <4>3. FactoryAccepts /\ CloudAvailable
        BY <2>1, <4>1 DEF Valid, FactoryAccepts, CloudAvailable, Constructed, ApiType
      <4> QED BY <4>2, <4>3
    <3> QED BY <3>1 DEF ValidatedStarts, FactoryAccepts, CloudAvailable, Constructed
  <2>2. CASE Validated' => Validated
    BY <2>2 DEF StartInv, ValidatedStarts, FactoryAccepts, CloudAvailable, Constructed
  <2> QED BY <2>1, <2>2 DEF Validated
<1>3. KeysBest' <=> KeysBest
  BY DEF KeysBest
<1>4. ArgumentsKept' <=> ArgumentsKept
  BY DEF ArgumentsKept
<1> QED BY <1>1, <1>2, <1>3, <1>4 DEF StartInv, Keyed, Overridden, Read

LEMMA NextStartInv == StartInv /\ [MainNext]_mainVars => StartInv'
<1> SUFFICES ASSUME StartInv, [MainNext]_mainVars PROVE StartInv'
  OBVIOUS
<1>0. stage \in Stage /\ status \in {0, 1}
  BY DEF StartInv, MainTypeOK
<1>1. CASE EndOfFile \/ validate \/ create_from_config \/ is_available \/ web_mode
           \/ initialize_analysts \/ Finish \/ Ended \/ UNCHANGED mainVars
  BY <1>0, <1>1, LaterStartInv DEF EndOfFile, validate, create_from_config, is_available, web_mode,
     initialize_analysts, Finish, Ended, mainVars, ExitWith, Stage
<1> QED BY <1>1, ParseStartInv, ReadLineStartInv, EnvironmentStartInv, OverrideStartInv,
        DefaultsStartInv DEF MainNext

\* No source leaves main's options or its configuration with anything but a
\* value of that source, the default or nothing.
THEOREM StartTypeCorrect == MainSpec => []MainTypeOK
<1>1. StartInv => MainTypeOK
  BY DEF StartInv
<1> QED BY <1>1, InitStartInv, NextStartInv, PTL DEF MainSpec

\* What passed the validation is not refused for its settings by the factory,
\* the client or the council, whatever file, environment and command line were.
THEOREM ValidatedIsAccepted == MainSpec => []ValidatedStarts
<1>1. StartInv => ValidatedStarts
  BY DEF StartInv
<1> QED BY <1>1, InitStartInv, NextStartInv, PTL DEF MainSpec

\* The command line has its way, and a key comes from the best of its sources,
\* for every file and every environment.
THEOREM SourcesAreRanked == MainSpec => []BestSourceWins
<1>1. StartInv => BestSourceWins
  BY DEF StartInv, BestSourceWins, Validated, Keyed, Overridden, KeysBest, ArgumentsKept
<1> QED BY <1>1, InitStartInv, NextStartInv, PTL DEF MainSpec
=============================================================================
