--------------------------- MODULE DashboardProofs ---------------------------
(***************************************************************************)
(* Proofs about the page of Dashboard, for any number of clicks, jobs,     *)
(* connections and ends of the server.  Where a request is routed to is    *)
(* not proved here but assumed in RoutesOfPage.                            *)
(***************************************************************************)
EXTENDS Dashboard, FiniteSetTheorems, TLAPS

USE DashboardAssumption DEF DashboardAssumption

-----------------------------------------------------------------------------
(* The inductive invariant. *)

Status == {RunningStatus, CompleteStatus, FailedStatus}

Text == {"plain", "quoted"}

JobRecord == [status : Status, query : Text, output : Text]

ReplyRecord ==
  [request : Request, json : BOOLEAN, job : Job \cup {NoJob}, status : Status]

Submits(set) == {r \in set : r.to = "submit"}

\* The page's variables, the user's and the server's but for its jobs.
PageOK ==
  /\ server \in {"up", "hung", "gone"}
  /\ selectedJobId \in Job \cup {NoJob}
  /\ polls \subseteq Job \cup {NoJob}
  /\ shown \in [View -> 0 .. JobBound]
  /\ debatePollingInterval \in Interval \cup {NoInterval}
  /\ watched \in [Interval -> Job \cup {NoJob}]
  /\ currentVisualizationJobId \in Job \cup {NoJob}
  /\ visualizations \in [Job -> 0 .. ClickBound]
  /\ \A j \in Job : visualizations[j] <= clicks
  /\ clicks \in 0 .. ClickBound /\ restarts \in 0 .. RestartBound
  /\ missed \in BOOLEAN

\* Every query that is on its way will find room for its job.
JobsOK ==
  /\ jobs \in Seq(JobRecord)
  /\ Len(jobs) + Cardinality(Submits(requests)) + Cardinality(Submits(abandoned))
       <= JobBound

\* The page submits no blank query.  It waits for job "undefined", and asks
\* for it, only after an answer without a job, which a POST gets whose body
\* was not read.
RequestsOK ==
  /\ requests \subseteq Request /\ abandoned \subseteq Request
  /\ \A r \in requests \cup abandoned :
       /\ r.to = "submit" => r.about # "blank"
       /\ r.to = "status" /\ r.about = NoJob => missed

AnswersOK ==
  /\ answers \subseteq ReplyRecord
  /\ \A a \in answers : a.request.to = "submit" /\ a.job = NoJob => missed

PollsOK == NoJob \in polls => missed

IInv == PageOK /\ JobsOK /\ RequestsOK /\ AnswersOK /\ PollsOK /\ OneProgressTimer

-----------------------------------------------------------------------------
(* Requests. *)

\* The requests of the page are of these kinds.
LEMMA Asked ==
  /\ \A text \in {"plain", "quoted", "blank"} : Ask("submit", text, NoInterval) \in Request
  /\ \A j \in Job \cup {NoJob} : Ask("status", j, NoInterval) \in Request
  /\ \A j \in Job : /\ Ask("output", j, NoInterval) \in Request
                    /\ Ask("visualization", j, NoInterval) \in Request
  /\ \A to \in View \cup {"stats", "trends"} : Ask(to, NoJob, NoInterval) \in Request
  /\ \A j \in Job, i \in Interval \cup {NoInterval} : Ask("progress", j, i) \in Request
BY DEF Ask, Request

LEMMA AskFields ==
  ASSUME NEW to, NEW about, NEW by
  PROVE  Ask(to, about, by).to = to /\ Ask(to, about, by).about = about
BY DEF Ask

LEMMA RequestKinds ==
  ASSUME NEW r \in Request
  PROVE  /\ r.to = "submit" => r.about \in {"plain", "quoted", "blank"}
                               /\ r = Ask("submit", r.about, NoInterval)
         /\ r.to = "status" => r.about \in Job \cup {NoJob}
         /\ r.to = "output" => r.about \in Job
BY DEF Request, Ask, View

\* There are finitely many submissions.
LEMMA SubmitsFinite ==
  ASSUME NEW R \in SUBSET Request
  PROVE  IsFiniteSet(Submits(R)) /\ Cardinality(Submits(R)) \in Nat
<1> DEFINE A == Ask("submit", "plain", NoInterval)
           B == Ask("submit", "quoted", NoInterval)
           C == Ask("submit", "blank", NoInterval)
<1>1. IsFiniteSet(({A} \cup {B}) \cup {C})
  <2> HIDE DEF A, B, C
  <2>1. IsFiniteSet({A})
    BY FS_Singleton
  <2>2. IsFiniteSet({A} \cup {B})
    BY <2>1, FS_AddElement
  <2> QED BY <2>2, FS_AddElement
<1>2. Submits(R) \in SUBSET (({A} \cup {B}) \cup {C})
  BY RequestKinds DEF Submits
<1> QED BY <1>1, <1>2, FS_Subset, FS_CardinalityType

LEMMA SubmitsFewer ==
  ASSUME NEW R \in SUBSET Request, NEW Q, \A r \in Q : r.to = "submit" => r \in R
  PROVE  Cardinality(Submits(Q)) <= Cardinality(Submits(R)) /\ Cardinality(Submits(Q)) \in Nat
<1>1. Submits(Q) \in SUBSET Submits(R)
  BY DEF Submits
<1> QED BY <1>1, SubmitsFinite, FS_Subset, FS_CardinalityType

LEMMA SubmitsMore ==
  ASSUME NEW R \in SUBSET Request, NEW x
  PROVE  Cardinality(Submits(R \cup {x})) <= Cardinality(Submits(R)) + 1
<1>1. Submits(R \cup {x}) \in SUBSET (Submits(R) \cup {x})
  BY DEF Submits
<1>2. IsFiniteSet(Submits(R)) /\ Cardinality(Submits(R)) \in Nat
  BY SubmitsFinite
<1>3. /\ IsFiniteSet(Submits(R) \cup {x})
      /\ Cardinality(Submits(R) \cup {x}) <= Cardinality(Submits(R)) + 1
  BY <1>2, FS_AddElement
<1>4. /\ Cardinality(Submits(R \cup {x})) \in Nat
      /\ Cardinality(Submits(R \cup {x})) <= Cardinality(Submits(R) \cup {x})
      /\ Cardinality(Submits(R) \cup {x}) \in Nat
  BY <1>1, <1>3, FS_Subset, FS_CardinalityType
<1> QED BY <1>2, <1>3, <1>4

LEMMA SubmitsTaken ==
  ASSUME NEW R \in SUBSET Request, NEW x \in R, x.to = "submit"
  PROVE  Cardinality(Submits(R \ {x})) = Cardinality(Submits(R)) - 1
<1>1. Submits(R \ {x}) = Submits(R) \ {x} /\ x \in Submits(R)
  BY DEF Submits
<1>2. IsFiniteSet(Submits(R)) /\ Cardinality(Submits(R)) \in Nat
  BY SubmitsFinite
<1> QED BY <1>1, <1>2, FS_RemoveElement

LEMMA SubmitsJoined ==
  ASSUME NEW R \in SUBSET Request, NEW S \in SUBSET Request,
         NEW Q, \A r \in Q : r.to = "submit" => r \in R \/ r \in S
  PROVE  /\ Cardinality(Submits(Q)) \in Nat
         /\ Cardinality(Submits(Q)) <= Cardinality(Submits(R)) + Cardinality(Submits(S))
<1> DEFINE both == Submits(R) \cup Submits(S)
<1>1. /\ IsFiniteSet(Submits(R)) /\ Cardinality(Submits(R)) \in Nat
      /\ IsFiniteSet(Submits(S)) /\ Cardinality(Submits(S)) \in Nat
  BY SubmitsFinite
<1>2. /\ IsFiniteSet(both)
      /\ Cardinality(both) = Cardinality(Submits(R)) + Cardinality(Submits(S))
                               - Cardinality(Submits(R) \cap Submits(S))
  BY <1>1, FS_Union
<1>3. Cardinality(Submits(R) \cap Submits(S)) \in Nat
  <2>1. (Submits(R) \cap Submits(S)) \in SUBSET Submits(R)
    OBVIOUS
  <2>2. IsFiniteSet(Submits(R) \cap Submits(S))
    BY <1>1, <2>1, FS_Subset
  <2> QED BY <2>2, FS_CardinalityType
<1>4. Submits(Q) \in SUBSET both
  BY DEF Submits
<1> HIDE DEF both
<1>5. /\ Cardinality(Submits(Q)) <= Cardinality(both)
      /\ Cardinality(Submits(Q)) \in Nat /\ Cardinality(both) \in Nat
  BY <1>2, <1>4, FS_Subset, FS_CardinalityType
<1> QED BY <1>1, <1>2, <1>3, <1>5

\* What JobsOK counts are numbers.
LEMMA Counted ==
  ASSUME IInv
  PROVE  /\ requests \in SUBSET Request /\ Cardinality(Submits(requests)) \in Nat
         /\ abandoned \in SUBSET Request /\ Cardinality(Submits(abandoned)) \in Nat
         /\ Len(jobs) \in Nat
<1>1. requests \in SUBSET Request /\ abandoned \in SUBSET Request /\ Len(jobs) \in Nat
  BY DEF IInv, RequestsOK, JobsOK
<1> QED BY <1>1, SubmitsFinite

-----------------------------------------------------------------------------
(* The steps. *)

LEMMA InitIInv == Init => IInv
<1> SUFFICES ASSUME Init PROVE IInv
  OBVIOUS
<1>0. PageOK
  <2>1. /\ shown \in [View -> 0 .. JobBound]
        /\ clicks \in 0 .. ClickBound /\ restarts \in 0 .. RestartBound
    BY DEF Init
  <2>2. /\ server \in {"up", "hung", "gone"}
        /\ selectedJobId \in Job \cup {NoJob} /\ polls \subseteq Job \cup {NoJob}
        /\ debatePollingInterval \in Interval \cup {NoInterval}
        /\ watched \in [Interval -> Job \cup {NoJob}]
        /\ currentVisualizationJobId \in Job \cup {NoJob}
        /\ visualizations \in [Job -> 0 .. ClickBound]
        /\ \A j \in Job : visualizations[j] <= clicks
    BY DEF Init
  <2>3. missed \in BOOLEAN
    BY DEF Init
  <2> QED BY <2>1, <2>2, <2>3 DEF PageOK
<1>1. PollsOK /\ OneProgressTimer /\ AnswersOK
  BY DEF Init, PollsOK, OneProgressTimer, AnswersOK
<1>2. RequestsOK
  BY Asked, AskFields DEF Init, Loaded, RequestsOK, View
<1>3. JobsOK
  <2>1. Submits(requests) = {} /\ Submits(abandoned) = {}
    BY AskFields DEF Init, Loaded, Submits, View
  <2>2. jobs \in Seq(JobRecord) /\ Len(jobs) = 0
    BY DEF Init
  <2>3. Cardinality({}) = 0
    BY FS_EmptySet
  <2> QED BY <2>1, <2>2, <2>3 DEF JobsOK
<1> QED BY <1>0, <1>1, <1>2, <1>3 DEF IInv

\* The page sends requests that are none but well formed ones and, if it
\* submits, finds room.
LEMMA SendKeeps ==
  ASSUME IInv, NEW new \in SUBSET Request, requests' = requests \cup new,
         \A r \in new : r.to # "submit",
         \A r \in new : r.to = "status" /\ r.about = NoJob => missed,
         UNCHANGED <<jobs, abandoned, missed>>
  PROVE  RequestsOK' /\ JobsOK'
<1>1. RequestsOK'
  BY DEF IInv, RequestsOK
<1>2. /\ Cardinality(Submits(requests')) <= Cardinality(Submits(requests))
      /\ Cardinality(Submits(requests')) \in Nat
  <2>1. \A r \in requests' : r.to = "submit" => r \in requests
    OBVIOUS
  <2> QED BY <2>1, SubmitsFewer, Counted
<1>3. JobsOK'
  BY <1>2, Counted DEF IInv, JobsOK
<1> QED BY <1>1, <1>3

LEMMA SubmitKeeps ==
  ASSUME IInv, MoreJobs, NEW text \in Text,
         Send({Ask("submit", text, NoInterval)}),
         UNCHANGED <<jobs, abandoned, missed>>
  PROVE  RequestsOK' /\ JobsOK'
<1> DEFINE new == Ask("submit", text, NoInterval)
<1>1. new \in Request /\ new.to = "submit" /\ new.about # "blank"
  BY Asked, AskFields DEF Text
<1>2. requests' = requests \cup {new}
  BY DEF Send
<1> HIDE DEF new
<1>3. RequestsOK'
  BY <1>1, <1>2 DEF IInv, RequestsOK
<1>4. Cardinality(Submits(requests')) <= Cardinality(Submits(requests)) + 1
  BY <1>2, SubmitsMore, Counted
<1>5. Cardinality(Submits(requests')) \in Nat
  BY <1>3, SubmitsFinite DEF RequestsOK
<1>6. Len(jobs) + Cardinality(Submits(requests)) + Cardinality(Submits(abandoned))
        < JobBound
  BY DEF MoreJobs, Submits
<1>7. JobsOK'
  BY <1>4, <1>5, <1>6, Counted DEF IInv, JobsOK
<1> QED BY <1>3, <1>7

\* Requests that are taken or lost.
LEMMA DropKeeps ==
  ASSUME IInv, requests' \in SUBSET requests, abandoned' \in SUBSET abandoned,
         missed => missed', UNCHANGED jobs
  PROVE  RequestsOK' /\ JobsOK'
<1>1. RequestsOK'
  BY DEF IInv, RequestsOK
<1>2. /\ Cardinality(Submits(requests')) <= Cardinality(Submits(requests))
      /\ Cardinality(Submits(requests')) \in Nat
  BY SubmitsFewer, Counted
<1>3. /\ Cardinality(Submits(abandoned')) <= Cardinality(Submits(abandoned))
      /\ Cardinality(Submits(abandoned')) \in Nat
  BY SubmitsFewer, Counted
<1>4. JobsOK'
  BY <1>2, <1>3, Counted DEF IInv, JobsOK
<1> QED BY <1>1, <1>4

\* What stops or starts the polling of a debate leaves one timer at the most.
LEMMA StopKeeps ==
  ASSUME IInv, StopDebatePolling
  PROVE  /\ OneProgressTimer'
         /\ debatePollingInterval' \in Interval \cup {NoInterval}
         /\ watched' \in [Interval -> Job \cup {NoJob}]
BY DEF IInv, PageOK, OneProgressTimer, StopDebatePolling, Cleared

LEMMA UserIInv == IInv /\ UserStep => IInv'
<1> SUFFICES ASSUME IInv, UserStep PROVE IInv'
  OBVIOUS
<1>0. Click => /\ clicks' \in Interval /\ clicks' \in 0 .. ClickBound
               /\ clicks' = clicks + 1 /\ clicks \in Nat
  BY DEF Click, IInv, PageOK, Interval
<1>9. ASSUME Click, UNCHANGED visualization
      PROVE  /\ currentVisualizationJobId' \in Job \cup {NoJob}
             /\ visualizations' \in [Job -> 0 .. ClickBound]
             /\ \A j \in Job : visualizations'[j] <= clicks'
  BY <1>0, <1>9 DEF visualization, IInv, PageOK
<1>1. CASE submitQuery
  <2>1. PICK text \in Text : Send({Ask("submit", text, NoInterval)})
    BY <1>1 DEF submitQuery, Text
  <2>2. RequestsOK' /\ JobsOK'
    BY <1>1, <2>1, SubmitKeeps DEF submitQuery
  <2>3. PageOK' /\ AnswersOK' /\ PollsOK' /\ OneProgressTimer'
    BY <1>0, <1>1, <1>9 DEF submitQuery, page, debate, IInv, PageOK, AnswersOK, PollsOK, OneProgressTimer
  <2> QED BY <2>2, <2>3 DEF IInv
<1>2. CASE rerunDebate
  <2>1. RequestsOK' /\ JobsOK'
    BY <1>2, SubmitKeeps DEF rerunDebate, Text
  <2>2. PageOK' /\ AnswersOK' /\ PollsOK' /\ OneProgressTimer'
    BY <1>0, <1>2, <1>9, StopKeeps DEF rerunDebate, IInv, PageOK, AnswersOK, PollsOK
  <2> QED BY <2>1, <2>2 DEF IInv
<1>3. CASE SwitchTab
  <2> DEFINE new == requests' \ requests
  <2>1. /\ requests' = requests \cup new
        /\ \A r \in new : \E to \in {"history", "trends", "stats"} :
                           r = Ask(to, NoJob, NoInterval)
    BY <1>3 DEF SwitchTab, Send, AskForTrends, AskForStats
  <2> HIDE DEF new
  <2>2. RequestsOK' /\ JobsOK'
    <3>1. new \in SUBSET Request
      BY <2>1, Asked DEF View
    <3>2. \A r \in new : r.to # "submit" /\ r.to # "status"
      BY <2>1, AskFields
    <3> QED BY <1>3, <2>1, <3>1, <3>2, SendKeeps DEF SwitchTab
  <2>3. PageOK' /\ AnswersOK' /\ PollsOK' /\ OneProgressTimer'
    BY <1>0, <1>3, <1>9, StopKeeps DEF SwitchTab, IInv, PageOK, AnswersOK, PollsOK
  <2> QED BY <2>2, <2>3 DEF IInv
<1>4. CASE WatchDebate
  <2>1. selectedJobId \in Job
    BY <1>4 DEF WatchDebate, IInv, PageOK
  <2>2. RequestsOK' /\ JobsOK'
    <3> DEFINE new == Ask("progress", selectedJobId, NoInterval)
    <3>1. new \in Request /\ new.to = "progress"
      BY <2>1, Asked, AskFields
    <3>2. requests' = requests \cup {new}
      BY <1>4 DEF WatchDebate, Send
    <3> HIDE DEF new
    <3>3. {new} \in SUBSET Request /\ \A r \in {new} : r.to \notin {"submit", "status"}
      BY <3>1
    <3> QED BY <1>4, <3>2, <3>3, SendKeeps DEF WatchDebate
  <2>3. PageOK' /\ AnswersOK' /\ PollsOK'
    BY <1>0, <1>4, <1>9, <2>1 DEF WatchDebate, Cleared, IInv, PageOK, AnswersOK, PollsOK
  <2>4. OneProgressTimer'
    BY <1>0, <1>4 DEF WatchDebate, Cleared, IInv, PageOK, OneProgressTimer
  <2> QED BY <2>2, <2>3, <2>4 DEF IInv
<1>5. CASE Reload
  <2>0. /\ \A r \in requests' : r \in Request /\ r.to \notin {"submit", "status"}
        /\ requests' \in SUBSET Request
    BY <1>5, Asked, AskFields DEF Reload, Loaded, View
  <2>1. \A r \in requests : \/ Abandoned(r) = r
                            \/ /\ Abandoned(r) \in Request
                               /\ Abandoned(r).to = "trends"
    BY Asked, AskFields DEF Abandoned
  <2>2. \A q \in abandoned' : \/ q \in abandoned \/ q \in requests
                              \/ q \in Request /\ q.to = "trends"
    BY <1>5, <2>1 DEF Reload
  <2>3. RequestsOK'
    BY <1>5, <2>0, <2>2 DEF Reload, IInv, RequestsOK
  <2>4. JobsOK'
    <3>1. /\ Cardinality(Submits(abandoned')) \in Nat
          /\ Cardinality(Submits(abandoned')) <=
               Cardinality(Submits(abandoned)) + Cardinality(Submits(requests))
      <4>1. \A q \in abandoned' : q.to = "submit" => q \in abandoned \/ q \in requests
        BY <2>2
      <4> QED BY <4>1, SubmitsJoined, Counted
    <3>2. Cardinality(Submits(requests')) = 0
      <4>1. Submits(requests') = {}
        BY <2>0 DEF Submits
      <4> QED BY <4>1, FS_EmptySet
    <3> QED BY <1>5, <3>1, <3>2, Counted DEF Reload, IInv, JobsOK
  <2>5. PageOK' /\ AnswersOK' /\ PollsOK' /\ OneProgressTimer'
    BY <1>0, <1>5 DEF Reload, IInv, PageOK, AnswersOK, PollsOK, OneProgressTimer
  <2> QED BY <2>3, <2>4, <2>5 DEF IInv
<1>6. ASSUME NEW j \in Job, selectJob(j) PROVE IInv'
  <2>1. RequestsOK' /\ JobsOK'
    <3> DEFINE new == Ask("output", j, NoInterval)
    <3>1. new \in Request /\ new.to = "output"
      BY Asked, AskFields
    <3>2. requests' = requests \cup {new}
      BY <1>6 DEF selectJob, Send
    <3> HIDE DEF new
    <3>3. {new} \in SUBSET Request /\ \A r \in {new} : r.to \notin {"submit", "status"}
      BY <3>1
    <3> QED BY <1>6, <3>2, <3>3, SendKeeps DEF selectJob
  <2>2. PageOK' /\ AnswersOK' /\ PollsOK' /\ OneProgressTimer'
    BY <1>0, <1>6, <1>9 DEF selectJob, debate, IInv, PageOK, AnswersOK, PollsOK, OneProgressTimer
  <2> QED BY <2>1, <2>2 DEF IInv
<1>7. CASE Visualize
  <2>1. selectedJobId \in Job
    BY <1>7 DEF Visualize, IInv, PageOK
  <2>2. RequestsOK' /\ JobsOK'
    <3> DEFINE new == Ask("visualization", selectedJobId, NoInterval)
    <3>1. new \in Request /\ new.to = "visualization"
      BY <2>1, Asked, AskFields
    <3>2. requests' = requests \cup {new}
      BY <1>7 DEF Visualize, Send
    <3> HIDE DEF new
    <3>3. {new} \in SUBSET Request /\ \A r \in {new} : r.to \notin {"submit", "status"}
      BY <3>1
    <3> QED BY <1>7, <3>2, <3>3, SendKeeps DEF Visualize
  <2>3. /\ visualizations' \in [Job -> 0 .. ClickBound]
        /\ \A j \in Job : visualizations'[j] <= clicks'
    BY <1>0, <1>7, <2>1 DEF Visualize, IInv, PageOK
  <2>4. PageOK' /\ AnswersOK' /\ PollsOK' /\ OneProgressTimer'
    BY <1>0, <1>7, <2>1, <2>3, StopKeeps
    DEF Visualize, IInv, PageOK, AnswersOK, PollsOK
  <2> QED BY <2>2, <2>4 DEF IInv
<1> QED BY <1>1, <1>2, <1>3, <1>4, <1>5, <1>6, <1>7 DEF UserStep

LEMMA TickIInv ==
  ASSUME IInv, NEW r \in Request, Tick(r), r.to # "submit",
         r.to = "status" /\ r.about = NoJob => missed
  PROVE  IInv'
<1>1. RequestsOK' /\ JobsOK'
  <2>1. {r} \in SUBSET Request /\ requests' = requests \cup {r}
    BY DEF Tick, Send
  <2> QED BY <2>1, SendKeeps DEF Tick
<1>2. PageOK' /\ AnswersOK' /\ PollsOK' /\ OneProgressTimer'
  BY DEF Tick, page, debate, visualization, counts, IInv, PageOK, AnswersOK, PollsOK, OneProgressTimer
<1> QED BY <1>1, <1>2 DEF IInv

LEMMA TimerIInv == IInv /\ Timer => IInv'
<1> SUFFICES ASSUME IInv, Timer PROVE IInv'
  OBVIOUS
<1>1. ASSUME NEW view \in View, ViewTick(view) PROVE IInv'
  <2>1. /\ Ask(view, NoJob, NoInterval) \in Request
        /\ Ask(view, NoJob, NoInterval).to \notin {"submit", "status"}
    BY Asked, AskFields DEF View
  <2> QED BY <1>1, <2>1, TickIInv DEF ViewTick
<1>2. ASSUME NEW j \in Job \cup {NoJob}, PollTick(j) PROVE IInv'
  <2>1. /\ Ask("status", j, NoInterval) \in Request
        /\ Ask("status", j, NoInterval).to = "status"
        /\ Ask("status", j, NoInterval).about = j
    BY Asked, AskFields
  <2> QED BY <1>2, <2>1, TickIInv DEF PollTick, IInv, PollsOK
<1>3. ASSUME NEW i \in Interval, DebateTick(i) PROVE IInv'
  <2>1. watched[i] \in Job
    BY <1>3 DEF DebateTick, IInv, PageOK
  <2>2. /\ Ask("progress", watched[i], i) \in Request
        /\ Ask("progress", watched[i], i).to = "progress"
    BY <2>1, Asked, AskFields
  <2> QED BY <1>3, <2>2, TickIInv DEF DebateTick
<1>4. ASSUME NEW j \in Job, VisualizationTick(j) PROVE IInv'
  <2>1. CASE currentVisualizationJobId = j
    <3>1. /\ Ask("visualization", j, NoInterval) \in Request
          /\ Ask("visualization", j, NoInterval).to = "visualization"
      BY Asked, AskFields
    <3> QED BY <1>4, <2>1, <3>1, TickIInv DEF VisualizationTick
  <2>2. CASE currentVisualizationJobId # j
    <3>1. /\ visualizations[j] > 0
          /\ visualizations' = [visualizations EXCEPT ![j] = @ - 1]
          /\ UNCHANGED <<server, jobs, selectedJobId, polls, shown, debate,
                         currentVisualizationJobId, requests, abandoned, answers,
                         counts, missed>>
      BY <1>4, <2>2 DEF VisualizationTick
    <3>2. /\ visualizations' \in [Job -> 0 .. ClickBound]
          /\ \A k \in Job : visualizations'[k] <= clicks
      BY <3>1 DEF IInv, PageOK
    <3>3. PageOK'
      BY <3>1, <3>2 DEF debate, counts, IInv, PageOK
    <3>4. JobsOK' /\ RequestsOK'
      BY <3>1 DEF IInv, JobsOK, RequestsOK
    <3>5. AnswersOK' /\ PollsOK' /\ OneProgressTimer'
      BY <3>1 DEF debate, IInv, AnswersOK, PollsOK, OneProgressTimer
    <3> QED BY <3>3, <3>4, <3>5 DEF IInv
  <2> QED BY <2>1, <2>2
<1> QED BY <1>1, <1>2, <1>3, <1>4 DEF Timer

\* An answer of the server to a request that submits nothing.
LEMMA ReplyKeeps ==
  ASSUME IInv, NEW r \in Request, r.to # "submit", NEW json \in BOOLEAN,
         NEW job \in Job \cup {NoJob}, NEW status \in Status, NEW heard,
         Answer(Reply(r, json, job, status), heard), UNCHANGED missed
  PROVE  AnswersOK'
<1>1. Reply(r, json, job, status) \in ReplyRecord
  BY DEF Reply, ReplyRecord
<1>2. Reply(r, json, job, status).request = r
  BY DEF Reply
<1> QED BY <1>1, <1>2 DEF Answer, IInv, AnswersOK

\* The jobs fit the numbers the page knows.
LEMMA JobsBounded ==
  ASSUME IInv
  PROVE  /\ Len(jobs) \in Job \cup {NoJob}
         /\ DOMAIN jobs = 1 .. Len(jobs)
         /\ \A j \in DOMAIN jobs : j \in Job /\ jobs[j] \in JobRecord
<1>1. Len(jobs) <= JobBound
  BY Counted DEF IInv, JobsOK
<1> QED BY <1>1, Counted DEF Job, NoJob, IInv, JobsOK

\* What is taken is a request of the page that is there or of one before it.
LEMMA TakenKinds ==
  ASSUME IInv, NEW r, NEW heard \in BOOLEAN, NEW handler, Take(r, handler, heard)
  PROVE  /\ r \in Request /\ r \in requests \cup abandoned
         /\ requests' \in SUBSET requests /\ abandoned' \in SUBSET abandoned
         /\ r.to = "submit" => r.about \in Text
         /\ r.to = "status" /\ r.about = NoJob => missed
<1>1. r \in requests \cup abandoned
  BY DEF Take
<1>2. r \in Request /\ (r.to = "submit" => r.about # "blank")
  BY <1>1 DEF IInv, RequestsOK
<1>3. r.to = "submit" => r.about \in Text
  BY <1>2, RequestKinds DEF Text
<1> QED BY <1>1, <1>2, <1>3 DEF Take, IInv, RequestsOK

\* A submission that is taken makes room for its job.
LEMMA SubmitTaken ==
  ASSUME IInv, NEW r, NEW heard \in BOOLEAN, Take(r, "query", heard), r.to = "submit"
  PROVE  /\ Cardinality(Submits(requests')) \in Nat
         /\ Cardinality(Submits(abandoned')) \in Nat
         /\ Cardinality(Submits(requests')) + Cardinality(Submits(abandoned')) + 1
              = Cardinality(Submits(requests)) + Cardinality(Submits(abandoned))
<1>1. CASE heard
  <2>1. r \in requests /\ requests' = requests \ {r} /\ abandoned' = abandoned
    BY <1>1 DEF Take
  <2>2. Cardinality(Submits(requests')) = Cardinality(Submits(requests)) - 1
    BY <2>1, SubmitsTaken, Counted
  <2>3. Cardinality(Submits(requests')) \in Nat
    BY <2>1, SubmitsFewer, Counted
  <2> QED BY <2>1, <2>2, <2>3, Counted
<1>2. CASE ~heard
  <2>1. r \in abandoned /\ abandoned' = abandoned \ {r} /\ requests' = requests
    BY <1>2 DEF Take
  <2>2. Cardinality(Submits(abandoned')) = Cardinality(Submits(abandoned)) - 1
    BY <2>1, SubmitsTaken, Counted
  <2>3. Cardinality(Submits(abandoned')) \in Nat
    BY <2>1, SubmitsFewer, Counted
  <2> QED BY <2>1, <2>2, <2>3, Counted
<1> QED BY <1>1, <1>2

LEMMA TakeQueryIInv ==
  ASSUME IInv, NEW r, NEW heard \in BOOLEAN, TakeQuery(r, heard)
  PROVE  IInv'
<1>1. /\ Take(r, "query", heard) /\ r \in Request /\ r.to = "submit" /\ r.about \in Text
      /\ requests' \in SUBSET requests /\ abandoned' \in SUBSET abandoned
  BY RoutesOfPage, TakenKinds DEF TakeQuery, Take
<1>2. PICK whole \in BOOLEAN :
        /\ missed' = (missed \/ ~whole)
        /\ IF whole /\ r.about # "blank"
             THEN /\ jobs' = Append(jobs, [status |-> RunningStatus,
                                           query |-> r.about,
                                           output |-> "plain"])
                  /\ Answer(Reply(r, TRUE, Len(jobs'), RunningStatus), heard)
             ELSE /\ Answer(Reply(r, TRUE, NoJob, RunningStatus), heard)
                  /\ UNCHANGED jobs
  BY DEF TakeQuery, BodyRead
<1>3. missed => missed'
  BY <1>2
<1>4. PageOK' /\ PollsOK' /\ OneProgressTimer'
  BY <1>2, <1>3 DEF TakeQuery, page, debate, visualization, counts, IInv, PageOK, PollsOK, OneProgressTimer
<1>5. CASE whole
  <2> DEFINE new == [status |-> RunningStatus, query |-> r.about, output |-> "plain"]
  <2>1. new \in JobRecord
    BY <1>1 DEF JobRecord, Status, Text
  <2>2. jobs' = Append(jobs, new) /\ Answer(Reply(r, TRUE, Len(jobs'), RunningStatus), heard)
    BY <1>1, <1>2, <1>5 DEF Text
  <2> HIDE DEF new
  <2>3. jobs' \in Seq(JobRecord) /\ Len(jobs') = Len(jobs) + 1 /\ Len(jobs) \in Nat
    BY <2>1, <2>2 DEF IInv, JobsOK
  <2>4. /\ Cardinality(Submits(requests')) \in Nat /\ Cardinality(Submits(abandoned')) \in Nat
        /\ Cardinality(Submits(requests')) + Cardinality(Submits(abandoned')) + 1
             = Cardinality(Submits(requests)) + Cardinality(Submits(abandoned))
    BY <1>1, SubmitTaken
  <2>5. JobsOK'
    BY <2>3, <2>4, Counted DEF IInv, JobsOK
  <2>6. RequestsOK'
    BY <1>1, <1>3 DEF IInv, RequestsOK
  <2>7. AnswersOK'
    <3>1. Len(jobs') \in Job /\ Len(jobs') # NoJob
      BY <2>3, <2>4, <2>5 DEF JobsOK, Job, NoJob
    <3>2. /\ Reply(r, TRUE, Len(jobs'), RunningStatus) \in ReplyRecord
          /\ Reply(r, TRUE, Len(jobs'), RunningStatus).job = Len(jobs')
      BY <1>1, <3>1 DEF Reply, ReplyRecord, Status
    <3> QED BY <1>3, <2>2, <3>1, <3>2 DEF Answer, IInv, AnswersOK
  <2> QED BY <1>4, <2>5, <2>6, <2>7 DEF IInv
<1>6. CASE ~whole
  <2>1. missed' /\ UNCHANGED jobs /\ Answer(Reply(r, TRUE, NoJob, RunningStatus), heard)
    BY <1>2, <1>6
  <2>2. RequestsOK' /\ JobsOK'
    BY <1>1, <1>3, <2>1, DropKeeps
  <2>3. AnswersOK'
    <3>1. Reply(r, TRUE, NoJob, RunningStatus) \in ReplyRecord
      BY <1>1 DEF Reply, ReplyRecord, Status
    <3> QED BY <2>1, <3>1 DEF Answer, IInv, AnswersOK
  <2> QED BY <1>4, <2>2, <2>3 DEF IInv
<1> QED BY <1>5, <1>6

LEMMA ServeIInv ==
  ASSUME IInv, NEW r, NEW heard \in BOOLEAN, Serve(r, heard)
  PROVE  IInv'
<1>1. ASSUME NEW handler, Take(r, handler, heard)
      PROVE  /\ r \in Request
             /\ requests' \in SUBSET requests /\ abandoned' \in SUBSET abandoned
  BY <1>1, TakenKinds
<1>2. CASE TakeQuery(r, heard)
  BY <1>2, TakeQueryIInv
<1>3. CASE TakeStatus(r, heard)
  <2>1. /\ r \in Request /\ r.to \in {"status", "output"} /\ r.about \in Job \cup {NoJob}
        /\ requests' \in SUBSET requests /\ abandoned' \in SUBSET abandoned
    BY <1>1, <1>3, RoutesOfPage, RequestKinds DEF TakeStatus, Take
  <2>2. RequestsOK' /\ JobsOK'
    BY <1>3, <2>1, DropKeeps DEF TakeStatus
  <2>3. PageOK' /\ PollsOK' /\ OneProgressTimer'
    BY <1>3 DEF TakeStatus, Take, page, debate, visualization, counts, IInv, PageOK, PollsOK, OneProgressTimer
  <2>4. AnswersOK'
    <3>1. CASE UNCHANGED answers
      BY <1>3, <3>1 DEF TakeStatus, IInv, AnswersOK
    <3>2. CASE r.about \in DOMAIN jobs
                 /\ Answer(Reply(r, Plain(r.about), r.about, jobs[r.about].status), heard)
      <4>1. jobs[r.about].status \in Status /\ r.about \in Job
        BY <3>2, JobsBounded DEF JobRecord
      <4>2. Plain(r.about) \in BOOLEAN
        BY DEF Plain
      <4> QED BY <1>1, <1>3, <2>1, <3>2, <4>1, <4>2, ReplyKeeps DEF TakeStatus
    <3>3. CASE Answer(Reply(r, TRUE, NoJob, RunningStatus), heard)
      BY <1>1, <1>3, <2>1, <3>3, ReplyKeeps DEF TakeStatus, Status
    <3> QED BY <1>3, <3>1, <3>2, <3>3 DEF TakeStatus
  <2> QED BY <2>2, <2>3, <2>4 DEF IInv
<1>4. ASSUME NEW view \in View, TakeView(r, view, heard) PROVE IInv'
  <2>1. /\ r \in Request /\ r.to # "submit"
        /\ requests' \in SUBSET requests /\ abandoned' \in SUBSET abandoned
    BY <1>1, <1>4, RoutesOfPage DEF TakeView, Take, View
  <2>2. RequestsOK' /\ JobsOK'
    BY <1>4, <2>1, DropKeeps DEF TakeView
  <2>3. PageOK' /\ PollsOK' /\ OneProgressTimer'
    BY <1>4 DEF TakeView, page, debate, visualization, counts, IInv, PageOK, PollsOK, OneProgressTimer
  <2>4. Readable(view) \in BOOLEAN /\ Len(jobs) \in Job \cup {NoJob}
    BY JobsBounded DEF Readable
  <2>5. AnswersOK'
    BY <1>1, <1>4, <2>1, <2>4, ReplyKeeps DEF TakeView, Status
  <2> QED BY <2>2, <2>3, <2>5 DEF IInv
<1>5. CASE TakeStats(r, heard)
  <2>1. RequestsOK' /\ JobsOK'
    BY <1>1, <1>5, DropKeeps DEF TakeStats
  <2>2. PageOK' /\ PollsOK' /\ OneProgressTimer' /\ AnswersOK'
    BY <1>5 DEF TakeStats, page, debate, visualization, counts, IInv, PageOK, PollsOK, OneProgressTimer, AnswersOK
  <2> QED BY <2>1, <2>2 DEF IInv
<1>6. CASE TakeUnknown(r, heard)
  <2>1. /\ r \in Request /\ r.to # "submit"
        /\ requests' \in SUBSET requests /\ abandoned' \in SUBSET abandoned
    BY <1>1, <1>6, RoutesOfPage DEF TakeUnknown, Take
  <2>2. RequestsOK' /\ JobsOK'
    BY <1>6, <2>1, DropKeeps DEF TakeUnknown
  <2>3. PageOK' /\ PollsOK' /\ OneProgressTimer'
    BY <1>6 DEF TakeUnknown, page, debate, visualization, counts, IInv, PageOK, PollsOK, OneProgressTimer
  <2>4. AnswersOK'
    BY <1>1, <1>6, <2>1, ReplyKeeps DEF TakeUnknown, Status
  <2> QED BY <2>2, <2>3, <2>4 DEF IInv
<1> QED BY <1>2, <1>3, <1>4, <1>5, <1>6 DEF Serve, TakeTasks, TakeHistory, View

LEMMA RejectedKeeps ==
  ASSUME IInv, NEW r, Rejected(r)
  PROVE  /\ OneProgressTimer'
         /\ debatePollingInterval' \in Interval \cup {NoInterval}
         /\ watched' \in [Interval -> Job \cup {NoJob}]
<1>1. CASE StopDebatePolling
  BY <1>1, StopKeeps
<1>2. CASE UNCHANGED debate
  BY <1>2 DEF debate, IInv, PageOK, OneProgressTimer
<1> QED BY <1>1, <1>2 DEF Rejected

LEMMA RefusedIInv ==
  ASSUME IInv, NEW r \in requests, Refused(r)
  PROVE  IInv'
<1>1. RequestsOK' /\ JobsOK'
  BY DropKeeps DEF Refused
<1>2. PageOK' /\ AnswersOK' /\ PollsOK' /\ OneProgressTimer'
  BY RejectedKeeps DEF Refused, visualization, counts, IInv, PageOK, AnswersOK, PollsOK
<1> QED BY <1>1, <1>2 DEF IInv

LEMMA DeliverIInv ==
  ASSUME IInv, NEW a \in answers, Deliver(a)
  PROVE  IInv'
<1>1. a \in ReplyRecord /\ a.job \in Job \cup {NoJob}
  BY DEF IInv, AnswersOK, ReplyRecord
<1>2. CASE Submitted(a)
  <2>1. RequestsOK' /\ JobsOK' /\ AnswersOK' /\ OneProgressTimer'
    BY <1>2 DEF Submitted, Hear, debate, IInv, RequestsOK, JobsOK, AnswersOK, OneProgressTimer
  <2>2. PageOK' /\ PollsOK'
    BY <1>1, <1>2 DEF Submitted, Hear, debate, visualization, counts, IInv, PageOK, PollsOK, AnswersOK
  <2> QED BY <2>1, <2>2 DEF IInv
<1>3. CASE Polled(a)
  <2>1. PICK new \in SUBSET {Ask("tasks", NoJob, NoInterval)} : requests' = requests \cup new
    BY <1>3 DEF Polled
  <2>2. RequestsOK' /\ JobsOK'
    <3>1. new \in SUBSET Request
      BY Asked DEF View
    <3>2. \A r \in new : r.to = "tasks"
      BY AskFields
    <3> QED BY <1>3, <2>1, <3>1, <3>2, SendKeeps DEF Polled
  <2>3. polls' \in SUBSET polls
    BY <1>3 DEF Polled
  <2>4. PageOK' /\ AnswersOK' /\ PollsOK' /\ OneProgressTimer'
    BY <1>3, <2>3 DEF Polled, Hear, debate, visualization, counts, IInv, PageOK, AnswersOK, PollsOK, OneProgressTimer
  <2> QED BY <2>2, <2>4 DEF IInv
<1>4. ASSUME NEW view \in View, Show(a, view) PROVE IInv'
  <2>1. RequestsOK' /\ JobsOK' /\ AnswersOK' /\ OneProgressTimer' /\ PollsOK'
    BY <1>4 DEF Show, Hear, debate, IInv, RequestsOK, JobsOK, AnswersOK, OneProgressTimer, PollsOK
  <2>2. a.job \in 0 .. JobBound
    BY <1>1 DEF Job, NoJob
  <2>3. PageOK'
    BY <1>4, <2>2 DEF Show, Replaced, debate, visualization, counts, IInv, PageOK
  <2> QED BY <2>1, <2>3 DEF IInv
<1>5. CASE Displayed(a)
  BY <1>5 DEF Displayed, Hear, page, debate, visualization, counts, IInv, RequestsOK, JobsOK, AnswersOK,
     OneProgressTimer, PollsOK, PageOK
<1>6. CASE NoJson(a)
  <2>1. RequestsOK' /\ JobsOK' /\ AnswersOK' /\ PollsOK'
    BY <1>6 DEF NoJson, Hear, debate, IInv, RequestsOK, JobsOK, AnswersOK, PollsOK
  <2>2. PageOK' /\ OneProgressTimer'
    BY <1>6, RejectedKeeps DEF NoJson, visualization, counts, IInv, PageOK
  <2> QED BY <2>1, <2>2 DEF IInv
<1> QED BY <1>2, <1>3, <1>4, <1>5, <1>6 DEF Deliver, ShowTasks, ShowHistory, View

\* What happens to the server without a request that is handled.
LEMMA ServerIInv ==
  ASSUME IInv,
         \/ SendKills \/ End \/ Restart
         \/ \E r \in abandoned : Lost(r)
         \/ \E j \in Job : JobEnds(j)
  PROVE  IInv'
<1>1. CASE SendKills \/ End
  <2>1. /\ server' = "gone"
        /\ UNCHANGED <<jobs, page, requests, abandoned, answers, counts, missed>>
    BY <1>1 DEF SendKills, End
  <2> QED BY <2>1 DEF page, debate, visualization, counts, IInv, RequestsOK, JobsOK,
         AnswersOK, OneProgressTimer, PollsOK, PageOK
<1>2. CASE Restart
  <2>1. AnswersOK' /\ OneProgressTimer' /\ PollsOK'
    BY <1>2 DEF Restart, page, debate, IInv, AnswersOK, OneProgressTimer, PollsOK
  <2>2. RequestsOK'
    BY <1>2 DEF Restart, IInv, RequestsOK
  <2>3. JobsOK'
    <3>1. Submits(abandoned') = {} /\ Cardinality({}) = 0
      BY <1>2, FS_EmptySet DEF Restart, Submits
    <3>2. jobs' \in Seq(JobRecord) /\ Len(jobs') = 0 /\ requests' = requests
      BY <1>2 DEF Restart
    <3> QED BY <3>1, <3>2, Counted DEF IInv, JobsOK
  <2>4. PageOK'
    BY <1>2 DEF Restart, page, debate, visualization, IInv, PageOK
  <2> QED BY <2>1, <2>2, <2>3, <2>4 DEF IInv
<1>4. ASSUME NEW r \in abandoned, Lost(r) PROVE IInv'
  <2>1. RequestsOK' /\ JobsOK'
    BY <1>4, DropKeeps DEF Lost
  <2>2. PageOK' /\ AnswersOK' /\ PollsOK' /\ OneProgressTimer'
    BY <1>4 DEF Lost, page, debate, visualization, counts, IInv, PageOK, AnswersOK,
       PollsOK, OneProgressTimer
  <2> QED BY <2>1, <2>2 DEF IInv
<1>3. ASSUME NEW j \in Job, JobEnds(j) PROVE IInv'
  <2>1. RequestsOK' /\ AnswersOK' /\ OneProgressTimer' /\ PollsOK' /\ PageOK'
    BY <1>3 DEF JobEnds, page, debate, visualization, counts, IInv, RequestsOK, AnswersOK, OneProgressTimer,
       PollsOK, PageOK
  <2>2. PICK status \in Status, text \in Text :
          jobs' = [jobs EXCEPT ![j].status = status, ![j].output = text]
    BY <1>3 DEF JobEnds, Status, Text
  <2>3. jobs' \in Seq(JobRecord) /\ Len(jobs') = Len(jobs)
    <3>1. j \in 1 .. Len(jobs) /\ jobs[j] \in JobRecord
      BY <1>3, JobsBounded DEF JobEnds
    <3>2. jobs' = [jobs EXCEPT ![j] = [[jobs[j] EXCEPT !.status = status]
                                         EXCEPT !.output = text]]
      BY <2>2, <3>1 DEF IInv, JobsOK
    <3>3. [[jobs[j] EXCEPT !.status = status] EXCEPT !.output = text] \in JobRecord
      BY <3>1 DEF JobRecord
    <3> QED BY <3>1, <3>2, <3>3 DEF IInv, JobsOK
  <2>4. requests' = requests /\ abandoned' = abandoned
    BY <1>3 DEF JobEnds
  <2>5. JobsOK'
    BY <2>3, <2>4 DEF IInv, JobsOK
  <2> QED BY <2>1, <2>5 DEF IInv
<1> QED BY <1>1, <1>2, <1>3, <1>4

LEMMA NextIInv == IInv /\ [Next]_vars => IInv'
<1> SUFFICES ASSUME IInv, [Next]_vars PROVE IInv'
  OBVIOUS
<1>1. CASE UNCHANGED vars
  BY <1>1 DEF vars, page, debate, visualization, counts, IInv, RequestsOK, JobsOK, AnswersOK, OneProgressTimer,
     PollsOK, PageOK
<1>2. ASSUME \/ \E r \in requests : Serve(r, TRUE)
             \/ \E r \in abandoned : Serve(r, FALSE)
      PROVE  IInv'
  BY <1>2, ServeIInv
<1> QED BY <1>1, <1>2, UserIInv, TimerIInv, RefusedIInv, DeliverIInv, ServerIInv DEF Next

-----------------------------------------------------------------------------
(* The theorems. *)

\* The inductive invariant holds of every page and server.
THEOREM PageInvariant == Spec => []IInv
BY InitIInv, NextIInv, PTL DEF Spec

\* For any number of clicks, jobs and ends of the server, requests and
\* answers stay well formed and numbers within their ranges.
THEOREM PageTypeCorrect == Spec => []TypeOK
<1>1. IInv => TypeOK
  <2> SUFFICES ASSUME IInv PROVE TypeOK
    OBVIOUS
  <2>1. Len(jobs) <= JobBound
    BY JobsBounded DEF Job, NoJob
  <2>2. \A j \in DOMAIN jobs :
          jobs[j] \in [status : {RunningStatus, CompleteStatus, FailedStatus},
                       query : {"plain", "quoted"}, output : {"plain", "quoted"}]
    BY JobsBounded DEF JobRecord, Status, Text
  <2>3. \A answer \in answers : answer.request \in Request
    BY DEF IInv, AnswersOK, ReplyRecord
  <2> QED BY <2>1, <2>2, <2>3 DEF IInv, PageOK, RequestsOK, TypeOK
<1> QED BY <1>1, PageInvariant, PTL

\* Whichever answers are late, fail or are lost, at most one interval of
\* startDebatePolling runs, and the page knows it and can stop it.  This says
\* nothing of the intervals of startVisualizationPolling, which nobody keeps.
THEOREM OneProgressTimerRuns == Spec => []OneProgressTimer
<1>1. IInv => OneProgressTimer
  BY DEF IInv
<1> QED BY <1>1, PageInvariant, PTL

\* However the user clicks and the answers come in, only the handler of the tab
\* of the metrics or, after a POST without its body, that of the poll of job
\* "undefined" ends the server or hangs it.
THEOREM HandlersAreSafe == Spec => HandlersSpareServer
<1>1. ASSUME IInv, NEW r, NEW heard \in BOOLEAN, Serve(r, heard), server' # "up"
      PROVE  r.to = "stats" \/ missed
  <2>1. CASE TakeStatus(r, heard)
    <3>1. r.to \in {"status", "output"} /\ r \in Request
      BY <1>1, <2>1, RoutesOfPage, TakenKinds DEF TakeStatus, Take
    <3>2. r.about = NoJob
      BY <1>1, <2>1 DEF TakeStatus, Take
    <3>3. NoJob \notin Job
      BY DEF Job, NoJob
    <3>4. r.to = "status"
      BY <3>1, <3>2, <3>3, RequestKinds
    <3> QED BY <1>1, <2>1, <3>2, <3>4, TakenKinds DEF TakeStatus
  <2>2. CASE TakeStats(r, heard)
    <3>1. r \in Request
      BY <1>1, <2>2, TakenKinds DEF TakeStats
    <3> QED BY <2>2, <3>1, RoutesOfPage DEF TakeStats, Take
  <2>3. CASE TakeQuery(r, heard) \/ TakeTasks(r, heard) \/ TakeHistory(r, heard)
             \/ TakeUnknown(r, heard)
    BY <1>1, <2>3 DEF TakeQuery, TakeTasks, TakeHistory, TakeView, TakeUnknown, Take
  <2> QED BY <1>1, <2>1, <2>2, <2>3 DEF Serve
<1>2. IInv /\ [Next]_vars =>
        [\A request \in requests \cup abandoned, heard \in BOOLEAN :
           Serve(request, heard) /\ server' # "up" => request.to = "stats" \/ missed]_vars
  BY <1>1
<1> QED BY <1>2, PageInvariant, PTL DEF Spec, HandlersSpareServer
=============================================================================
