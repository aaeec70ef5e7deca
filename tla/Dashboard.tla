------------------------------ MODULE Dashboard ------------------------------
(***************************************************************************)
(* The page the server sends to a browser, and the server as the page sees *)
(* it.  The page is one thread: a click, a timer or an answer is handled   *)
(* to its end before the next.  Its requests are on their way to the       *)
(* server, which takes them one at a time in any order, and the answers    *)
(* come back in any order.                                                 *)
(*                                                                         *)
(* Answers are put together without escaping.  A text with a quote, a line *)
(* break or a backslash at its end makes an answer no JSON, and the page's *)
(* r.json() fails: such a text is not "plain" here.                        *)
(***************************************************************************)
EXTENDS Routes, FiniteSets

CONSTANTS
  ClickBound,     \* bound on the clicks of a behaviour
  JobBound,       \* bound on the jobs of a server
  RestartBound,   \* bound on the starts of the server after it has ended
  Connections,    \* how many requests a browser makes at a time
  MissedAllowed,  \* whether recv() may return a POST without its body
  StatsAllowed    \* whether the user opens the tab of the metrics

ASSUME DashboardAssumption ==
  /\ ClickBound \in Nat /\ JobBound \in Nat /\ RestartBound \in Nat
  /\ Connections \in Nat \ {0, 1}
  /\ MissedAllowed \in BOOLEAN /\ StatsAllowed \in BOOLEAN

VARIABLES
  server,                 \* "up", "hung" in an exporter, or "gone"
  jobs,                   \* status and texts of each job of jobs_
  selectedJobId,
  polls,                  \* the jobs pollJob has an interval for
  shown,                  \* how many jobs the list and the history show
  debatePollingInterval,
  watched,                \* the job each interval of startDebatePolling polls
  currentVisualizationJobId,
  visualizations,         \* how many intervals startVisualizationPolling has
                          \* made for each job that were not cleared
  requests,               \* on their way to the server
  abandoned,              \* the same, of a page that is no more
  answers,                \* on their way to the page
  clicks, restarts,
  missed                  \* history: a POST was read without its body

debate == <<debatePollingInterval, watched>>
visualization == <<currentVisualizationJobId, visualizations>>
page == <<selectedJobId, polls, shown, debate, visualization>>
counts == <<clicks, restarts>>
vars == <<server, jobs, page, requests, abandoned, answers, counts, missed>>

Job == 1 .. JobBound

\* The number of no job: selectedJobId is null, or undefined when the answer
\* had no job_id.
NoJob == 0

NoInterval == 0

Interval == 1 .. ClickBound

View == {"tasks", "history"}

\* ExecutionJob::status.
RunningStatus == 0
CompleteStatus == 1
FailedStatus == 2

\* A request: where to, for which job or with which text, and on whose
\* behalf.
Request ==
  [to : {"submit"}, about : {"plain", "quoted", "blank"}, by : {NoInterval}]
  \cup [to : {"status"}, about : Job \cup {NoJob}, by : {NoInterval}]
  \cup [to : {"output", "visualization"}, about : Job, by : {NoInterval}]
  \cup [to : View \cup {"stats", "trends"}, about : {NoJob}, by : {NoInterval}]
  \cup [to : {"progress"}, about : Job, by : Interval \cup {NoInterval}]

Ask(to, about, by) == [to |-> to, about |-> about, by |-> by]

\* What fetch() is called with.
Method(request) == IF request.to = "submit" THEN "POST" ELSE "GET"

Number(j) == IF j = NoJob THEN "undefined" ELSE ToString(j)

Path(request) ==
  CASE request.to = "submit"   -> "/api/query"
    [] request.to \in {"status", "output"} -> "/api/query?job_id=" \o Number(request.about)
    [] request.to \in {"progress", "visualization"} ->
         "/api/debate/" \o Number(request.about) \o "/" \o request.to
    [] request.to = "trends"   -> "/api/metrics/trends?hours=24"
    [] OTHER                   -> "/api/" \o request.to

\* Where a request arrives; adding nothing makes TLC look it up only once.
Handler == [request \in Request |-> Route(Method(request), Path(request))] @@ <<>>

\* Where the page's requests arrive, as far as the proofs about the page need
\* it: a fact about strings, which the table decides.
ASSUME RoutesOfPage ==
  \A request \in Request :
    /\ Handler[request] = "query" <=> request.to = "submit"
    /\ Handler[request] = "query_status" => request.to \in {"status", "output"}
    /\ Handler[request] = "stats" => request.to = "stats"

TypeOK ==
  /\ server \in {"up", "hung", "gone"}
  /\ Len(jobs) <= JobBound
  /\ \A j \in DOMAIN jobs :
       jobs[j] \in [status : {RunningStatus, CompleteStatus, FailedStatus},
                    query : {"plain", "quoted"}, output : {"plain", "quoted"}]
  /\ selectedJobId \in Job \cup {NoJob}
  /\ polls \subseteq Job \cup {NoJob}
  /\ shown \in [View -> 0 .. JobBound]
  /\ debatePollingInterval \in Interval \cup {NoInterval}
  /\ watched \in [Interval -> Job \cup {NoJob}]
  /\ currentVisualizationJobId \in Job \cup {NoJob}
  /\ visualizations \in [Job -> 0 .. ClickBound]
  /\ requests \subseteq Request /\ abandoned \subseteq Request
  /\ \A answer \in answers : answer.request \in Request
  /\ clicks \in 0 .. ClickBound /\ restarts \in 0 .. RestartBound
  /\ missed \in BOOLEAN

\* The state of a page that has just been loaded.  It asks for the list and
\* for the history at once.
Loaded == {Ask(view, NoJob, NoInterval) : view \in View}

Init ==
  /\ server = "up"
  /\ jobs = <<>>
  /\ selectedJobId = NoJob
  /\ polls = {}
  /\ shown = [view \in View |-> 0]
  /\ debatePollingInterval = NoInterval
  /\ watched = [i \in Interval |-> NoJob]
  /\ currentVisualizationJobId = NoJob
  /\ visualizations = [j \in Job |-> 0]
  /\ requests = Loaded /\ abandoned = {}
  /\ answers = {}
  /\ clicks = 0 /\ restarts = 0
  /\ missed = FALSE

\* A browser has so many connections to a server and lets further requests
\* wait: what would start them is late here.
Send(new) ==
  /\ requests' = requests \cup new
  /\ Cardinality(requests') + Cardinality(answers) <= Connections

-----------------------------------------------------------------------------
(* The user. *)

Click == clicks < ClickBound /\ clicks' = clicks + 1

\* JobBound is a bound on what the user submits.
MoreJobs ==
  Len(jobs) + Cardinality({r \in requests : r.to = "submit"})
            + Cardinality({r \in abandoned : r.to = "submit"}) < JobBound

\* Mutant: a blank query is sent as well.
SubmitBlankToo ==
  /\ Click /\ MoreJobs
  /\ \E text \in {"plain", "quoted", "blank"} : Send({Ask("submit", text, NoInterval)})
  /\ UNCHANGED <<server, jobs, page, abandoned, answers, restarts, missed>>

submitQuery ==
  /\ Click /\ MoreJobs
  /\ \E text \in {"plain", "quoted"} : Send({Ask("submit", text, NoInterval)})
  /\ UNCHANGED <<server, jobs, page, abandoned, answers, restarts, missed>>

selectJob(j) ==
  /\ Click
  /\ j <= shown["tasks"]
  /\ selectedJobId' = j
  /\ Send({Ask("output", j, NoInterval)})
  /\ UNCHANGED <<server, jobs, polls, shown, debate, visualization, abandoned,
                 answers, restarts, missed>>

\* clearInterval of the interval the page knows of, if it knows of one.
Cleared ==
  [i \in Interval |-> IF i = debatePollingInterval THEN NoJob ELSE watched[i]]

StopDebatePolling ==
  /\ debatePollingInterval' = NoInterval
  /\ watched' = Cleared

\* Re-run fills in the query of a row of the history and submits it from the
\* first tab.
rerunDebate ==
  /\ Click /\ MoreJobs
  /\ shown["history"] > 0
  /\ StopDebatePolling
  /\ Send({Ask("submit", "plain", NoInterval)})
  /\ UNCHANGED <<server, jobs, selectedJobId, polls, shown, visualization,
                 abandoned, answers, restarts, missed>>

\* refreshAdvancedMetrics: one request stands for its six, which no row of the
\* table matches.
AskForTrends == Send({Ask("trends", NoJob, NoInterval)})

\* refreshMetrics
AskForStats == StatsAllowed /\ Send({Ask("stats", NoJob, NoInterval)})

\* Every tab stops the polling of a debate first, and none the intervals of
\* the visualization.
SwitchTab ==
  /\ Click
  /\ StopDebatePolling
  /\ \/ UNCHANGED requests
     \/ Send({Ask("history", NoJob, NoInterval)})
     \/ AskForTrends
     \/ AskForStats
  /\ UNCHANGED <<server, jobs, selectedJobId, polls, shown, visualization,
                 abandoned, answers, restarts, missed>>

\* Mutant: the polling before is not stopped.
WatchAnother ==
  /\ Click
  /\ selectedJobId # NoJob
  /\ debatePollingInterval' = clicks'
  /\ watched' = [watched EXCEPT ![clicks'] = selectedJobId]
  /\ Send({Ask("progress", selectedJobId, NoInterval)})
  /\ UNCHANGED <<server, jobs, selectedJobId, polls, shown, visualization,
                 abandoned, answers, restarts, missed>>

\* The tab of the progress; a new interval is named by the click.
WatchDebate ==
  /\ Click
  /\ selectedJobId # NoJob
  /\ debatePollingInterval' = clicks'
  /\ watched' = [Cleared EXCEPT ![clicks'] = selectedJobId]
  /\ Send({Ask("progress", selectedJobId, NoInterval)})
  /\ UNCHANGED <<server, jobs, selectedJobId, polls, shown, visualization,
                 abandoned, answers, restarts, missed>>

\* The tab of the visualization: startVisualizationPolling makes an interval
\* each time, which knows its own number only.
Visualize ==
  /\ Click
  /\ selectedJobId # NoJob
  /\ StopDebatePolling
  /\ currentVisualizationJobId' = selectedJobId
  /\ visualizations' = [visualizations EXCEPT ![selectedJobId] = @ + 1]
  /\ Send({Ask("visualization", selectedJobId, NoInterval)})
  /\ UNCHANGED <<server, jobs, selectedJobId, polls, shown, abandoned, answers,
                 restarts, missed>>

\* What becomes of a request whose page is gone.  One that changes nothing at
\* the server stands for all of these.
Abandoned(request) ==
  IF request.to \in {"submit", "stats"} \/ request = Ask("status", NoJob, NoInterval)
    THEN request
    ELSE Ask("trends", NoJob, NoInterval)

\* A page that is loaded anew has no timers and hears no answer to the old,
\* whose requests the server may still find.
Reload ==
  /\ Click
  /\ server = "up"
  /\ selectedJobId' = NoJob
  /\ polls' = {}
  /\ shown' = [view \in View |-> 0]
  /\ debatePollingInterval' = NoInterval
  /\ watched' = [i \in Interval |-> NoJob]
  /\ currentVisualizationJobId' = NoJob
  /\ visualizations' = [j \in Job |-> 0]
  /\ requests' = Loaded
  /\ abandoned' = abandoned \cup {Abandoned(r) : r \in requests}
  /\ answers' = {}
  /\ UNCHANGED <<server, jobs, restarts, missed>>

UserStep ==
  \/ submitQuery \/ rerunDebate
  \/ SwitchTab \/ WatchDebate \/ Visualize \/ Reload
  \/ \E j \in Job : selectJob(j)

-----------------------------------------------------------------------------
(* The page's timers.  A request that is still on its way stands for all     *)
(* the ones like it.                                                         *)

Tick(request) ==
  /\ request \notin requests
  /\ Send({request})
  /\ UNCHANGED <<server, jobs, page, abandoned, answers, counts, missed>>

ViewTick(view) == Tick(Ask(view, NoJob, NoInterval))

PollTick(j) == j \in polls /\ Tick(Ask("status", j, NoInterval))

DebateTick(i) ==
  watched[i] # NoJob /\ Tick(Ask("progress", watched[i], i))

\* The intervals of the job that was visualized last go on, however many there
\* are and in whatever tab the user is; one of another job clears itself.
VisualizationTick(j) ==
  /\ visualizations[j] > 0
  /\ IF currentVisualizationJobId = j
       THEN Tick(Ask("visualization", j, NoInterval))
       ELSE /\ visualizations' = [visualizations EXCEPT ![j] = @ - 1]
            /\ UNCHANGED <<server, jobs, selectedJobId, polls, shown, debate,
                           currentVisualizationJobId, requests, abandoned,
                           answers, counts, missed>>

-----------------------------------------------------------------------------
(* The server. *)

Reply(request, json, job, status) ==
  [request |-> request, json |-> json, job |-> job, status |-> status]

\* A request is taken when the last one has been answered, also one whose page
\* does not hear the answer.
Take(request, handler, heard) ==
  /\ server = "up" /\ Handler[request] = handler
  /\ request \in IF heard THEN requests ELSE abandoned
  /\ requests' = IF heard THEN requests \ {request} ELSE requests
  /\ abandoned' = IF heard THEN abandoned ELSE abandoned \ {request}

Answer(reply, heard) ==
  answers' = IF heard THEN answers \cup {reply} ELSE answers

\* One recv() may return the headers without the body.  What parse_request
\* then makes of the body has no query in it.
BodyRead == IF MissedAllowed THEN BOOLEAN ELSE {TRUE}

\* handle_query: a query that is empty is refused.
TakeQuery(request, heard) ==
  /\ Take(request, "query", heard)
  /\ \E whole \in BodyRead :
       /\ missed' = (missed \/ ~whole)
       /\ IF whole /\ request.about # "blank"
            THEN /\ jobs' = Append(jobs, [status |-> RunningStatus,
                                          query |-> request.about,
                                          output |-> "plain"])
                 /\ Answer(Reply(request, TRUE, Len(jobs'), RunningStatus), heard)
            ELSE /\ Answer(Reply(request, TRUE, NoJob, RunningStatus), heard)
                 /\ UNCHANGED jobs
  /\ UNCHANGED <<server, page, counts>>

Plain(j) == jobs[j].query = "plain" /\ jobs[j].output = "plain"

\* handle_query_status; the number of a job the server does not have is
\* answered with an error, and "undefined" makes std::stoi throw.
TakeStatus(request, heard) ==
  /\ Take(request, "query_status", heard)
  /\ LET j == request.about
     IN  IF j = NoJob
           THEN server' = "gone" /\ UNCHANGED answers
           ELSE /\ IF j \in DOMAIN jobs
                     THEN Answer(Reply(request, Plain(j), j, jobs[j].status), heard)
                     ELSE Answer(Reply(request, TRUE, NoJob, RunningStatus), heard)
                /\ UNCHANGED server
  /\ UNCHANGED <<jobs, page, counts, missed>>

\* handle_tasks shows each job's query and output, handle_history the query.
Readable(view) ==
  \A j \in DOMAIN jobs :
    IF view = "tasks" THEN Plain(j) ELSE jobs[j].query = "plain"

TakeView(request, view, heard) ==
  /\ Take(request, view, heard)
  /\ Answer(Reply(request, Readable(view), Len(jobs), RunningStatus), heard)
  /\ UNCHANGED <<server, jobs, page, counts, missed>>

TakeTasks(request, heard) == TakeView(request, "tasks", heard)

TakeHistory(request, heard) == TakeView(request, "history", heard)

\* handle_stats: the exporter waits for its own lock, and the loop with it.
TakeStats(request, heard) ==
  /\ Take(request, "stats", heard)
  /\ server' = "hung"
  /\ UNCHANGED <<jobs, page, answers, counts, missed>>

TakeUnknown(request, heard) ==
  /\ Take(request, "none", heard)
  /\ Answer(Reply(request, FALSE, NoJob, RunningStatus), heard)
  /\ UNCHANGED <<server, jobs, page, counts, missed>>

\* What a completed debate is reported with has line breaks; an error may
\* have a quote.  A completed job is first recorded in the metrics.
JobEnds(j) ==
  /\ j \in DOMAIN jobs /\ jobs[j].status = RunningStatus
  /\ \/ /\ server = "up"
        /\ jobs' = [jobs EXCEPT ![j].status = CompleteStatus,
                                ![j].output = "quoted"]
     \/ /\ server # "gone"
        /\ \E text \in {"plain", "quoted"} :
             jobs' = [jobs EXCEPT ![j].status = FailedStatus, ![j].output = text]
  /\ UNCHANGED <<server, page, requests, abandoned, answers, counts, missed>>

\* A request that was abandoned before it was sent, or that recv() finds reset.
Lost(request) ==
  /\ request \in abandoned
  /\ abandoned' = abandoned \ {request}
  /\ UNCHANGED <<server, jobs, page, requests, answers, counts, missed>>

\* The answer goes to a connection that the browser has closed, and send()
\* raises SIGPIPE.
SendKills ==
  /\ server = "up" /\ abandoned # {}
  /\ server' = "gone"
  /\ UNCHANGED <<jobs, page, requests, abandoned, answers, counts, missed>>

\* What ends the server without a request: the threads of two jobs, one of
\* them on what the other has freed (Crash of JobServer), or an operator.
End ==
  /\ server # "gone" /\ restarts < RestartBound
  /\ server' = "gone"
  /\ UNCHANGED <<jobs, page, requests, abandoned, answers, counts, missed>>

\* The server is started again: its jobs are gone and their numbers are given
\* to others.
Restart ==
  /\ server = "gone" /\ restarts < RestartBound
  /\ restarts' = restarts + 1
  /\ server' = "up"
  /\ jobs' = <<>>
  /\ abandoned' = {}
  /\ UNCHANGED <<page, requests, answers, clicks, missed>>

-----------------------------------------------------------------------------
(* The page's handlers of answers. *)

Hear(answer, to) ==
  /\ answer \in answers /\ answer.request.to = to
  /\ answers' = answers \ {answer}

\* .then of submitQuery.
Submitted(answer) ==
  /\ Hear(answer, "submit")
  /\ selectedJobId' = answer.job
  /\ polls' = polls \cup {answer.job}
  /\ UNCHANGED <<server, jobs, shown, debate, visualization, requests, abandoned,
                 counts, missed>>

\* Mutant: the interval is cleared for a completed job only.
PolledUntilComplete(answer) ==
  /\ Hear(answer, "status") /\ answer.json
  /\ IF answer.job = NoJob \/ answer.status = CompleteStatus
       THEN polls' = polls \ {answer.request.about}
       ELSE UNCHANGED polls
  /\ requests' = requests \cup {Ask("tasks", NoJob, NoInterval) :
                               j \in {answer.job} \cap (polls \ polls')}
  /\ UNCHANGED <<server, jobs, selectedJobId, shown, debate, visualization,
                 abandoned, counts, missed>>

\* .then of pollJob.
Polled(answer) ==
  /\ Hear(answer, "status") /\ answer.json
  /\ IF answer.job = NoJob \/ answer.status # RunningStatus
       THEN polls' = polls \ {answer.request.about}
       ELSE UNCHANGED polls
  /\ requests' = requests \cup {Ask("tasks", NoJob, NoInterval) :
                               j \in {answer.job} \cap (polls \ polls')}
  /\ UNCHANGED <<server, jobs, selectedJobId, shown, debate, visualization,
                 abandoned, counts, missed>>

\* Mutant: a view is not shortened by an answer, whatever server sent it.
NeverFewer(view, answer) ==
  [shown EXCEPT ![view] = IF answer.job > @ THEN answer.job ELSE @]

Replaced(view, answer) == [shown EXCEPT ![view] = answer.job]

Show(answer, view) ==
  /\ Hear(answer, view) /\ answer.json
  /\ shown' = Replaced(view, answer)
  /\ UNCHANGED <<server, jobs, selectedJobId, polls, debate, visualization,
                 requests, abandoned, counts, missed>>

\* .then of refreshJobs.
ShowTasks(answer) == Show(answer, "tasks")

\* .then of loadQueryHistory.
ShowHistory(answer) == Show(answer, "history")

\* .then of selectJob: an output is displayed and no more.
Displayed(answer) ==
  /\ Hear(answer, "output") /\ answer.json
  /\ UNCHANGED <<server, jobs, page, requests, abandoned, counts, missed>>

\* r.json() fails.  The timer of startDebatePolling catches that, and clears the
\* interval that is the page's now, not the one that asked; the visualization
\* catches it and goes on.
Rejected(request) ==
  IF request.to = "progress" /\ request.by # NoInterval
    THEN StopDebatePolling
    ELSE UNCHANGED debate

NoJson(answer) ==
  /\ Hear(answer, answer.request.to) /\ ~answer.json
  /\ Rejected(answer.request)
  /\ UNCHANGED <<server, jobs, selectedJobId, polls, shown, visualization,
                 requests, abandoned, counts, missed>>

\* Nobody listens: fetch() itself fails.
Refused(request) ==
  /\ server = "gone" /\ request \in requests
  /\ requests' = requests \ {request}
  /\ Rejected(request)
  /\ UNCHANGED <<server, jobs, selectedJobId, polls, shown, visualization,
                 abandoned, answers, counts, missed>>

-----------------------------------------------------------------------------

Serve(request, heard) ==
  \/ TakeQuery(request, heard) \/ TakeStatus(request, heard)
  \/ TakeTasks(request, heard) \/ TakeHistory(request, heard)
  \/ TakeStats(request, heard) \/ TakeUnknown(request, heard)

Deliver(answer) ==
  \/ Submitted(answer) \/ Polled(answer)
  \/ ShowTasks(answer) \/ ShowHistory(answer)
  \/ Displayed(answer) \/ NoJson(answer)

Timer ==
  \/ \E view \in View : ViewTick(view)
  \/ \E j \in Job \cup {NoJob} : PollTick(j)
  \/ \E i \in Interval : DebateTick(i)
  \/ \E j \in Job : VisualizationTick(j)

Next ==
  \/ UserStep \/ Timer
  \/ \E request \in requests : Serve(request, TRUE) \/ Refused(request)
  \/ \E request \in abandoned : Serve(request, FALSE) \/ Lost(request)
  \/ \E answer \in answers : Deliver(answer)
  \/ \E j \in Job : JobEnds(j)
  \/ SendKills \/ End \/ Restart

Spec == Init /\ [][Next]_vars

\* Timers fire, a server that is up goes on, what is sent arrives, and the
\* browser has a connection for each of them in the end.  No job has to end,
\* nobody to click or to end the server.
Going(asks) == Tick(asks) \/ Serve(asks, TRUE) \/ Refused(asks)

Coming(asks) == \E answer \in answers : answer.request = asks /\ Deliver(answer)

Fairness ==
  /\ WF_vars(\/ \E request \in requests : Serve(request, TRUE) \/ Refused(request)
             \/ \E answer \in answers : Deliver(answer))
  /\ \A view \in View :
       LET asks == Ask(view, NoJob, NoInterval)
       IN  SF_vars(Going(asks)) /\ WF_vars(Coming(asks))
  /\ \A j \in Job :
       LET asks == Ask("status", j, NoInterval)
       IN  SF_vars(j \in polls /\ Going(asks)) /\ WF_vars(Coming(asks))

FairSpec == Spec /\ Fairness

-----------------------------------------------------------------------------
(* Properties. *)

\* What the page asks for, also before it was loaded anew, does not bring the
\* server down: no handler ends it or keeps it from answering, but that of the
\* tab of the metrics and, for a POST whose body came too late, that of the poll
\* of job "undefined", for which std::stoi throws.  What ends the server outside
\* of a handler (SendKills, End) is another matter.
HandlersSpareServer ==
  [][\A request \in requests \cup abandoned, heard \in BOOLEAN :
       Serve(request, heard) /\ server' # "up" => request.to = "stats" \/ missed]_vars

\* Whichever answers come late, fail or never come, at most one interval of
\* startDebatePolling runs, and the page knows it and can stop it.  The intervals
\* of startVisualizationPolling, which nobody keeps, are not meant.
OneProgressTimer ==
  \A i \in Interval : watched[i] # NoJob => i = debatePollingInterval

\* What a poll waits for: the job has failed with a text that can be shown, or
\* the server, started again, does not know it.
PollOver(j) ==
  j \in DOMAIN jobs => jobs[j].status # RunningStatus /\ Plain(j)

\* A poll whose job is over ends, although its answers overtake each other, as
\* long as the server answers.
PollEnds ==
  \A j \in Job :
    <>[](server = "up") => []<>(j \notin polls \/ ~PollOver(j))

\* The list and the history catch up with the server, also with one that was
\* started again, and are not put back for good by answers that come late, if
\* what they show can be shown.
ViewsCatchUp ==
  <>[](server = "up") =>
    <>[](\A view \in View : Readable(view) => shown[view] = Len(jobs))
=============================================================================
