# Verification of Code-Tribunal

Code-Tribunal (the repository under `src/`) lets a council of LLM "analysts" debate a query:
every round each active analyst is asked, the analysts then elect the best answer and prune those
that contribute little, and a result is collected at the end. The program runs one debate on the
command line or serves debates over HTTP. This directory has TLA+ models of it, the configurations
TLC checks them with, and proofs for TLAPS.

- Check a run: `tlc -config <run>.cfg <Module>.tla` (the pairs are in the table *Runs*).
- Check the proofs: `tlapm <Module>.tla` for `AnalystPoolProofs`, `CouncilProofs`, `ThreadPoolProofs`,
  `JobServerProofs`, `LLMClientProofs`, `DatabaseProofs`, `ResilienceProofs` and `DashboardProofs` (one or two minutes
  each at most).
- `PROJECT.json` lists the components, the runs, a mutant for every property, the source lines of
  every definition, the findings, the hazards and the theorems.

## 1. The system

| Part | Source (`src/src/...`) | State | Operations |
|---|---|---|---|
| Analyst | `core/Analyst.*` | list of answers, idle rounds, score, pruned, complete | `execute_round`, `get_response`, `record_*`, `mark_*`, `is_active` |
| Analyst pool | `core/Pool.*` | vector of analysts, number of static roles | `add_analyst`, `remove_analyst`, `execute_round` (one thread for each active analyst) |
| Voting system | `core/Election.*` | election history, a reference to a pool | `run_election_round`: votes, tally, winner, pruning |
| Council | `core/Council.*` | client, pool, voting system (all replaceable) | `initialize_analysts`, `run_debate` (rounds, elections, result) |
| Thread pool | `util/Concurrent.*` | queue, mutex, two condition variables, `stop_`, `active_tasks_` | `enqueue`, `wait`, `stop`, `worker_loop` |
| HTTP server | `http/HttpServer.*` | `running_`, jobs, query history, one council | `start` (accept loop), `stop`, routing, handlers, `execute_query_async` (detached threads) |
| Dashboard page | text in `http/HttpServer.cpp` | selected job, intervals, lists shown | `submitQuery`, `selectJob`, `switchTab`, `pollJob`, `startDebatePolling`, `startVisualizationPolling`, refreshing timers |
| Metrics | `util/Metrics.*` | list of recorded debates behind a mutex | `record_debate`, statistics, exporters |
| LLM clients | `llm/*` | curl handle, last error, endpoint cursor | `query`, `query_streaming`, `available_models`, `is_available`, `get_model_info` |
| Configuration | `core/ConfigParser.*`, `core/ConfigValidator.*`, `core/types.h` | the `Configuration` | `load`, environment, command line, defaults, validation |
| Program | `main.cpp` | options | one-shot debate, web mode |
| Resilience | `util/Resilience.*` | breaker state and counters | `retryable`, `CircuitBreaker::call`, `TimeoutGuard` |
| Database | `storage/Database.*` | connection, `in_transaction_` | statements, `begin`/`commit`/`rollback`, `Transaction` |
| Classifier | `ui/QueryClassifier.*` | none | keyword counting on a query |
| Hash, logging | `util/Hash.*`, `util/Logging.*` | a log stream | wrappers |

**How they interact.** `main` loads the configuration and makes either one council or a server.
The server's accept loop serves one connection at a time; a posted query becomes a job, its number
is sent to the client, and a *detached* thread runs the debate on the server's *one* council. That
thread first replaces the council's client, pool and voting system (`initialize_analysts`). A debate
alternates `AnalystPool::execute_round` with `VotingSystem::run_election_round`; the round starts a
`std::thread` for every active analyst and joins them all, and the threads share the client and an
`int` that counts successes. Job statuses and history are guarded by the server's mutex, the metrics
by their own; the council is guarded by nothing. The page the server sends to a browser posts queries and
asks for jobs, history and progress with timers of its own, several requests at a time, whose answers may
overtake each other. The thread pool, the breaker and the database are
libraries with tests that no code of the program calls yet.

**What is hard.** Threads of a round incrementing one plain counter; answers indexed by round number
in lists that analysts fill at their own pace; index arithmetic that separates static from spawned
analysts while others are erased; wakeups of `wait()`; `stop()` racing with `enqueue`; several jobs
replacing the objects of one council; a non-recursive mutex taken twice; exceptions that leave a job
at any point; detached threads that survive their server; a breaker without a lock that callers use while
others open it; a string for the last error that threads write and copy at the same time; a page whose timers
outlive what they were started for. `PROJECT.json` has the full list with lines.

**What makes each part correct.**

- *Pool*: a round asks every active analyst exactly once and nobody else, no thread survives it, and
  the number it returns is right in the way the caller uses it (zero or not).
- *Elections*: they read the answers of the round just held, the longest answer wins, a static role is
  never pruned, who was removed has no further part in the debate.
- *Council*: the history of elections follows the rounds, the final winner is the one documented.
- *Thread pool*: an accepted task is run exactly once, in order, on at most as many threads as there
  are; `wait` and `stop` return when the work is done, and not before.
- *Server*: every job ends, a reported status is final and agrees with the metrics, a job works only on
  its own objects, a request is answered.
- *Clients*: threads that share one do not disturb each other's requests, endpoints share the load, a failure
  is never taken for an answer, calls return.
- *Page*: the handlers of what it asks for do not end the server, at most one timer asks for the progress of a debate
  and the page can stop it, a poll ends, the lists show the present server's jobs.
- *Resilience*: the breaker opens and closes after exactly as many failures and successes as it was told, lets
  nobody through before its time, and recovers; a retry reports what its last attempt did.
- *Database*: there is never more than one transaction nor one left behind by a scope that ended, what was
  committed stays on disk, what was rolled back does not get there.
- *Start*: a configuration that was validated is not refused afterwards, and settings and keys come from
  the best source that has them.

## 2. The modules

| Module | Models | Built on |
|---|---|---|
| `Analyst` | one analyst as a record, each method an operator from record to record | |
| `AtomicPool` | what the pool promises: its owner's operations, and a round as one step | `Analyst` |
| `AnalystPool` | `execute_round` as it runs: caller, threads, unlocked counter | `AtomicPool`, and implements it |
| `Election` | votes, tally, winner, pruning, by what they compute | `AtomicPool` |
| `Council` | debates: rounds, elections, result; several debates on one pool | `Election` |
| `Debate` | debates as the code runs them: the threads of each round, the loops of votes, tally, selection, pruning and result | `Council`, `AnalystPool`, and implements `Council` |
| `TaskPool` | what the thread pool promises | |
| `ThreadPool` | the queue, the mutex, the condition variables, `worker_loop` step by step | implements `TaskPool` |
| `JobServer` | accept loop, jobs, detached threads, the shared council, the metrics' mutex | |
| `Routes` | the routing table, with the lengths of its prefixes | |
| `Dashboard` | the page in the browser, its timers, requests and answers, and the server as it sees it | `Routes` |
| `LLMClient` | a client shared by threads: handle, mutex, round-robin, streams, the text of the last error | |
| `Breaker` | what the circuit breaker promises to calls that come one at a time | |
| `Resilience` | `retryable` and the circuit breaker, one access to a field at a time | implements `Breaker` |
| `Startup` | `main` from the command line to a debate or a server: parser, validator, factory | |
| `Database` | one SQLite connection, its transaction flag and the scope guard, shared by threads | |
| `DatabaseProofs` | theorems about `Database` | `Database` |
| `LLMClientProofs` | theorems about `LLMClient` | `LLMClient` |
| `ThreadPoolProofs` | theorems about `ThreadPool` | `ThreadPool` |
| `ResilienceProofs` | theorems about `Resilience` | `Resilience` |
| `JobServerProofs` | theorems about `JobServer`, and about the start of the program before there is a server | `JobServer`, `Startup` |
| `DashboardProofs` | theorems about the page of `Dashboard` | `Dashboard` |
| `AnalystPoolProofs` | what the pool's operations preserve, and theorems about `AnalystPool` | `AnalystPool` |
| `CouncilProofs` | theorems about `Council`, and that `Debate` implements it | `Debate`, `AnalystPoolProofs` |

**Analyst.** A text is its length, which is all an election looks at; 0 is the empty text an error
leaves. Each answer also carries the number of the round that asked for it (`at`), and each analyst
whether it is a static role (`base`): history that the code does not keep and the properties need.
Analysts are numbered from 1 (the code counts from 0), and `NoOne = 0` is the code's -1.

**AnalystPool.** `Call`, `Start`, `AllStarted`, `Join`, `Return` are the caller's way through
`execute_round`; `QuerySucceeds`/`QueryFails` are a thread's `Analyst::execute_round`, and
`success_count++` is the two steps `LoadCount` and `StoreCount`. `Analyst::execute_round` is one step
because a thread touches no other thread's analyst. The variables `analysts` and `clock` change during
a round; the refinement shows the caller the values from before the round until `Return`
(`before` is a history variable for that). A thread that cannot be started (`ThreadRefused`) throws out of the
loop: with none started before it the round throws (`StartThrows`), with one its joinable thread is destroyed and
the program is terminated (`StartTerminates`, after which nothing happens).

**Election and Council.** `run_election_round` is one action with everything it does: votes of the
analysts active *before* the pruning, tally, winner, pruning, the entry in the history. The tally counts an analyst's
votes, each of which is worth `VoteScore`. The council
uses the round of `AtomicPool`, which `AnalystPool` implements. The success count may be anything
the lost increments allow. `DebateThrows` leaves a debate without a result when no thread of a round could be started.
Between debates the owner may use the pool through `get_pool()`, initialize anew, or debate again.

**Debate.** The same debates without a step that is larger than the code's: a round is the caller and the threads of
`AnalystPool`, an election and the result are their loops. `loop` says which loop the caller is in, `outer` and `inner`
are its counters, `best` the candidate of a scan with the value to exceed, and `round_votes`, `score_map` and
`winner_responses` the containers that are filled. Each `LookAt...` is one iteration; the step that begins a loop
initializes its counters, and `LocalsGone` is the return. `OneStep` shows a caller of the council a round when it
returns, an election when its pruning begins (from then on it can only end one way), and the result when it is made.
`RoundThrew` is the exception of a round on its way through `run_debate`.

**ThreadPool.** A thread's position is `pc`; "asleep" is membership in a condition variable's wait
set. `tasks` keeps every task pushed, and `popped` counts those taken: the queue is the rest. Critical
sections are single steps except where somebody reads what they change without the mutex: `Pop` and
`Activate` are two because `worker_loop` line 113 reads `tasks_.empty()` and `active_tasks_` unlocked,
and that read of `tasks_.empty()` is itself two loads in either order. `WaitBlocks`/`WaitSleeps`
separate the evaluation of the predicate from going to sleep.

**JobServer.** An object of the council is named by its kind and the job whose thread made it, and is
gone once another takes its place. A thread on freed memory goes on with some outcome or the
process ends (`Crash`). `HandlerThrows` are the exceptions nothing catches before `main`
(`std::stoi` on a header or an id, a thread that cannot be made). `ReadStats` is an exporter that
locks the metrics twice. A round whose first thread cannot be started throws, which the job's thread catches
(`Fail`); if a later one cannot, the process ends (`RoundTerminates`). `SendKills` is the signal that `send()` raises on a
connection its client has closed. `serial` is history: no query was posted while another's job was under way.

**LLMClient.** `Send`, `Reject` and `AskPrimary` choose the endpoint of an Ollama client and enter a method,
`QueryClaude` and `QueryGoogle` make a handle of their own or look in `is_available` whether there is a key and a
model, and `ListClaude`/`ListGoogle` are the methods that cloud clients answer from a list. `Lock` takes the
endpoint's mutex and sets the handle's options; the ways on are `Succeed`, a cloud stream's `SucceedStream` and
`Callback`, `Fail` (which writes `last_error_`), `Throw` (the exception copies it and the mutex is released as the
stack is unwound), `Rethrow` and `CatchOllama` (`available_models` and `get_model_info` write the text again,
unlocked), and `FailCloud`, `CatchCloud`, `Copy`; `CatchUnavailable` is a cloud client's `is_available`, which writes
the string, also unlocked, and returns false. A body and a text are named by the call that made them. Two threads that
use one string at a time, one of them unlocked and writing, may leave or read a `Torn` text or end the process
(`Abort`). `served` and `rejected` are history.

**Resilience.** The breaker has neither lock nor atomic, so a step is one access to one of its fields, in the order of
the source, and an increment is a load and a store. Time is the number of ticks since `last_failure_time_`, up to the
recovery timeout. A thread in `Retrier` calls the breaker from inside `retryable`, with the delays and the jitter of a
named policy. `serial`, `streak`, `quiet` and `tries` are history. `Breaker` is the machine of the comment at
`Resilience.h:64`, with one step for the beginning and one for the end of a call, and is in the state "Unknown" once
calls have overlapped. `ModeAndCount` is what `Resilience` shows of itself to it: the fields, and at each place inside
a method what that method has decided and not stored yet.

**Routes and Dashboard.** `Route` is the table of `handle_request` from method and path to handler, with the prefix
lengths as written there. The page is one thread: a click, a timer or an answer is handled to its end before the next.
`requests` and `answers` are what is under way, taken in any order; the server takes one request at a time
(`TakeQuery`, `TakeStatus`, ...), its debates end on their own (`JobEnds`), and it may be ended and started again with
the same job numbers. A text is "quoted" if it makes the unescaped answer no JSON. `watched` has the intervals of
`startDebatePolling`, of which the page knows one; `visualizations` counts those of `startVisualizationPolling` for
each job, which no tab switch clears (`Visualize`, `VisualizationTick`). When the page is loaded anew its requests
under way are `abandoned`: the server may still take them, which has its effect and no listener, or find them closed
(`Lost`), or die of the signal that `send()` raises on such a connection (`SendKills`). `End` is what ends the server
without a request: the threads of two jobs on freed objects, which are in `JobServer` with the rest of the server's
interior, or an operator.

**Database.** Each method is one step, because it holds the mutex throughout. SQLite is external: the rows on disk,
the rows the connection sees and whether it is in a transaction, with the ways its statements fail. `own`, `aborted`,
`promised` and `discarded` are history. A move into a Database is a step per assignment (`MoveCloses`, `MoveOpens`,
`MoveEnds`; `moving` says where it is), because `operator=` has the mutex only in `close()`; other threads execute
statements in between. That nobody has a `Transaction` on it, which keeps a reference, or begins one while it is being
moved into is the caller's duty, and without it the properties do not hold.

**Startup.** One action for each phase of `main`. A setting is where its value comes from and what the
validator and the factory tell apart; arguments, lines of the file and the environment are chosen where
they are read. The places a key is looked for are `KeySource`: three variables, the file of the Claude command line
(`read_claude_cli_credentials`), the file a variable names and that of gcloud (`read_gcloud_credentials`).
A cloud client without a key looks for its variable again (`Constructed`). `is_available` is the test before a
debate and `web_mode` that before a server. `Abort` is an exception that nothing catches, `ExitWith` a return from `main`.

## 3. Runs

| Run | Module | What it shows |
|---|---|---|
| `council_debates` | `Council` | Two debates with ties, failures and prunings, with edits of the pool and new pools in between: the answers read are this round's (`ReadsThisRound`), the first longest answer wins (`LongestWins`), history follows the rounds, static roles are never pruned, the removed stay silent. |
| `debate_loops` | `Debate` | A debate of two rounds, or two of one round on one pool, the second also after a first one that threw, with every interleaving of the threads and one iteration a step: a round's count is zero exactly when every query failed (`CountDecides`), everyone is asked exactly once (`AskedOnce`), votes, tally, winner, pruning and result are those `Council` defines, ties and the scores of all debates included, and a round is one step (`ImplementsCouncil`), and a debate that has begun ends unless the program does (`DebateEnds`). |
| `threadpool_calls` | `ThreadPool` | Two workers, two clients: tasks neither lost nor run twice (`TasksAccounted`), `wait` and `stop` return with the work done (`ReturnsWithWorkDone`), every accepted task is run and `stop` returns (`NoWakeupLost`), and the pool implements `TaskPool`. |
| `threadpool_wait` | `ThreadPool` | *Violation*: the last notification falls between predicate and sleep of `wait`, which never wakes. |
| `jobs_shared` | `JobServer` | Two jobs on one council: a status is final and the metrics match it (`MetricsMatchJobs`), every job ends (`JobEnds`), and queries posted one after the other stay isolated (`IsolatedIfSerial`). |
| `jobs_two_clients` | `JobServer` | *Violation*: with two queries at a time a thread works on another's objects. |
| `stats_answered` | `JobServer` | *Violation*: `/metrics` and `/api/stats` hang the accept loop. |
| `clients_shared` | `LLMClient` | Two threads, five calls, two endpoints or either cloud client: an Ollama request is made with what its own call has set (`OwnRequest`), the round-robin is even until its counter overflows and never leaves the endpoints (`EvenLoad`), a failure never looks like an answer and a failed Ollama query reports its own error (`ErrorsTold`), every call returns (`CallEnds`). |
| `resilience_calls` | `Resilience` | Two threads on one breaker, one of them retrying: with no call under way the counters are below the thresholds of the state (`AtRest`), an open breaker lets nobody through before its time (`FailsFastIfSerial`), calls one at a time find the machine of `Breaker` (`ImplementsBreaker`), `retryable` gives up only when all attempts are made (`RetryHonest`), and a service that is well again closes the breaker (`Recovers`). |
| `dashboard_page` | `Dashboard` | Three clicks, the page's timers and a server that is ended and restarted: at most one interval of `startDebatePolling` runs and the page can stop it (`OneProgressTimer`; nothing is claimed of those of the visualization), no handler ends the server except after a POST was read without its body, or hangs it except for the statistics (`HandlersSpareServer`), polls end and the lists catch up, under the conditions their comments name (`PollEnds`, `ViewsCatchUp`). |
| `database_scopes` | `Database` | Two threads with four statements on one connection, with every error of SQLite, exceptions and `close()` under way: at most one transaction, none left behind, committed rows stay on disk, rolled back rows never get there. |
| `startup` | `Startup` | What passes the validation is not refused for its settings afterwards (`ValidatedStarts`), the command line wins and keys come from the best source (`BestSourceWins`). |

**Bounds.** *Pool and loops* (`debate_loops`): two static roles, one spawned analyst (three threads: a lost update
needs two, a third shows that two may be lost), two rounds on one pool, either of one debate (the second starts from
lists of unequal state) or of two debates of one round (the final winner is chosen by the scores of both, and the
second election reads the answers of the first debate), with one operation in between; a debate whose first thread is
refused does not count as a round, so that another follows it. Three analysts tie in the eyes of a voter and in the
tally, and two lengths and the silence of a failure let a candidate replace another. *Debates* (`council_debates`):
`LongestWins` needs three voters, the fourth analyst is the spawned one that can be pruned; three lengths give a
strict order, a tie and silence; two rounds make a pruned analyst visible in the next; the thresholds
(`MaxIdleRounds`, `MinContributionScore`) are constants so that both tests of the pruning are reached in two rounds;
staleness and a new pool need a second debate, and one operation in between. `BaseCount`, `MaxModels` are 4 and 10 in
the code and constants here; nothing depends on their values but the capacity test and the first prunable index, which
small values reach. *Thread pool*: two workers, two tasks, four calls and a spurious wakeup: the shortest race of
`wait` needs two calls, `stop` against `enqueue` and `wait` four. *Server*: two jobs of two rounds; interference is
between pairs of threads, which meet at every point of a debate. *Clients*: two threads contend for a mutex, two
endpoints make a round-robin that the other methods could upset, and a counter of six values (`IntLimit` 3, 2^31 in
the build) overflows within five calls; a text goes wrong between two failing calls. *Breaker*: two callers race for
every field, thresholds of two tell one lost update from none, two ticks tell an early admission from one in time.
*Page*: three clicks submit a query, watch it and leave it or watch it twice, or visualize it and go elsewhere; two
connections let answers overtake; one restart gives a job's number to another job, and one job is what a restart
forgets. An interval of the visualization clears itself only when another job is visualized: that branch needs a
second job and is covered by the proofs alone. *Database*: two threads, of which one has the transaction that the
other meets; four statements are one before, two in and one after it. *Start*: two lines of a file are enough for a
provider and its key, or for one list that the command line replaces; the numbers of rounds are one of each kind the
validator knows.

**Fairness.** `DebateFairness`: the operating system schedules every thread and every query ends (all clients set a
timeout on their requests), so a debate that has begun goes on, by the refusal of a thread too; nobody has to begin
one or to use the pool. `ThreadPool!Fairness`: every thread that can go on does and tasks end; no call has to be made
and no wakeup be spurious. `JobServer!Fairness`: the accept loop and the job threads go on, and clients read what is
sent to them or close their connection; strong fairness on the status update stands for a mutex that a waiting thread
obtains in the end although the accept loop takes it for request after request. Nobody has to connect, so that
`LastConnection` is not fair. `Resilience!Fairness`: threads go on, functions end and time passes; `Recovers` assumes
besides that calls keep coming and fail no longer. `Dashboard!Fairness`: the server takes requests while it is up, the
browser delivers answers and timers fire; strong fairness on each repeated request stands for the connection that a
browser gives it in the end. `LLMClient!Fairness`: a request ends with an answer or by its timeout, and strong
fairness again stands for a mutex that a waiting thread obtains in the end.

`CHECK_DEADLOCK FALSE` is set where the system may rightly stop: all bounded calls made, all jobs
done, the server gone.

## 4. Findings

With a run: the lost wakeup of `wait` (`Concurrent.cpp:113`), the shared council (`HttpServer.cpp:372`), the
metrics' self-deadlock (`Metrics.cpp:100`).

Met while modelling, visible without a checker and therefore without a run:

- The threads of a round increment one plain `int` (`Pool.cpp:73`), so the count may be smaller than the number of
  successes that `Pool.h:83` promises. `CountDecides` shows why this is mostly harmless: the only caller tests it for zero,
  and lost increments cannot make it zero.
- In a second debate on the same pool an election reads the answers of the first (`Election.cpp:139`): the lists are
  never emptied, and the index is the round of the present debate. Only a pool that is initialized anew is free of this
  (`ReadsThisRound` says so).
- A query that fails returns before `record_round_activity` (`Analyst.cpp:32`), so that an analyst that is
  never reached does not count as idle; `types.h:153` says "consecutive rounds with no contribution".
- `run_debate` counts rounds in a local result and returns the one of `finalize_results`, where
  `rounds_completed` is 0 (`Council.cpp:49`); `Council.h:37` says "How many rounds ran".
- No code reads `prune_grace` or `min_analysts`: a spawned analyst with a score below 2 is pruned in
  its first election (`Election.cpp:65`; `types.h:283`, `README.md:127-128`).
- `ElectionRound::pruned` lists every analyst pruned so far; `Election.h:48` says "removed this round".
- `stop()` takes effect when the next client connects (`HttpServer.cpp:73`), and a `stop()` before
  `start()` is forgotten (`HttpServer.cpp:63`).
- The destructor only closes the socket; `HttpServer.h:93` says it cleans up threads.
- `query_history_` keeps the copy of a job made when it was posted, with the status "running"
  (`HttpServer.cpp:327`).
- Answers are put together without escaping: the result of a completed debate has line breaks, so the page's
  `r.json()` fails for it, the output stays at "Results will appear here..." (`HttpServer.cpp:545`), and the list of jobs and the
  poll fail with it. The history, which has no outputs, fails only for a query with a quote.
- A POST whose body comes in a second segment is read without it (`HttpServer.cpp:91`); the page then polls the job
  "undefined", and `std::stoi` ends the server.
- The tab of the metrics asks for `/api/stats`, whose handler locks a mutex twice: the accept loop hangs. The three
  routes with wrong prefix lengths leave the progress of a debate and the trends without an answer the page can read.
- Each click on the tab of the visualization starts an interval (`HttpServer.cpp:845`) that no tab switch clears, though
  `HttpServer.cpp:690` says "Stop debate polling if switching away": those of the job visualized last ask once a second each,
  in whatever tab the user is, until another job is visualized or the page is left.
- `send()` raises SIGPIPE on a connection that its client has closed (`HttpServer.cpp:234`), for instance by loading the
  page anew, and the process ends with all its jobs. A client that keeps its connection and does not read holds up the accept
  loop, and in the handlers that list jobs every job that wants to report its end (`HttpServer.cpp:261`).
- If the system refuses a thread to a round that has started others, `std::terminate` ends the program
  (`Pool.cpp:71`); if it refuses the first, the exception leaves `run_debate` in the middle of a debate.
- With equal scores the first maximum wins (`Election.cpp:97`), as `Election.h:112` says ("Ties break to earliest analyst");
  `Election.h:115`, three lines below, says "-1 if tie or no votes".
- A failed or late answer to one debate's timer stops the timer of the debate watched now (`HttpServer.cpp:744`).
- A half-open breaker lets every caller through, not "limited requests" (`Resilience.h:66`); refusals count as attempts
  of `retryable`, whose waits are far shorter than the default recovery of 30 s, so that a retry around an open breaker
  spends its attempts on refusals. `retryable` keeps an earlier exception's text, also before a success. With custom
  policies `delay_ms * (100 + jitter)` can overflow before it is capped (`Resilience.cpp:39`).
- Ollama's `query_streaming` never calls its callback (`LLMClient.h:87` "Calls callback as chunks arrive").
- `available_models` and `get_model_info` write `last_error_` after the mutex is released (`OllamaClient.cpp:144`), so another
  query's exception can carry their text. `MultiEndpointOllamaClient::get_last_error` stays empty for the
  failures its endpoints catch themselves.
- The number of hours of a metrics query overflows an `int` from 597 on (`Metrics.cpp:183`), behind a route that is
  not reached.
- The cloud clients assign the text of the last error without a lock (`ClaudeClient.cpp:32`,
  `GoogleAntigravityClient.cpp:48`, and in `is_available`, `ClaudeClient.cpp:67`, `GoogleAntigravityClient.cpp:87,92`) though the threads of a round share them; `LLMClient.h:67` says "All methods
  are thread-safe".
- `Transaction` rolls back unless `commit()` was called (`Database.cpp:260`); `Database.h:183` says
  "Automatically commits on success".
- What a thread executes while another has a transaction is part of it and is lost with it
  (`Database.cpp:42`); `Database.h:41` says "Thread-safe via mutex protection for concurrent access". A move takes the
  mutex for `close()` alone (`Database.cpp:31-37`), so that a transaction begun meanwhile loses its flag.
- If SQLite ends a transaction by itself, what its thread executes afterwards stays although the
  transaction is rolled back (`Database.cpp:189`); `Database.h:122` says "Discards all changes".
- The environment is only asked for keys the file does not have (`ConfigParser.cpp:165`); the comment
  above says that it overrides the file, and the one at line 184 ("GOOGLE_AGY_API_KEY > gcloud credentials > config")
  has the order reversed. `load_or_default` "never fails" (`ConfigParser.h:53`), but a
  number that is none makes `std::stoi` throw out of `main`.
- A blank project name makes `read_gcloud_project` close its stream twice (`ConfigParser.cpp:225-231`).
- Only the first URL reaches the factory (`main.cpp:215`): no code makes a `MultiEndpointOllamaClient`,
  though `main.cpp:195` logs "parallel batching enabled".
- `validate_models`, with the upper bound on models, is never called.
- A GET after a query would send the old POST body, whose string is gone (`OllamaClient.cpp:77`); no code of
  the program does that.
- Three routes are compared with a wrong prefix length and cannot be reached (`HttpServer.cpp:123,132,154`).

## 5. Proofs

`AnalystPoolProofs` proves, for all values of the constants that satisfy `LengthsAssumption`
(lengths are naturals) and `PoolAssumption` (the bounds are naturals, the static roles fit the pool):

| Theorem | Statement |
|---|---|
| `PoolInvariant` | `PoolSpec => []IInv`, the inductive invariant below |
| `PoolTypeCorrect` | `PoolSpec => []PoolTypeOK` |
| `CountAlwaysDecides` | `PoolSpec => []CountDecides` |
| `NoThreadLeft` | `PoolSpec => []NoThreadOutlivesRound` |
| `EveryoneAskedOnce` | `PoolSpec => []AskedOnce` |
| `BaseAlwaysInFront` | `PoolSpec => []BaseInFront` |
| `PoolImplementsAtomic` | `PoolSpec => Atomic!AtomicSpec` |

None of the properties is inductive. `CountDecides` speaks of the moment the last thread has been
joined, and is true because of what every thread has done before. `IInv` is the conjunction of

- `PoolTypeOK`, which includes that the pool never exceeds its capacity;
- `BaseInFront`, needed because erasing shifts indices;
- `ThreadsFollowCaller`: which analysts have a thread, given how far the caller's loop is, and that those
  behind the cursor of the join loop have ended;
- `CountBounded`: during a round the counter is zero exactly when nobody has stored, and neither it nor any
  value a thread has loaded is more than the number of threads that have stored. A lost update preserves
  this, because what a thread stores is one more than a value it loaded, which is why the count still
  decides;
- `RoundSoFar`: each analyst is as `before`, or as one outcome of its query makes it, according to its
  thread's state. This carries `AskedOnce` and the refinement.

`NoThreadOutlivesRound`, `BaseInFront` and `ImplementsAtomic` are checked by no run any more, because the theorems say
them for every size; what `debate_loops` checks of whole debates rests on them. `NextIInv` has one lemma for each
action. The refinement maps every step of a round but the last to a stutter and `Return` to `ExecuteRound`, with the
outcome of each thread as the witness (`ReturnIsARound`).

`DatabaseProofs` proves, for any set of threads and any bound on the statements (`DatabaseAssumption`):

| Theorem | Statement |
|---|---|
| `DatabaseInvariant` | `Spec => []IInv` |
| `DatabaseTypeCorrect` | `Spec => []TypeOK` |
| `AtMostOneTransaction` | `Spec => []OneTransaction` |
| `NoTransactionLeft` | `Spec => []NothingLeftOpen` |
| `PromisesKept` | `Spec => []CommitPersists` |
| `DiscardedStayAway` | `Spec => []RollbackDiscards` |

That a `COMMIT` keeps its promise depends on the history of the scope that issues it. `IInv` adds to the four
properties that a live scope on an open connection has the flag, and SQLite's transaction unless it was aborted
(`LiveFlag`); that its rows are seen and not yet on disk (`ScopeRows`); that the connection sees the disk, and nothing
that was discarded (`Connection`); that the next row is new (`Fresh`); and that no scope is live while the Database is
being moved into, nor the flag set before its assignment (`Moved`). `CommitFails` is the step to look at: the flag
stays set although the transaction is gone, which keeps everybody else out until the scope is left.

`LLMClientProofs` proves, for any threads, endpoints, kinds of client and numbers of calls (`LLMClientAssumption`):

| Theorem | Statement |
|---|---|
| `ClientInvariant` | `Spec => []IInv` |
| `ClientTypeCorrect` | `Spec => []TypeOK` |
| `LoadIsEven` | `Spec => []EvenLoad` |
| `RequestsAreOwn` | `Spec => []OwnRequest` |
| `ErrorsAreTold` | `Spec => ErrorsTold`, an action property |

`OwnRequest` holds because a thread that performs a request has its endpoint's mutex (`Excluded`), which no other
thread's `Lock` gets. `ErrorsTold` needs to know what is in the strings when a thread takes its text from one
(`Texts`): in an Ollama client what is about to be thrown is the thread's own error, unless a method that writes
unlocked has been there; in a cloud client the string that is about to be copied is not empty, because each of its
writers writes an error. `Places` says which kind of client gets where. `LeavingTells` is the property for each step
with which a call returns, and `OnlyLeaving` that there is no other.

`EvenLoad` compares two endpoints, and what makes it so is their relation to the counter (`Spread`): up to the overflow
an endpoint has been selected once for each turn the counter has completed, and once more if the turn that has begun has
come past it (`Ahead`). A counter that is negative, or has come round to zero again, is told by the number of calls it
takes to get there. A step needs what an increment does to a remainder (`NextRemainder`, from `Division` and
`RemainderUnique`: the quotient is a nonlinear term the prover has to be given), and `SendSpread`, `RejectSpread` and
`StillSpread` are the three kinds of step.

`ThreadPoolProofs` proves, for any set of clients and tasks, any finite set of workers that is not empty, and any
bounds on calls and spurious wakeups (`ThreadPoolAssumption`):

| Theorem | Statement |
|---|---|
| `ThreadPoolInvariant` | `Spec => []IInv` |
| `ThreadPoolTypeCorrect` | `Spec => []TypeOK` |
| `EveryTaskAccounted` | `Spec => []TasksAccounted` |
| `WaitAndStopReturnDone` | `Spec => ReturnsWithWorkDone`, an action property |
| `PoolImplementsTaskPool` | `Spec => ImplementsTaskPool` |

`wait()` looks at the queue and at `active_tasks_`, and a task a worker has popped and not counted is in neither. That
its predicate still means that the work is done follows from `Locked`: such a worker holds the mutex, which `wait()`
needs to look (`DoneWhenQuiet`). `IInv` adds that `active_tasks_` is the number of workers between its increment and
its decrement (`Counted`), that a task is queued once (`Distinct`, kept by `ArgsFresh`), and that a worker only leaves
a stopped and empty queue, which stays empty (`LeftStopped`); from the last one `stop()` returns with nothing left
(`DoneWhenLeft`). `Moves` collects the many steps that only move threads, so that `MoveIInv` proves the
invariant for them once. In the refinement a pop is `StartNext`: the tasks started and not finished are those workers
have (`StartedAreHeld`), and the worker that pops has none (`RoomToStart`).

`CouncilProofs` proves, for every capacity, number of models, rounds and debates, and every limit of the pruning
(`LengthsAssumption`, `PoolAssumption`, `ElectionAssumption`, `CouncilAssumption`):

| Theorem | Statement |
|---|---|
| `CouncilInvariant` | `CouncilSpec => []CouncilInv` |
| `CouncilTypeCorrect` | `CouncilSpec => []CouncilTypeOK` |
| `ElectionsReadTheirRound` | `CouncilSpec => []ReadsThisRound` |
| `ElectionsAreNumbered` | `CouncilSpec => []HistoryFollowsRounds` |
| `StaticRolesStay` | `CouncilSpec => BaseNeverPruned`, an action property |
| `RemovedTakeNoPart` | `CouncilSpec => RemovedStaySilent`, an action property |
| `LongestAnswerWins` | `CouncilSpec => LongestWins`, an action property |
| `DebateInvariant` | `DebateSpec => []DebateInv` |
| `DebateRoundsHold` | `DebateSpec => [](PoolTypeOK /\ CountDecides /\ AskedOnce /\ NoThreadOutlivesRound)` |
| `DebateImplementsCouncil` | `DebateSpec => ImplementsCouncil`, that is `DebateSpec => OneStep!CouncilSpec` |

`ReadsThisRound` needs the length of every active analyst's list in each state of the first debate (`InStep`) and that
it is empty before it (`Untouched`), whatever the owner did in between. `StaticRolesStay` rests on `BaseInFront`,
which the owner's operations and a round keep (`ListOK` in `AnalystPoolProofs`, with `OwnerKeepsList` and
`RoundKeepsList`). `RemovedTakeNoPart` needs that the votee a voter chooses is one of its candidates: that a set of
lengths has a greatest one is proved from the well-foundedness of the natural numbers (`GreatestExists`), without
induction over sets. `LongestAnswerWins` is about a winner nobody elects directly: the one who deserves to win cannot
vote for itself. Every other active analyst, though, chooses it among its own candidates (`OthersChooseFirst`), so
that with three voters or more it has at least two votes (`TwoOthers`), and the only vote left, its own, gives another
analyst at most one (`ElectionWinner`, `SelectLeader`). With two voters the argument and the property fail.

`DebateImplementsCouncil` is about loops, and what a loop computes for every list is no more than its invariant.
`DebateInv` has the rounds' invariant `IInv` and one conjunct for what each loop has done so far: the votes cast are
those of the voters looked at, each once (`VotesOK`); the best of a scan is the first of the greatest among the
candidates seen, or nobody (`IsBest`, in `VoteeOK`, `ScoresOK` and `TotalsOK`); each score is `VoteScore` for every
place of the list of votes that names its analyst (`TallyOK`); the analysts looked at are pruned and the others are
not yet (`PruneOK`); the responses collected are those before the counter (`ResponsesOK`). A loop's last step turns
the conjunct into the definition: `VoteeFound` for a voter's choice, `TallyEnds` and `WinnerFound` for the election,
`FinalWinnerFound` and `ResponsesStep` for the result. That a list of votes has as many places for a votee as the set
of votes has votes for it needs that no voter is in it twice (`ListsOnce`, `PlacesCounted`). In the refinement
`BeginPruning` is `HoldElection`, because the votes are cast then and the pruning tests nothing that it changes
(`PruneOneUnseen`); `RoundReturned` is `RunRound`, by the refinement of the pool; `EndDebate` is `finalize_results`;
every other step of a thread or a loop is a stutter.

Two facts about natural numbers that look like inductions are proved from a least counterexample (`LeastExists`, from
`WFMin` of the library): that finitely many lengths have a greatest, and that the rounds with a response have each
rank once (`EveryRank`, `RankIsOne`), on which the type of the winner's responses rests (`ResultTyped`).

`ResilienceProofs` proves, for any threads, thresholds, recovery timeout and policies in use (`ResilienceAssumption`):

| Theorem | Statement |
|---|---|
| `BreakerInvariant` | `Spec => []BreakerInv` |
| `BelowThresholdsAtRest` | `Spec => []AtRest` |
| `FailsFast` | `Spec => FailsFastIfSerial`, an action property |
| `BreakerIsAtomic` | `Spec => ImplementsBreaker`, that is `Spec => Atomic!BreakerSpec` |
| `RetryInvariant` | `Spec => []RetryInv` |
| `RetriesAreHonest` | `Spec => RetryHonest`, an action property |
| `ResilienceTypeCorrect` | `Spec => []TypeOK` |

Racing threads can bring old counts back, so the counters say little while calls are under way. What survives the
races is that a closed breaker whose failures have reached the threshold has a thread at the store that opens it or at
the one that sets the count to zero (`OpenComes`, and `CloseComes` for the successes): no store lets a count reach the
threshold without its thread going there next. `FailsFast` is about calls one at a time: `Serially` says that then one
thread at most is inside, and that each place of its call fits the streak of failures (`Fits`). `BreakerIsAtomic`
needs the same invariant: counts are left over when the state changes, `failure_count_` while the breaker is half-open
and `success_count_` when it is closed, and `Fits` says that none of them is taken for a new one. A step that admits a
call or ends one is a step of `Breaker` (`EntersRefine`, `EndsRefine`), the stores after it are stutters
(`StoresRefine`), and the first call that overlaps another leads to "Unknown". `RetryInv` relates the attempts a
retrier counts to the outcomes it has had.

`ResilienceTypeCorrect` needs bounds besides: the counts, the values threads have loaded and the streak stay within the
thresholds, because a store brings back a loaded value or one more, and `Increment` counts the values from a threshold on
as one (`CountsBounded`); and the tries stay within the limits of the policies, of which the
greatest is five (`TriesBounded`, `LimitsAreSmall`).

`JobServerProofs` proves, for any number of jobs, rounds and queries at a time, whether or not anybody asks for the
statistics or calls `stop()` (`JobServerAssumption`):

| Theorem | Statement |
|---|---|
| `JobServerInvariant` | `Spec => []IInv` |
| `JobServerTypeCorrect` | `Spec => []TypeOK` |
| `SerialJobsAreIsolated` | `Spec => []IsolatedIfSerial` |
| `MetricsAgree` | `Spec => MetricsMatchJobs`, an invariant and an action property |
| `StartTypeCorrect` | `MainSpec => []MainTypeOK` |
| `ValidatedIsAccepted` | `MainSpec => []ValidatedStarts` |
| `SourcesAreRanked` | `MainSpec => []BestSourceWins` |

`JobFits` says that the place of a job's thread tells its status and whether it has a record: a success is recorded
before it is reported, a failure after it. `IsolatedIfSerial` needs more than that its objects were the thread's own
when it took them: while queries come one at a time an unfinished job is the last one (`OneAtATime`), and a thread
whose job is reported has only its record left to write (`OthersOwnNothing`), so nobody else replaces an
object of the council. What a thread installed is then still there at each of its later steps (`Own`).

The last three are about `main` before there is a server (`Startup`), for any lists of numbers in files and arguments.
What is true of a validated configuration depends on which phases it has been through (`StartInv`): until the
environment has been read its keys are the file's or none; from then on a key comes from the best source (`KeysBest`,
whose cases are in `KeysFound`); from the next phase on the arguments are kept (`ArgumentsKept`), because the defaults
only fill in what is unset; and when the validation begins the cloud model is there, which the validation does not
look at and the client needs.

`DashboardProofs` proves, for any number of clicks, jobs, connections and ends of the server, with and without POSTs
whose body is missed and with and without the tab of the statistics (`DashboardAssumption`):

| Theorem | Statement |
|---|---|
| `PageInvariant` | `Spec => []IInv` |
| `PageTypeCorrect` | `Spec => []TypeOK` |
| `OneProgressTimerRuns` | `Spec => []OneProgressTimer` |
| `HandlersAreSafe` | `Spec => HandlersSpareServer`, an action property |

Where a request is routed to is a fact about strings, which the provers cannot take apart: `RoutesOfPage` in
`Dashboard` assumes the three facts that are needed, and TLC evaluates it with the routing table in every run of the
page. The handler that ends the server is that of a poll, by `std::stoi` on "undefined". A request or a poll for that
job comes only from an answer without a number, and such an answer only from a POST read without its body
(`RequestsOK`, `AnswersOK`, `PollsOK`), because the page submits no blank query. The same holds of the requests a page
has left behind when it was loaded anew. `JobsOK` counts the queries that are on their way, those left behind
included, with the jobs there are: each will find room, which keeps the numbers in the answers among those of the
jobs.

**Only model-checked.** The liveness properties, which need fairness and ENABLED: `DebateEnds`, `NoWakeupLost`,
`JobEnds`, `CallEnds`, `Recovers`, `PollEnds` and `ViewsCatchUp`. The table of `Routes`, which is about strings. Every
other property of a passing run is a theorem: no property is left out because of what a loop or a recursive function
computes, since loops are steps with an invariant here and no module that is proved about declares a recursive
operator.

## 6. Not modelled

- Texts, prompts, JSON and HTML beyond what a text makes of an answer (`Dashboard`), the files, and the answers of LLM
  services (a query's outcome is a length or a failure).
- Of the page: charts, sorting, search and export, what an answer about a visualization would show, and `updateDebateDisplay`,
  which no answer reaches. Of the server: the handlers behind routes that cannot be reached, and the texts of the others.
- Of the metrics: the statistics. Of `types.h`: helpers that compute a number or a text from their arguments.
- `TimeoutGuard`, a comparison of two times, and `get_state`, a read. The classifier counts keywords in one string.
- Hash and logging wrap a library and a stream. `tribunal_http.c` is built by no target of the Makefile.

Left out of the configurations, but true of the same instances: `TypeOK` of `LLMClient`, `Database`, `Resilience`
and `Dashboard`, and `MainTypeOK` of `Startup`. All of them are theorems.

## 7. Plan

1. *Done*: analysts, pool, elections, council, thread pool, jobs; the pool's proofs.
2. *Done*: the shared clients (`LLMClient`) and the start of the program (`Startup`).
3. *Done*: the database connection (`Database`) and its proofs; breaker and retry loop (`Resilience`); routing table and
   page (`Routes`, `Dashboard`).
4. Statistics and classifier as operators compared with reference definitions.
5. *Done*: proofs of the safety properties of every component.
6. Abstract specifications of more components, and proofs that the detailed ones implement them: *done* for the
   breaker and the debates; next transactions that are atomic, for `Database`, and jobs in one step for `JobServer`.

Runs are few on purpose: a module's properties share one run where one instance reaches all their
interesting cases.
