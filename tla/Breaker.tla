------------------------------ MODULE Breaker ------------------------------
(***************************************************************************)
(* What util::CircuitBreaker promises those who call it one at a time: it  *)
(* opens with the last of failure_threshold_ failures in a row, lets       *)
(* somebody in again when recovery_timeout has passed since, and closes    *)
(* with the last of success_threshold_ successes, or opens again with the  *)
(* first failure.  What becomes of it once calls overlap is unknown.       *)
(***************************************************************************)
EXTENDS Integers

CONSTANTS failure_threshold_, success_threshold_, recovery_timeout

VARIABLES
  mode,     \* "Closed", "Open", "HalfOpen" or, after overlapping calls, "Unknown"
  count,    \* failures in a row while closed, successes while half-open
  since,    \* ticks since a failure
  inside    \* somebody's function runs

breakerVars == <<mode, count, since, inside>>

BreakerInit ==
  /\ mode = "Closed"
  /\ count = 0
  /\ since = recovery_timeout
  /\ inside = FALSE

Pass ==
  /\ ~inside /\ mode \in {"Closed", "HalfOpen"}
  /\ inside' = TRUE
  /\ UNCHANGED <<mode, count, since>>

TestRecovery ==
  /\ ~inside /\ mode = "Open" /\ since >= recovery_timeout
  /\ inside' = TRUE
  /\ mode' = "HalfOpen"
  /\ count' = 0
  /\ UNCHANGED since

\* The breaker changes to another mode when it has counted enough, and starts
\* the next count from zero.
CountUpTo(threshold, next) ==
  IF count + 1 >= threshold
    THEN mode' = next /\ count' = 0
    ELSE mode' = mode /\ count' = count + 1

Success ==
  /\ inside /\ inside' = FALSE
  /\ \/ mode = "Closed" /\ count' = 0 /\ UNCHANGED mode
     \/ mode = "HalfOpen" /\ CountUpTo(success_threshold_, "Closed")
  /\ UNCHANGED since

Failure ==
  /\ inside /\ inside' = FALSE
  /\ \/ mode = "Closed" /\ CountUpTo(failure_threshold_, "Open")
     \/ mode = "HalfOpen" /\ mode' = "Open" /\ count' = 0
  /\ since' = 0

\* The function ended by something that is no std::exception.
NothingRecorded ==
  /\ inside /\ inside' = FALSE
  /\ UNCHANGED <<mode, count, since>>

ResetByHand ==
  /\ ~inside /\ mode # "Unknown"
  /\ mode' = "Closed" /\ count' = 0
  /\ UNCHANGED <<since, inside>>

TimePasses ==
  /\ mode # "Unknown" /\ since < recovery_timeout
  /\ since' = since + 1
  /\ UNCHANGED <<mode, count, inside>>

Overlap ==
  /\ mode' = "Unknown" /\ count' = 0
  /\ since' = recovery_timeout /\ inside' = FALSE

BreakerNext ==
  \/ Pass \/ TestRecovery
  \/ Success \/ Failure \/ NothingRecorded
  \/ ResetByHand \/ TimePasses \/ Overlap

BreakerSpec == BreakerInit /\ [][BreakerNext]_breakerVars
=============================================================================
