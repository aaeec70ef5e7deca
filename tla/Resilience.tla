----------------------------- MODULE Resilience -----------------------------
(***************************************************************************)
(* util::CircuitBreaker and util::retryable, used by threads that share    *)
(* one breaker.  The breaker has no lock and no atomic: a step is one      *)
(* access to one of its fields, in the order of the source (an increment   *)
(* is a load and a store).                                                 *)
(*                                                                         *)
(* Threads in Retrier call the breaker from inside retryable, which counts *)
(* a refusal by the breaker as a failed attempt like any other.            *)
(***************************************************************************)
EXTENDS Integers, FiniteSets

CONSTANTS
  Caller,             \* the threads that share the breaker
  Retrier,            \* those that call it from inside retryable
  failure_threshold_,
  success_threshold_,
  recovery_timeout,   \* recovery_timeout_ms_, in ticks of the clock
  PolicyName          \* the retry policies in use

ASSUME ResilienceAssumption ==
  /\ IsFiniteSet(Caller) /\ Retrier \subseteq Caller
  /\ failure_threshold_ \in Nat \ {0}
  /\ success_threshold_ \in Nat \ {0}
  /\ recovery_timeout \in Nat
  /\ PolicyName \subseteq {"aggressive", "moderate", "conservative"}

VARIABLES
  state_,
  failure_count_,
  success_count_,
  elapsed,        \* ticks since last_failure_time_, at most recovery_timeout
  pc,             \* where each thread is
  reg,            \* the counter a thread has loaded and not stored yet
  attempt,        \* the attempt a retrier is at, 0 outside of retryable
  policy,
  delay_ms,       \* the delay before jitter
  actual_delay,   \* the delay a retrier sleeps
  error_msg,
  tries,          \* history: what the attempts of this call have come to
  serial,         \* history: no two calls of the breaker have overlapped
  streak,         \* history: failures in a row, while serial
  quiet           \* history: ticks since the last of them, while serial

breaker == <<state_, failure_count_, success_count_>>
retry == <<attempt, policy, delay_ms, actual_delay, error_msg, tries>>
history == <<serial, streak, quiet>>
vars == <<breaker, elapsed, pc, reg, retry, history>>

-----------------------------------------------------------------------------
(* Retry policies.  A factor is written in halves: 2.0 is 4, 1.5 is 3. *)

Policy ==
  [aggressive   |-> [max_attempts |-> 5, initial_delay_ms |-> 50,
                     max_delay_ms |-> 2000, halves |-> 4, jitter |-> TRUE],
   moderate     |-> [max_attempts |-> 3, initial_delay_ms |-> 100,
                     max_delay_ms |-> 5000, halves |-> 4, jitter |-> TRUE],
   conservative |-> [max_attempts |-> 2, initial_delay_ms |-> 500,
                     max_delay_ms |-> 10000, halves |-> 3, jitter |-> FALSE]]

\* The ends of the jitter's range and its middle.
JitterPercent == {0, 50, 100}

\* The delay with its jitter, cut to the policy's limit.
Waits(name, delay) ==
  LET p == Policy[name]
      jittered == {(delay * (100 + j)) \div 100 : j \in JitterPercent}
  IN  {IF d > p.max_delay_ms THEN p.max_delay_ms ELSE d :
         d \in IF p.jitter THEN jittered ELSE {delay}}

NextDelay(name, delay) == (delay * Policy[name].halves) \div 2

-----------------------------------------------------------------------------

Outcome == {"true", "false", "threw"}

\* Where a thread is outside of call and reset, and where it is at no field
\* of the breaker: "run" is in the caller's function.
Outside == {"idle", "tried", "sleep"}

AwayPC == Outside \cup {"run"}

TypeOK ==
  /\ state_ \in {"Closed", "Open", "HalfOpen"}
  /\ failure_count_ \in 0 .. failure_threshold_
  /\ success_count_ \in 0 .. success_threshold_
  /\ elapsed \in 0 .. recovery_timeout
  /\ pc \in [Caller -> AwayPC \cup
               {"clock", "halfOpen", "zeroSuccesses",
                "loadSuccesses", "storeSuccesses", "close", "zeroFailures",
                "loadFailures", "storeFailures", "open", "stamp",
                "resetFailures", "resetSuccesses"}]
  /\ reg \in [Caller -> (0 .. failure_threshold_) \cup (0 .. success_threshold_)]
  /\ attempt \in [Retrier -> 0 .. 5]
  /\ policy \in [Retrier -> PolicyName]
  /\ delay_ms \in [Retrier -> Nat] /\ actual_delay \in [Retrier -> Nat]
  /\ error_msg \in [Retrier -> {"", "what", "exhausted"}]
  /\ tries \in [Retrier -> [Outcome -> 0 .. 5]]
  /\ serial \in BOOLEAN
  /\ streak \in 0 .. failure_threshold_
  /\ quiet \in 0 .. recovery_timeout

\* A counter grows without limit when late stores bring an old value back,
\* and nothing tells its values from the threshold on apart.
Increment(n, threshold) == IF n < threshold THEN n + 1 ELSE n

NoTries == [o \in Outcome |-> 0]

\* A time point that was never set is the epoch, longer ago than any timeout.
Init ==
  /\ state_ = "Closed"
  /\ failure_count_ = 0
  /\ success_count_ = 0
  /\ elapsed = recovery_timeout
  /\ pc = [c \in Caller |-> "idle"]
  /\ reg = [c \in Caller |-> 0]
  /\ attempt = [r \in Retrier |-> 0]
  /\ policy \in [Retrier -> PolicyName]
  /\ delay_ms = [r \in Retrier |-> 0]
  /\ actual_delay = [r \in Retrier |-> 0]
  /\ error_msg = [r \in Retrier |-> ""]
  /\ tries = [r \in Retrier |-> NoTries]
  /\ serial = TRUE
  /\ streak = 0
  /\ quiet = recovery_timeout

Goto(c, place) == pc' = [pc EXCEPT ![c] = place]

\* The clock goes on.  Nothing tells times from recovery_timeout on apart.
Tick ==
  /\ elapsed < recovery_timeout \/ quiet < recovery_timeout
  /\ elapsed' = IF elapsed < recovery_timeout THEN elapsed + 1 ELSE elapsed
  /\ quiet' = IF quiet < recovery_timeout THEN quiet + 1 ELSE quiet
  /\ UNCHANGED <<breaker, pc, reg, retry, serial, streak>>

\* The histories go on only while the calls have been one at a time.
Note(c, failures, since) ==
  /\ serial' = (serial /\ \A d \in Caller \ {c} : pc[d] \in Outside)
  /\ streak' = IF serial' THEN failures ELSE 0
  /\ quiet' = IF serial' THEN since ELSE recovery_timeout

-----------------------------------------------------------------------------
(* The end of an attempt, for a thread inside of retryable. *)

Tried(c, outcome) ==
  IF c \in Retrier /\ attempt[c] > 0
    THEN /\ Goto(c, "tried")
         /\ tries' = [tries EXCEPT ![c][outcome] = @ + 1]
         /\ error_msg' = IF outcome = "threw"
                           THEN [error_msg EXCEPT ![c] = "what"]
                           ELSE error_msg
         /\ UNCHANGED <<attempt, policy, delay_ms, actual_delay>>
    ELSE Goto(c, "idle") /\ UNCHANGED retry

\* call() has returned: what the retried function makes of it is its own.
Returned(c) == \E outcome \in {"true", "false"} : Tried(c, outcome)

Rethrown(c) == Tried(c, "threw")

\* The caller's string for the error is new, or still has an earlier call's.
StartRetrying(r) ==
  /\ pc[r] = "idle" /\ attempt[r] = 0
  /\ \E name \in PolicyName :
       /\ policy' = [policy EXCEPT ![r] = name]
       /\ delay_ms' = [delay_ms EXCEPT ![r] = Policy[name].initial_delay_ms]
  /\ attempt' = [attempt EXCEPT ![r] = 1]
  /\ error_msg' \in {error_msg, [error_msg EXCEPT ![r] = ""]}
  /\ tries' = [tries EXCEPT ![r] = NoTries]
  /\ UNCHANGED <<breaker, elapsed, pc, reg, actual_delay, history>>

LastSaidTrue(r) == tries[r]["true"] > 0

Leave(r) ==
  /\ Goto(r, "idle")
  /\ attempt' = [attempt EXCEPT ![r] = 0]
  /\ delay_ms' = [delay_ms EXCEPT ![r] = 0]
  /\ UNCHANGED <<breaker, elapsed, reg, policy, actual_delay, tries, history>>

ReturnTrue(r) ==
  /\ pc[r] = "tried" /\ LastSaidTrue(r)
  /\ Leave(r)
  /\ UNCHANGED error_msg

\* Mutant: there is no limit to the attempts.
BackOffForever(r) ==
  /\ pc[r] = "tried" /\ ~LastSaidTrue(r)
  /\ \E wait \in Waits(policy[r], delay_ms[r]) :
       actual_delay' = [actual_delay EXCEPT ![r] = wait]
  /\ delay_ms' = [delay_ms EXCEPT ![r] = NextDelay(policy[r], @)]
  /\ Goto(r, "sleep")
  /\ UNCHANGED <<breaker, elapsed, reg, attempt, policy, error_msg, tries,
                 history>>

BackOff(r) ==
  /\ pc[r] = "tried" /\ ~LastSaidTrue(r)
  /\ attempt[r] < Policy[policy[r]].max_attempts
  /\ \E wait \in Waits(policy[r], delay_ms[r]) :
       actual_delay' = [actual_delay EXCEPT ![r] = wait]
  /\ delay_ms' = [delay_ms EXCEPT ![r] = NextDelay(policy[r], @)]
  /\ Goto(r, "sleep")
  /\ UNCHANGED <<breaker, elapsed, reg, attempt, policy, error_msg, tries,
                 history>>

TryAgain(r) ==
  /\ pc[r] = "sleep"
  /\ attempt' = [attempt EXCEPT ![r] = @ + 1]
  /\ actual_delay' = [actual_delay EXCEPT ![r] = 0]
  /\ Goto(r, "idle")
  /\ UNCHANGED <<breaker, elapsed, reg, policy, delay_ms, error_msg, tries,
                 history>>

\* Mutant: the last attempt is never made.
GiveUpEarly(r) ==
  /\ pc[r] = "tried" /\ ~LastSaidTrue(r)
  /\ attempt[r] + 1 >= Policy[policy[r]].max_attempts
  /\ error_msg' = [error_msg EXCEPT ![r] = IF @ = "" THEN "exhausted" ELSE @]
  /\ Leave(r)

\* The text of an earlier exception is kept, also when the last attempt just
\* said no.
GiveUp(r) ==
  /\ pc[r] = "tried" /\ ~LastSaidTrue(r)
  /\ attempt[r] >= Policy[policy[r]].max_attempts
  /\ error_msg' = [error_msg EXCEPT ![r] = IF @ = "" THEN "exhausted" ELSE @]
  /\ Leave(r)

-----------------------------------------------------------------------------
(* CircuitBreaker::call and is_open. *)

\* Nobody calls the breaker who is between two calls of retryable's loop.
MayCall(c) == pc[c] = "idle" /\ (c \in Retrier => attempt[c] > 0)

\* Mutant: a half-open breaker starts its count of successes with each call.
CallAnew(c) ==
  /\ MayCall(c)
  /\ Goto(c, IF state_ = "Closed" THEN "run" ELSE "clock")
  /\ Note(c, streak, quiet)
  /\ UNCHANGED <<breaker, elapsed, reg, retry>>

Call(c) ==
  /\ MayCall(c)
  /\ Goto(c, IF state_ = "Open" THEN "clock" ELSE "run")
  /\ Note(c, streak, quiet)
  /\ UNCHANGED <<breaker, elapsed, reg, retry>>

\* Mutant: the timeout is not looked at.
AdmitAtOnce(c) ==
  /\ pc[c] = "clock"
  /\ Goto(c, "halfOpen")
  /\ UNCHANGED <<breaker, elapsed, reg, retry, history>>

Admit(c) ==
  /\ pc[c] = "clock"
  /\ elapsed >= recovery_timeout
  /\ Goto(c, "halfOpen")
  /\ UNCHANGED <<breaker, elapsed, reg, retry, history>>

Refuse(c) ==
  /\ pc[c] = "clock"
  /\ elapsed < recovery_timeout
  /\ Rethrown(c)
  /\ UNCHANGED <<breaker, elapsed, reg, history>>

HalfOpen(c) ==
  /\ pc[c] = "halfOpen"
  /\ state_' = "HalfOpen"
  /\ Goto(c, "zeroSuccesses")
  /\ UNCHANGED <<failure_count_, success_count_, elapsed, reg, retry, history>>

\* Mutant: the successes of an earlier recovery still count.
KeepSuccesses(c) ==
  /\ pc[c] = "zeroSuccesses"
  /\ Goto(c, "run")
  /\ UNCHANGED <<breaker, elapsed, reg, retry, history>>

ZeroSuccesses(c) ==
  /\ pc[c] = "zeroSuccesses"
  /\ success_count_' = 0
  /\ Goto(c, "run")
  /\ UNCHANGED <<state_, failure_count_, elapsed, reg, retry, history>>

\* What is no std::exception passes through call and through retryable, and
\* nothing is recorded of it.
Escape(c) ==
  /\ pc[c] = "run"
  /\ Goto(c, "idle")
  /\ attempt' = [r \in Retrier |-> IF r = c THEN 0 ELSE attempt[r]]
  /\ delay_ms' = [r \in Retrier |-> IF r = c THEN 0 ELSE delay_ms[r]]
  /\ UNCHANGED <<breaker, elapsed, reg, policy, actual_delay, error_msg,
                 tries, history>>

-----------------------------------------------------------------------------
(* record_success: it reads state_ once. *)

Succeed(c) ==
  /\ pc[c] = "run"
  /\ CASE state_ = "HalfOpen" -> Goto(c, "loadSuccesses") /\ UNCHANGED retry
       [] state_ = "Closed"   -> Goto(c, "zeroFailures") /\ UNCHANGED retry
       [] state_ = "Open"     -> Returned(c)
  /\ Note(c, 0, quiet)
  /\ UNCHANGED <<breaker, elapsed, reg>>

LoadSuccesses(c) ==
  /\ pc[c] = "loadSuccesses"
  /\ reg' = [reg EXCEPT ![c] = success_count_]
  /\ Goto(c, "storeSuccesses")
  /\ UNCHANGED <<breaker, elapsed, retry, history>>

StoreSuccesses(c) ==
  /\ pc[c] = "storeSuccesses"
  /\ success_count_' = Increment(reg[c], success_threshold_)
  /\ reg' = [reg EXCEPT ![c] = 0]
  /\ IF success_count_' >= success_threshold_
       THEN Goto(c, "close") /\ UNCHANGED retry
       ELSE Returned(c)
  /\ UNCHANGED <<state_, failure_count_, elapsed, history>>

\* Mutant: the failures that opened the breaker stay counted.
CloseOnly(c) ==
  /\ pc[c] = "close"
  /\ state_' = "Closed"
  /\ Returned(c)
  /\ UNCHANGED <<failure_count_, success_count_, elapsed, reg, history>>

Close(c) ==
  /\ pc[c] = "close"
  /\ state_' = "Closed"
  /\ Goto(c, "zeroFailures")
  /\ UNCHANGED <<failure_count_, success_count_, elapsed, reg, retry, history>>

\* After a success in a closed breaker, and after Close.
ZeroFailures(c) ==
  /\ pc[c] = "zeroFailures"
  /\ failure_count_' = 0
  /\ Returned(c)
  /\ UNCHANGED <<state_, success_count_, elapsed, reg, history>>

-----------------------------------------------------------------------------
(* record_failure: it reads state_ once. *)

Throw(c) ==
  /\ pc[c] = "run"
  /\ CASE state_ = "HalfOpen" -> Goto(c, "open") /\ UNCHANGED retry
       [] state_ = "Closed"   -> Goto(c, "loadFailures") /\ UNCHANGED retry
       [] state_ = "Open"     -> Rethrown(c)
  /\ Note(c, Increment(streak, failure_threshold_), 0)
  /\ UNCHANGED <<breaker, elapsed, reg>>

LoadFailures(c) ==
  /\ pc[c] = "loadFailures"
  /\ reg' = [reg EXCEPT ![c] = failure_count_]
  /\ Goto(c, "storeFailures")
  /\ UNCHANGED <<breaker, elapsed, retry, history>>

StoreFailures(c) ==
  /\ pc[c] = "storeFailures"
  /\ failure_count_' = Increment(reg[c], failure_threshold_)
  /\ reg' = [reg EXCEPT ![c] = 0]
  /\ IF failure_count_' >= failure_threshold_
       THEN Goto(c, "open") /\ UNCHANGED retry
       ELSE Rethrown(c)
  /\ UNCHANGED <<state_, success_count_, elapsed, history>>

\* The state changes before the time does: until Stamp others see an open
\* breaker that failed at the time of the failure before.
Open(c) ==
  /\ pc[c] = "open"
  /\ state_' = "Open"
  /\ Goto(c, "stamp")
  /\ UNCHANGED <<failure_count_, success_count_, elapsed, reg, retry, history>>

Stamp(c) ==
  /\ pc[c] = "stamp"
  /\ elapsed' = 0
  /\ Rethrown(c)
  /\ UNCHANGED <<breaker, reg, history>>

-----------------------------------------------------------------------------
(* reset. *)

Reset(c) ==
  /\ pc[c] = "idle"
  /\ state_' = "Closed"
  /\ Goto(c, "resetFailures")
  /\ Note(c, 0, quiet)
  /\ UNCHANGED <<failure_count_, success_count_, elapsed, reg, retry>>

ResetFailures(c) ==
  /\ pc[c] = "resetFailures"
  /\ failure_count_' = 0
  /\ Goto(c, "resetSuccesses")
  /\ UNCHANGED <<state_, success_count_, elapsed, reg, retry, history>>

ResetSuccesses(c) ==
  /\ pc[c] = "resetSuccesses"
  /\ success_count_' = 0
  /\ Goto(c, "idle")
  /\ UNCHANGED <<state_, failure_count_, elapsed, reg, retry, history>>

-----------------------------------------------------------------------------

\* The steps of a call that has begun; its function ends in one of three ways.
CallStep(c) ==
  \/ Admit(c) \/ Refuse(c) \/ HalfOpen(c) \/ ZeroSuccesses(c)
  \/ Succeed(c) \/ LoadSuccesses(c) \/ StoreSuccesses(c) \/ Close(c)
  \/ ZeroFailures(c)
  \/ Throw(c) \/ LoadFailures(c) \/ StoreFailures(c) \/ Open(c) \/ Stamp(c)
  \/ Escape(c)
  \/ ResetFailures(c) \/ ResetSuccesses(c)

RetryStep(r) ==
  \/ StartRetrying(r) \/ ReturnTrue(r) \/ BackOff(r) \/ TryAgain(r) \/ GiveUp(r)

Next ==
  \/ \E c \in Caller : Call(c) \/ Reset(c) \/ CallStep(c)
  \/ \E r \in Retrier : RetryStep(r)
  \/ Tick

Spec == Init /\ [][Next]_vars

\* Threads go on, functions end and time passes.  Nobody has to call.
Fairness ==
  /\ \A c \in Caller : WF_vars(CallStep(c))
  /\ WF_vars(Tick)

FairSpec == Spec /\ Fairness

-----------------------------------------------------------------------------
(* Properties. *)

\* However the threads' accesses mix and whatever updates they lose: when no
\* thread is inside a method, a closed breaker has counted fewer failures than
\* open it and a half-open one fewer successes than close it, so that nobody
\* has to fail or succeed once more than the constructor was told.
AtRest ==
  (\A c \in Caller : pc[c] \in AwayPC) =>
    /\ state_ = "Closed" => failure_count_ < failure_threshold_
    /\ state_ = "HalfOpen" => success_count_ < success_threshold_

\* Resilience.h:65 "Open: requests fail immediately without trying": while
\* calls come one at a time, after failure_threshold_ failures in a row the
\* function is not called again before the recovery timeout has passed since
\* the last of them, whoever recovered, reset or escaped in between.
FailsFastIfSerial ==
  [][\A c \in Caller :
       pc[c] # "run" /\ pc'[c] = "run" /\ serial' =>
         streak < failure_threshold_ \/ quiet >= recovery_timeout]_vars

-----------------------------------------------------------------------------
(* Calls one at a time.  What a method has decided and not yet stored is    *)
(* seen in the place of its thread.                                         *)

Inside == {c \in Caller : pc[c] \notin Outside}

Where == IF Inside = {} THEN "idle" ELSE pc[CHOOSE c \in Inside : TRUE]

Loaded == reg[CHOOSE c \in Inside : TRUE]

\* The mode and its count, for a count that changes the mode at a threshold.
Upto(threshold, count, mode, next) ==
  IF count < threshold THEN <<mode, count>> ELSE <<next, 0>>

ModeAndCount ==
  CASE Where = "loadFailures" -> Upto(failure_threshold_, failure_count_ + 1, "Closed", "Open")
    [] Where = "storeFailures" -> Upto(failure_threshold_, Loaded + 1, "Closed", "Open")
    [] Where = "loadSuccesses" -> Upto(success_threshold_, success_count_ + 1, "HalfOpen", "Closed")
    [] Where = "storeSuccesses" -> Upto(success_threshold_, Loaded + 1, "HalfOpen", "Closed")
    [] Where \in {"open", "stamp"} -> <<"Open", 0>>
    [] Where \in {"close", "zeroFailures", "resetFailures", "resetSuccesses"} -> <<"Closed", 0>>
    [] Where \in {"halfOpen", "zeroSuccesses"} -> <<"HalfOpen", 0>>
    [] OTHER -> <<state_, CASE state_ = "Closed"   -> failure_count_
                            [] state_ = "HalfOpen" -> success_count_
                            [] state_ = "Open"     -> 0>>

Atomic == INSTANCE Breaker WITH
  mode   <- IF serial THEN ModeAndCount[1] ELSE "Unknown",
  count  <- IF serial THEN ModeAndCount[2] ELSE 0,
  since  <- IF serial THEN quiet ELSE recovery_timeout,
  inside <- serial /\ Where \in {"run", "halfOpen", "zeroSuccesses"}

\* Resilience.h:64-66 for calls that come one at a time: the breaker is the
\* machine with three states that its comment describes and changes them at
\* the exact counts and times its constructor was given, although counts are
\* left over from one state to the next and a reset may come at any time.
ImplementsBreaker == Atomic!BreakerSpec

\* retryable returns after an attempt only when that attempt said true, or
\* when all attempts of the policy were made, refusals by the breaker and
\* exceptions among them, none said true, and there is an error to tell; and
\* between attempts it waits, at least what the policy starts with and at most
\* what it allows, also when jitter doubles a delay that has grown.
RetryHonest ==
  [][\A r \in Retrier :
       LET p == Policy[policy[r]]
           made == tries[r]["true"] + tries[r]["false"] + tries[r]["threw"]
       IN  pc[r] = "tried" /\ pc'[r] # "tried" =>
             IF pc'[r] = "sleep"
               THEN /\ tries[r]["true"] = 0
                    /\ made < p.max_attempts
                    /\ actual_delay'[r] \in p.initial_delay_ms .. p.max_delay_ms
               ELSE \/ tries[r]["true"] = 1
                    \/ made = p.max_attempts /\ error_msg'[r] # ""]_vars

\* When the service is well again, and calls keep coming, the breaker closes
\* and stays closed, through all the updates that racing callers lose.
Recovers ==
  /\ <>[][\A c \in Caller : ~Throw(c) /\ ~Escape(c)]_vars
  /\ []<><<\E c \in Caller : Call(c)>>_vars
  => <>[](state_ = "Closed")
=============================================================================
