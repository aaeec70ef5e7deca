--------------------------- MODULE ResilienceProofs ---------------------------
(***************************************************************************)
(* Proofs about Resilience, for any number of threads, any thresholds and  *)
(* any recovery timeout.                                                   *)
(***************************************************************************)
EXTENDS Resilience, TLAPS

USE ResilienceAssumption DEF ResilienceAssumption

-----------------------------------------------------------------------------
(* The invariant of the breaker. *)

Place ==
  AwayPC \cup {"clock", "halfOpen", "zeroSuccesses", "loadSuccesses",
               "storeSuccesses", "close", "zeroFailures", "loadFailures",
               "storeFailures", "open", "stamp", "resetFailures", "resetSuccesses"}

DataTyped ==
  /\ state_ \in {"Closed", "Open", "HalfOpen"}
  /\ failure_count_ \in Nat /\ success_count_ \in Nat
  /\ elapsed \in 0 .. recovery_timeout /\ quiet \in 0 .. recovery_timeout
  /\ streak \in Nat
  /\ reg \in [Caller -> Nat]
  /\ serial \in BOOLEAN

\* Too many failures in a closed breaker, or successes in a half-open one: a
\* thread is about to change the state or the count.
Opens == {"open", "zeroFailures", "resetFailures"}
Closes == {"close", "zeroSuccesses"}

OpenComes ==
  state_ = "Closed" /\ failure_count_ >= failure_threshold_ =>
    \E c \in Caller : pc[c] \in Opens

CloseComes ==
  state_ = "HalfOpen" /\ success_count_ >= success_threshold_ =>
    \E c \in Caller : pc[c] \in Closes

\* Between calls that come one at a time, a closed breaker has counted the
\* streak, an open one knows the last failure, and a half-open one has waited.
Counting == state_ = "Closed" /\ streak = failure_count_ /\ failure_count_ < failure_threshold_

Waited == quiet >= recovery_timeout

Rest == Counting \/ (state_ = "Open" /\ elapsed <= quiet) \/ (state_ = "HalfOpen" /\ Waited)

\* And inside of a call, at each place.
Fits(c) ==
  /\ pc[c] \in Outside => Rest
  /\ pc[c] = "run" => Counting \/ (state_ = "HalfOpen" /\ Waited)
  /\ pc[c] = "clock" => state_ = "Open" /\ elapsed <= quiet
  /\ pc[c] = "halfOpen" => Waited
  /\ pc[c] = "zeroSuccesses" => state_ = "HalfOpen" /\ Waited
  /\ pc[c] \in {"loadSuccesses", "storeSuccesses"} =>
       state_ = "HalfOpen" /\ Waited /\ streak = 0
  /\ pc[c] = "close" => streak = 0
  /\ pc[c] \in {"zeroFailures", "resetFailures"} => state_ = "Closed" /\ streak = 0
  /\ pc[c] = "resetSuccesses" =>
       state_ = "Closed" /\ streak = 0 /\ failure_count_ = 0
  /\ pc[c] = "loadFailures" =>
       /\ state_ = "Closed" /\ streak = failure_count_ + 1
       /\ failure_count_ < failure_threshold_
  /\ pc[c] = "storeFailures" =>
       /\ state_ = "Closed" /\ streak = reg[c] + 1
       /\ reg[c] < failure_threshold_
  /\ pc[c] = "stamp" => state_ = "Open"

Alone(c) == \A d \in Caller \ {c} : pc[d] \in Outside

Serially ==
  serial => /\ \A c \in Caller : pc[c] \notin Outside => Alone(c)
            /\ \A c \in Caller : Alone(c) => Fits(c)

BreakerInv ==
  /\ DataTyped /\ pc \in [Caller -> Place]
  /\ OpenComes /\ CloseComes /\ Serially

-----------------------------------------------------------------------------

Moved(c) ==
  /\ pc' \in [Caller -> Place]
  /\ \A d \in Caller \ {c} : pc'[d] = pc[d]

\* What a step of thread c has to show.
LEMMA StepKeeps ==
  ASSUME BreakerInv, NEW c \in Caller, Moved(c), DataTyped',
         state_' = "Closed" /\ failure_count_' >= failure_threshold_ =>
           \/ pc'[c] \in Opens
           \/ /\ state_ = "Closed" /\ failure_count_ >= failure_threshold_
              /\ pc[c] \notin Opens,
         state_' = "HalfOpen" /\ success_count_' >= success_threshold_ =>
           \/ pc'[c] \in Closes
           \/ /\ state_ = "HalfOpen" /\ success_count_ >= success_threshold_
              /\ pc[c] \notin Closes,
         serial' => Alone(c) /\ Fits(c)'
  PROVE  BreakerInv'
<1>1. OpenComes'
  BY DEF BreakerInv, OpenComes, Moved
<1>2. CloseComes'
  BY DEF BreakerInv, CloseComes, Moved
<1>3. Serially'
  <2> SUFFICES ASSUME serial'
               PROVE  /\ \A d \in Caller : pc'[d] \notin Outside => Alone(d)'
                      /\ \A d \in Caller : Alone(d)' => Fits(d)'
    BY DEF Serially
  <2>1. \A d \in Caller \ {c} : pc'[d] \in Outside
    BY DEF Alone, Moved
  <2>2. ASSUME NEW d \in Caller, pc'[d] \notin Outside PROVE Alone(d)'
    BY <2>1, <2>2 DEF Alone
  <2>3. ASSUME NEW d \in Caller, Alone(d)' PROVE Fits(d)'
    <3>1. CASE d = c
      BY <3>1
    <3>2. CASE d # c
      <4>1. pc'[c] \in Outside /\ pc'[d] \in Outside
        BY <2>1, <2>3, <3>2 DEF Alone
      <4>2. Rest'
        BY <4>1 DEF Fits
      <4> QED BY <4>1, <4>2 DEF Fits, Outside
    <3> QED BY <3>1, <3>2
  <2> QED BY <2>2, <2>3
<1> QED BY <1>1, <1>2, <1>3 DEF BreakerInv, Moved

LEMMA GotoMoves ==
  ASSUME BreakerInv, NEW c \in Caller, NEW place \in Place, Goto(c, place)
  PROVE  Moved(c) /\ pc'[c] = place
BY DEF BreakerInv, Goto, Moved

\* An attempt that ends leaves the breaker's methods.
LEMMA TriedMoves ==
  ASSUME BreakerInv, NEW c \in Caller, NEW outcome \in Outcome, Tried(c, outcome)
  PROVE  Moved(c) /\ pc'[c] \in {"tried", "idle"}
<1>1. {"tried", "idle"} \subseteq Place
  BY DEF Place, AwayPC, Outside
<1> QED BY <1>1, GotoMoves DEF Tried

LEMMA EndsMove ==
  ASSUME BreakerInv, NEW c \in Caller, Returned(c) \/ Rethrown(c)
  PROVE  Moved(c) /\ pc'[c] \in {"tried", "idle"}
BY TriedMoves DEF Returned, Rethrown, Outcome

\* Where a thread inside of a call is alone, it fits.
LEMMA InsideFits ==
  ASSUME BreakerInv, NEW c \in Caller, pc[c] \notin Outside, serial
  PROVE  Alone(c) /\ Fits(c)
BY DEF BreakerInv, Serially

-----------------------------------------------------------------------------

LEMMA InitBreaker == Init => BreakerInv
<1> SUFFICES ASSUME Init PROVE BreakerInv
  OBVIOUS
<1>1. /\ state_ = "Closed" /\ failure_count_ = 0 /\ success_count_ = 0
      /\ elapsed = recovery_timeout /\ quiet = recovery_timeout
      /\ pc = [c \in Caller |-> "idle"] /\ reg = [c \in Caller |-> 0]
      /\ serial = TRUE /\ streak = 0
  BY DEF Init
<1>2. /\ DataTyped /\ pc \in [Caller -> Place]
      /\ \A c \in Caller : pc[c] = "idle" /\ "idle" \in Outside
  BY <1>1 DEF DataTyped, Place, AwayPC, Outside
<1>3. OpenComes /\ CloseComes
  BY <1>1 DEF OpenComes, CloseComes
<1>4. Rest
  BY <1>1 DEF Rest, Counting
<1>5. Serially
  <2>1. \A c \in Caller : Fits(c)
    BY <1>2, <1>4 DEF Fits, Outside
  <2> QED BY <1>2, <2>1 DEF Serially
<1> QED BY <1>2, <1>3, <1>5 DEF BreakerInv

\* The calls and the reset, which look whether anybody else is inside.
LEMMA EnterKeeps ==
  ASSUME BreakerInv, NEW c \in Caller, Call(c) \/ Reset(c)
  PROVE  BreakerInv'
<1>1. pc[c] = "idle" /\ (serial' => serial /\ Alone(c)) /\ serial' \in BOOLEAN
  BY DEF Call, Reset, MayCall, Note, Alone, BreakerInv, DataTyped
<1>2. serial' => Rest
  BY <1>1 DEF BreakerInv, Serially, Fits, Outside
<1>3. CASE Call(c)
  <2>1. /\ UNCHANGED <<state_, failure_count_, success_count_, elapsed, reg>>
        /\ serial' => streak' = streak /\ quiet' = quiet
        /\ streak' \in {streak, 0} /\ quiet' \in {quiet, recovery_timeout}
    BY <1>3 DEF Call, Note, breaker
  <2>2. Moved(c) /\ pc'[c] = (IF state_ = "Open" THEN "clock" ELSE "run")
    BY <1>3, GotoMoves DEF Call, Place, AwayPC
  <2>3. DataTyped'
    BY <1>1, <2>1 DEF BreakerInv, DataTyped
  <2>4. serial' => Fits(c)'
    BY <1>2, <2>1, <2>2 DEF Fits, Rest, Counting, Waited, Outside, BreakerInv, DataTyped
  <2> QED BY <1>1, <2>1, <2>2, <2>3, <2>4, StepKeeps DEF Opens, Closes
<1>4. CASE Reset(c)
  <2>1. /\ UNCHANGED <<failure_count_, success_count_, elapsed, reg>>
        /\ state_' = "Closed" /\ streak' = 0
        /\ quiet' \in {quiet, recovery_timeout}
    BY <1>4 DEF Reset, Note
  <2>2. Moved(c) /\ pc'[c] = "resetFailures"
    BY <1>4, GotoMoves DEF Reset, Place
  <2>3. DataTyped'
    BY <1>1, <2>1 DEF BreakerInv, DataTyped
  <2>4. serial' => Fits(c)'
    BY <2>1, <2>2 DEF Fits, Outside
  <2> QED BY <1>1, <2>1, <2>2, <2>3, <2>4, StepKeeps DEF Opens, Closes
<1> QED BY <1>3, <1>4

\* The steps inside of a call or a reset.
LEMMA CallStepKeeps ==
  ASSUME BreakerInv, NEW c \in Caller, CallStep(c)
  PROVE  BreakerInv'
<1>1. CASE Admit(c)
  <2>1. /\ pc[c] = "clock" /\ UNCHANGED <<state_, failure_count_, success_count_, elapsed, reg, serial, streak, quiet>>
        /\ elapsed >= recovery_timeout
    BY <1>1 DEF Admit, breaker, history, BreakerInv, DataTyped
  <2>2. Moved(c) /\ pc'[c] = "halfOpen"
    BY <1>1, GotoMoves DEF Admit, Place, AwayPC, Outside
  <2>3. DataTyped'
    BY <2>1 DEF BreakerInv, DataTyped
  <2>4. serial' => Alone(c) /\ Fits(c)'
    BY <2>1, <2>2, InsideFits DEF Fits, Rest, Counting, Waited, Outside, BreakerInv, DataTyped
  <2> QED BY <2>1, <2>2, <2>3, <2>4, StepKeeps DEF Opens, Closes
<1>2. CASE Refuse(c)
  <2>1. /\ pc[c] = "clock" /\ UNCHANGED <<state_, failure_count_, success_count_, elapsed, reg, serial, streak, quiet>>
    BY <1>2 DEF Refuse, breaker, history, BreakerInv, DataTyped
  <2>2. Moved(c) /\ pc'[c] \in {"tried", "idle"}
    BY <1>2, EndsMove DEF Refuse
  <2>3. DataTyped'
    BY <2>1 DEF BreakerInv, DataTyped
  <2>4. serial' => Alone(c) /\ Fits(c)'
    BY <2>1, <2>2, InsideFits DEF Fits, Rest, Counting, Waited, Outside, BreakerInv, DataTyped
  <2> QED BY <2>1, <2>2, <2>3, <2>4, StepKeeps DEF Opens, Closes
<1>3. CASE HalfOpen(c)
  <2>1. /\ pc[c] = "halfOpen" /\ UNCHANGED <<failure_count_, success_count_, elapsed, reg, serial, streak, quiet>>
        /\ state_' = "HalfOpen"
    BY <1>3 DEF HalfOpen, breaker, history, BreakerInv, DataTyped
  <2>2. Moved(c) /\ pc'[c] = "zeroSuccesses"
    BY <1>3, GotoMoves DEF HalfOpen, Place, AwayPC, Outside
  <2>3. DataTyped'
    BY <2>1 DEF BreakerInv, DataTyped
  <2>4. serial' => Alone(c) /\ Fits(c)'
    BY <2>1, <2>2, InsideFits DEF Fits, Rest, Counting, Waited, Outside, BreakerInv, DataTyped
  <2> QED BY <2>1, <2>2, <2>3, <2>4, StepKeeps DEF Opens, Closes
<1>4. CASE ZeroSuccesses(c)
  <2>1. /\ pc[c] = "zeroSuccesses" /\ UNCHANGED <<state_, failure_count_, elapsed, reg, serial, streak, quiet>>
        /\ success_count_' = 0
    BY <1>4 DEF ZeroSuccesses, breaker, history, BreakerInv, DataTyped
  <2>2. Moved(c) /\ pc'[c] = "run"
    BY <1>4, GotoMoves DEF ZeroSuccesses, Place, AwayPC, Outside
  <2>3. DataTyped'
    BY <2>1 DEF BreakerInv, DataTyped
  <2>4. serial' => Alone(c) /\ Fits(c)'
    BY <2>1, <2>2, InsideFits DEF Fits, Rest, Counting, Waited, Outside, BreakerInv, DataTyped
  <2> QED BY <2>1, <2>2, <2>3, <2>4, StepKeeps DEF Opens, Closes
<1>5. CASE LoadSuccesses(c)
  <2>1. /\ pc[c] = "loadSuccesses" /\ UNCHANGED <<state_, failure_count_, success_count_, elapsed, serial, streak, quiet>>
        /\ reg' \in [Caller -> Nat]
    BY <1>5 DEF LoadSuccesses, breaker, history, BreakerInv, DataTyped
  <2>2. Moved(c) /\ pc'[c] = "storeSuccesses"
    BY <1>5, GotoMoves DEF LoadSuccesses, Place, AwayPC, Outside
  <2>3. DataTyped'
    BY <2>1 DEF BreakerInv, DataTyped
  <2>4. serial' => Alone(c) /\ Fits(c)'
    BY <2>1, <2>2, InsideFits DEF Fits, Rest, Counting, Waited, Outside, BreakerInv, DataTyped
  <2> QED BY <2>1, <2>2, <2>3, <2>4, StepKeeps DEF Opens, Closes
<1>6. CASE StoreSuccesses(c)
  <2>1. /\ pc[c] = "storeSuccesses" /\ UNCHANGED <<state_, failure_count_, elapsed, serial, streak, quiet>>
        /\ success_count_' = Increment(reg[c], success_threshold_) /\ reg' \in [Caller -> Nat]
    BY <1>6 DEF StoreSuccesses, breaker, history, BreakerInv, DataTyped
  <2>2. reg[c] \in Nat
    BY DEF BreakerInv, DataTyped
  <2>3. success_count_' \in Nat
    BY <2>1, <2>2 DEF Increment
  <2>4. /\ Moved(c)
        /\ \/ success_count_' >= success_threshold_ /\ pc'[c] = "close"
           \/ ~(success_count_' >= success_threshold_) /\ pc'[c] \in {"tried", "idle"}
    BY <1>6, GotoMoves, EndsMove DEF StoreSuccesses, Place
  <2>5. DataTyped'
    BY <2>1, <2>3 DEF BreakerInv, DataTyped
  <2>6. serial' => Alone(c) /\ Fits(c)'
    BY <2>1, <2>2, <2>4, InsideFits DEF Increment, Fits, Rest, Counting, Waited, Outside
  <2> QED BY <2>1, <2>4, <2>5, <2>6, StepKeeps DEF Opens, Closes
<1>7. CASE Close(c)
  <2>1. /\ pc[c] = "close" /\ UNCHANGED <<failure_count_, success_count_, elapsed, reg, serial, streak, quiet>>
        /\ state_' = "Closed"
    BY <1>7 DEF Close, breaker, history, BreakerInv, DataTyped
  <2>2. Moved(c) /\ pc'[c] = "zeroFailures"
    BY <1>7, GotoMoves DEF Close, Place, AwayPC, Outside
  <2>3. DataTyped'
    BY <2>1 DEF BreakerInv, DataTyped
  <2>4. serial' => Alone(c) /\ Fits(c)'
    BY <2>1, <2>2, InsideFits DEF Fits, Rest, Counting, Waited, Outside, BreakerInv, DataTyped
  <2> QED BY <2>1, <2>2, <2>3, <2>4, StepKeeps DEF Opens, Closes
<1>8. CASE ZeroFailures(c)
  <2>1. /\ pc[c] = "zeroFailures" /\ UNCHANGED <<state_, success_count_, elapsed, reg, serial, streak, quiet>>
        /\ failure_count_' = 0
    BY <1>8 DEF ZeroFailures, breaker, history, BreakerInv, DataTyped
  <2>2. Moved(c) /\ pc'[c] \in {"tried", "idle"}
    BY <1>8, EndsMove DEF ZeroFailures
  <2>3. DataTyped'
    BY <2>1 DEF BreakerInv, DataTyped
  <2>4. serial' => Alone(c) /\ Fits(c)'
    BY <2>1, <2>2, InsideFits DEF Fits, Rest, Counting, Waited, Outside, BreakerInv, DataTyped
  <2> QED BY <2>1, <2>2, <2>3, <2>4, StepKeeps DEF Opens, Closes
<1>9. CASE LoadFailures(c)
  <2>1. /\ pc[c] = "loadFailures" /\ UNCHANGED <<state_, failure_count_, success_count_, elapsed, serial, streak, quiet>>
        /\ reg' \in [Caller -> Nat] /\ reg'[c] = failure_count_
    BY <1>9 DEF LoadFailures, breaker, history, BreakerInv, DataTyped
  <2>2. Moved(c) /\ pc'[c] = "storeFailures"
    BY <1>9, GotoMoves DEF LoadFailures, Place, AwayPC, Outside
  <2>3. DataTyped'
    BY <2>1 DEF BreakerInv, DataTyped
  <2>4. serial' => Alone(c) /\ Fits(c)'
    BY <2>1, <2>2, InsideFits DEF Fits, Rest, Counting, Waited, Outside, BreakerInv, DataTyped
  <2> QED BY <2>1, <2>2, <2>3, <2>4, StepKeeps DEF Opens, Closes
<1>10. CASE StoreFailures(c)
  <2>1. /\ pc[c] = "storeFailures" /\ UNCHANGED <<state_, success_count_, elapsed, serial, streak, quiet>>
        /\ failure_count_' = Increment(reg[c], failure_threshold_) /\ reg' \in [Caller -> Nat]
    BY <1>10 DEF StoreFailures, breaker, history, BreakerInv, DataTyped
  <2>2. reg[c] \in Nat
    BY DEF BreakerInv, DataTyped
  <2>3. failure_count_' \in Nat
    BY <2>1, <2>2 DEF Increment
  <2>4. /\ Moved(c)
        /\ \/ failure_count_' >= failure_threshold_ /\ pc'[c] = "open"
           \/ ~(failure_count_' >= failure_threshold_) /\ pc'[c] \in {"tried", "idle"}
    BY <1>10, GotoMoves, EndsMove DEF StoreFailures, Place
  <2>5. DataTyped'
    BY <2>1, <2>3 DEF BreakerInv, DataTyped
  <2>6. serial' => Alone(c) /\ Fits(c)'
    BY <2>1, <2>2, <2>4, InsideFits DEF Increment, Fits, Rest, Counting, Waited, Outside
  <2> QED BY <2>1, <2>4, <2>5, <2>6, StepKeeps DEF Opens, Closes
<1>11. CASE Open(c)
  <2>1. /\ pc[c] = "open" /\ UNCHANGED <<failure_count_, success_count_, elapsed, reg, serial, streak, quiet>>
        /\ state_' = "Open"
    BY <1>11 DEF Open, breaker, history, BreakerInv, DataTyped
  <2>2. Moved(c) /\ pc'[c] = "stamp"
    BY <1>11, GotoMoves DEF Open, Place, AwayPC, Outside
  <2>3. DataTyped'
    BY <2>1 DEF BreakerInv, DataTyped
  <2>4. serial' => Alone(c) /\ Fits(c)'
    BY <2>1, <2>2, InsideFits DEF Fits, Rest, Counting, Waited, Outside, BreakerInv, DataTyped
  <2> QED BY <2>1, <2>2, <2>3, <2>4, StepKeeps DEF Opens, Closes
<1>12. CASE Stamp(c)
  <2>1. /\ pc[c] = "stamp" /\ UNCHANGED <<state_, failure_count_, success_count_, reg, serial, streak, quiet>>
        /\ elapsed' = 0
    BY <1>12 DEF Stamp, breaker, history, BreakerInv, DataTyped
  <2>2. Moved(c) /\ pc'[c] \in {"tried", "idle"}
    BY <1>12, EndsMove DEF Stamp
  <2>3. DataTyped'
    BY <2>1 DEF BreakerInv, DataTyped
  <2>4. serial' => Alone(c) /\ Fits(c)'
    BY <2>1, <2>2, InsideFits DEF Fits, Rest, Counting, Waited, Outside, BreakerInv, DataTyped
  <2> QED BY <2>1, <2>2, <2>3, <2>4, StepKeeps DEF Opens, Closes
<1>13. CASE Escape(c)
  <2>1. /\ pc[c] = "run" /\ UNCHANGED <<state_, failure_count_, success_count_, elapsed, reg, serial, streak, quiet>>
    BY <1>13 DEF Escape, breaker, history, BreakerInv, DataTyped
  <2>2. Moved(c) /\ pc'[c] = "idle"
    BY <1>13, GotoMoves DEF Escape, Place, AwayPC, Outside
  <2>3. DataTyped'
    BY <2>1 DEF BreakerInv, DataTyped
  <2>4. serial' => Alone(c) /\ Fits(c)'
    BY <2>1, <2>2, InsideFits DEF Fits, Rest, Counting, Waited, Outside, BreakerInv, DataTyped
  <2> QED BY <2>1, <2>2, <2>3, <2>4, StepKeeps DEF Opens, Closes
<1>14. CASE ResetFailures(c)
  <2>1. /\ pc[c] = "resetFailures" /\ UNCHANGED <<state_, success_count_, elapsed, reg, serial, streak, quiet>>
        /\ failure_count_' = 0
    BY <1>14 DEF ResetFailures, breaker, history, BreakerInv, DataTyped
  <2>2. Moved(c) /\ pc'[c] = "resetSuccesses"
    BY <1>14, GotoMoves DEF ResetFailures, Place, AwayPC, Outside
  <2>3. DataTyped'
    BY <2>1 DEF BreakerInv, DataTyped
  <2>4. serial' => Alone(c) /\ Fits(c)'
    BY <2>1, <2>2, InsideFits DEF Fits, Rest, Counting, Waited, Outside, BreakerInv, DataTyped
  <2> QED BY <2>1, <2>2, <2>3, <2>4, StepKeeps DEF Opens, Closes
<1>15. CASE Succeed(c)
  <2>1. /\ pc[c] = "run" /\ UNCHANGED <<state_, failure_count_, success_count_, elapsed, reg>>
        /\ serial' = (serial /\ Alone(c))
        /\ serial' => streak' = 0 /\ quiet' = quiet
        /\ ~serial' => streak' = 0 /\ quiet' = recovery_timeout
    BY <1>15 DEF Succeed, Note, breaker, Alone
  <2>2. /\ Moved(c)
        /\ \/ state_ = "HalfOpen" /\ pc'[c] = "loadSuccesses"
           \/ state_ = "Closed" /\ pc'[c] = "zeroFailures"
           \/ state_ = "Open" /\ pc'[c] \in {"tried", "idle"}
    <3>1. CASE state_ = "HalfOpen"
      BY <1>15, <3>1, GotoMoves DEF Succeed, Place
    <3>2. CASE state_ = "Closed"
      BY <1>15, <3>2, GotoMoves DEF Succeed, Place
    <3>3. CASE state_ = "Open"
      BY <1>15, <3>3, EndsMove DEF Succeed
    <3> QED BY <3>1, <3>2, <3>3 DEF BreakerInv, DataTyped
  <2>3. DataTyped'
    BY <2>1 DEF BreakerInv, DataTyped, Increment
  <2>4. serial' => Alone(c) /\ Fits(c)'
    <3> SUFFICES ASSUME serial' PROVE Alone(c) /\ Fits(c)'
      OBVIOUS
    <3>1. serial /\ Alone(c) /\ streak' = 0 /\ quiet' = quiet
      BY <2>1
    <3>2. Fits(c)
      BY <2>1, <3>1, InsideFits DEF Outside
    <3>3. Counting \/ (state_ = "HalfOpen" /\ Waited)
      BY <2>1, <3>2 DEF Fits
    <3> QED BY <2>1, <2>2, <3>1, <3>3 DEF Increment, Fits, Rest, Counting, Waited, Outside,
            BreakerInv, DataTyped
  <2> QED BY <2>1, <2>2, <2>3, <2>4, StepKeeps DEF Opens, Closes
<1>16. CASE Throw(c)
  <2>1. /\ pc[c] = "run" /\ UNCHANGED <<state_, failure_count_, success_count_, elapsed, reg>>
        /\ serial' = (serial /\ Alone(c))
        /\ serial' => streak' = Increment(streak, failure_threshold_) /\ quiet' = 0
        /\ ~serial' => streak' = 0 /\ quiet' = recovery_timeout
    BY <1>16 DEF Throw, Note, breaker, Alone
  <2>2. /\ Moved(c)
        /\ \/ state_ = "HalfOpen" /\ pc'[c] = "open"
           \/ state_ = "Closed" /\ pc'[c] = "loadFailures"
           \/ state_ = "Open" /\ pc'[c] \in {"tried", "idle"}
    <3>1. CASE state_ = "HalfOpen"
      BY <1>16, <3>1, GotoMoves DEF Throw, Place
    <3>2. CASE state_ = "Closed"
      BY <1>16, <3>2, GotoMoves DEF Throw, Place
    <3>3. CASE state_ = "Open"
      BY <1>16, <3>3, EndsMove DEF Throw
    <3> QED BY <3>1, <3>2, <3>3 DEF BreakerInv, DataTyped
  <2>3. DataTyped'
    BY <2>1 DEF BreakerInv, DataTyped, Increment
  <2>4. serial' => Alone(c) /\ Fits(c)'
    <3> SUFFICES ASSUME serial' PROVE Alone(c) /\ Fits(c)'
      OBVIOUS
    <3>1. serial /\ Alone(c) /\ streak' = Increment(streak, failure_threshold_) /\ quiet' = 0
      BY <2>1
    <3>2. Fits(c)
      BY <2>1, <3>1, InsideFits DEF Outside
    <3>3. Counting \/ (state_ = "HalfOpen" /\ Waited)
      BY <2>1, <3>2 DEF Fits
    <3> QED BY <2>1, <2>2, <3>1, <3>3 DEF Increment, Fits, Rest, Counting, Waited, Outside,
            BreakerInv, DataTyped
  <2> QED BY <2>1, <2>2, <2>3, <2>4, StepKeeps DEF Opens, Closes
<1>17. CASE ResetSuccesses(c)
  <2>1. /\ pc[c] = "resetSuccesses" /\ UNCHANGED <<state_, failure_count_, elapsed, reg, serial, streak, quiet>>
        /\ success_count_' = 0
    BY <1>17 DEF ResetSuccesses, breaker, history, BreakerInv, DataTyped
  <2>2. Moved(c) /\ pc'[c] = "idle"
    BY <1>17, GotoMoves DEF ResetSuccesses, Place, AwayPC, Outside
  <2>3. DataTyped'
    BY <2>1 DEF BreakerInv, DataTyped
  <2>4. serial' => Alone(c) /\ Fits(c)'
    BY <2>1, <2>2, InsideFits DEF Fits, Rest, Counting, Waited, Outside, BreakerInv, DataTyped
  <2> QED BY <2>1, <2>2, <2>3, <2>4, StepKeeps DEF Opens, Closes
<1> QED BY <1>1, <1>2, <1>3, <1>4, <1>5, <1>6, <1>7, <1>8, <1>9, <1>10, <1>11, <1>12, <1>13,
           <1>14, <1>15, <1>16, <1>17 DEF CallStep

\* The retry loop moves outside of calls alone.
LEMMA RetryStepKeeps ==
  ASSUME BreakerInv, NEW r \in Retrier, RetryStep(r)
  PROVE  BreakerInv'
<1>1. r \in Caller /\ UNCHANGED <<breaker, elapsed, reg, history>>
  BY DEF RetryStep, StartRetrying, ReturnTrue, BackOff, TryAgain, GiveUp, Leave
<1>2. UNCHANGED <<state_, failure_count_, success_count_, elapsed, reg, serial, streak, quiet>>
  BY <1>1 DEF breaker, history
<1>3. /\ pc[r] \in Outside /\ pc'[r] \in Outside /\ Moved(r)
  <2>1. CASE StartRetrying(r)
    BY <2>1 DEF StartRetrying, Outside, Moved, BreakerInv
  <2>2. CASE ReturnTrue(r) \/ GiveUp(r) \/ TryAgain(r)
    <3>1. pc[r] \in Outside /\ Goto(r, "idle")
      BY <2>2 DEF ReturnTrue, GiveUp, TryAgain, Leave, Outside
    <3> QED BY <1>1, <3>1, GotoMoves DEF Place, AwayPC, Outside
  <2>3. CASE BackOff(r)
    BY <1>1, <2>3, GotoMoves DEF BackOff, Place, AwayPC, Outside
  <2> QED BY <2>1, <2>2, <2>3 DEF RetryStep
<1>4. pc' \in [Caller -> Place] /\ \A d \in Caller : pc'[d] \in Outside <=> pc[d] \in Outside
  BY <1>1, <1>3 DEF Moved
<1>5. \A d \in Caller : pc'[d] = pc[d] \/ (pc[d] \in Outside /\ pc'[d] \in Outside)
  BY <1>3 DEF Moved
<1>6. DataTyped'
  BY <1>2 DEF BreakerInv, DataTyped
<1>7. OpenComes' /\ CloseComes'
  <2>1. \A d \in Caller : /\ pc[d] \in Opens => pc'[d] \in Opens
                          /\ pc[d] \in Closes => pc'[d] \in Closes
    BY <1>5 DEF Opens, Closes, Outside
  <2> QED BY <1>2, <2>1 DEF BreakerInv, OpenComes, CloseComes
<1>8. Serially'
  <2>1. \A d \in Caller : Alone(d)' <=> Alone(d)
    BY <1>4 DEF Alone
  <2>2. Rest' <=> Rest
    BY <1>2 DEF Rest, Counting, Waited
  <2>3. ASSUME NEW d \in Caller, Fits(d) PROVE Fits(d)'
    BY <1>2, <1>5, <2>2, <2>3 DEF Fits, Counting, Waited, Outside
  <2> QED BY <1>2, <1>4, <2>1, <2>3 DEF BreakerInv, Serially
<1> QED BY <1>4, <1>6, <1>7, <1>8 DEF BreakerInv

LEMMA TickKeeps == BreakerInv /\ Tick => BreakerInv'
<1> SUFFICES ASSUME BreakerInv, Tick PROVE BreakerInv'
  OBVIOUS
<1>1. /\ UNCHANGED <<state_, failure_count_, success_count_, reg, serial, streak, pc>>
      /\ elapsed' = IF elapsed < recovery_timeout THEN elapsed + 1 ELSE elapsed
      /\ quiet' = IF quiet < recovery_timeout THEN quiet + 1 ELSE quiet
  BY DEF Tick, breaker
<1>2. DataTyped'
  BY <1>1 DEF BreakerInv, DataTyped
<1>3. OpenComes' /\ CloseComes'
  BY <1>1 DEF BreakerInv, OpenComes, CloseComes
<1>4. (elapsed <= quiet => elapsed' <= quiet') /\ (Waited => Waited')
  BY <1>1 DEF BreakerInv, DataTyped, Waited
<1>5. Serially'
  <2>1. Rest => Rest'
    BY <1>1, <1>4 DEF Rest, Counting
  <2>2. ASSUME NEW d \in Caller, Fits(d) PROVE Fits(d)'
    BY <1>1, <1>4, <2>1, <2>2 DEF Fits, Counting
  <2> QED BY <1>1, <2>2 DEF BreakerInv, Serially, Alone
<1> QED BY <1>1, <1>2, <1>3, <1>5 DEF BreakerInv

LEMMA NextBreaker == BreakerInv /\ [Next]_vars => BreakerInv'
<1> SUFFICES ASSUME BreakerInv, [Next]_vars PROVE BreakerInv'
  OBVIOUS
<1>1. CASE UNCHANGED vars
  BY <1>1 DEF vars, breaker, history, BreakerInv, DataTyped, OpenComes, CloseComes,
     Serially, Alone, Fits, Rest, Counting, Waited
<1>2. CASE Next
  BY <1>2, EnterKeeps, CallStepKeeps, RetryStepKeeps, TickKeeps DEF Next
<1> QED BY <1>1, <1>2

\* The breaker's invariant: who leaves a count at its threshold is about to
\* act on it, and calls that come one at a time find the breaker as the
\* failures so far have made it.
THEOREM BreakerInvariant == Spec => []BreakerInv
BY InitBreaker, NextBreaker, PTL DEF Spec

\* Whatever updates racing threads lose, a breaker nobody is inside of has
\* counted less than its thresholds.
THEOREM BelowThresholdsAtRest == Spec => []AtRest
<1>1. BreakerInv => AtRest
  <2> SUFFICES ASSUME BreakerInv, \A c \in Caller : pc[c] \in AwayPC
               PROVE  /\ state_ = "Closed" => failure_count_ < failure_threshold_
                      /\ state_ = "HalfOpen" => success_count_ < success_threshold_
    BY DEF AtRest
  <2>1. \A c \in Caller : pc[c] \notin Opens /\ pc[c] \notin Closes
    BY DEF AwayPC, Outside, Opens, Closes
  <2> QED BY <2>1 DEF BreakerInv, DataTyped, OpenComes, CloseComes
<1> QED BY <1>1, BreakerInvariant, PTL

\* Only a call and the thread that has made the breaker half-open begin to run
\* the caller's function.
LEMMA WhoRuns ==
  ASSUME BreakerInv, [Next]_vars, NEW c \in Caller, pc[c] # "run", pc'[c] = "run"
  PROVE  Call(c) \/ ZeroSuccesses(c)
<1>1. CASE UNCHANGED vars
  BY <1>1 DEF vars
<1>2. ASSUME NEW d \in Caller, Call(d) \/ ZeroSuccesses(d)
      PROVE  d = c
  BY <1>2 DEF Call, ZeroSuccesses, Goto, BreakerInv
<1>3. ASSUME NEW d \in Caller, Reset(d) \/ Admit(d) \/ HalfOpen(d) \/ LoadSuccesses(d)
               \/ LoadFailures(d) \/ Close(d) \/ Open(d) \/ Escape(d) \/ ResetFailures(d)
               \/ ResetSuccesses(d)
      PROVE  FALSE
  BY <1>3 DEF Reset, Admit, HalfOpen, LoadSuccesses, LoadFailures, Close, Open, Escape,
     ResetFailures, ResetSuccesses, Goto, BreakerInv
<1>4. ASSUME NEW d \in Caller, Refuse(d) \/ ZeroFailures(d) \/ Stamp(d)
      PROVE  FALSE
  <2>1. Moved(d) /\ pc'[d] \in {"tried", "idle"}
    BY <1>4, EndsMove DEF Refuse, ZeroFailures, Stamp
  <2> QED BY <2>1 DEF Moved
<1>5. ASSUME NEW d \in Caller, StoreSuccesses(d) \/ StoreFailures(d) \/ Succeed(d) \/ Throw(d)
      PROVE  FALSE
  <2>1. \/ Returned(d) \/ Rethrown(d)
        \/ \E place \in {"close", "open", "loadSuccesses", "zeroFailures", "loadFailures"} :
             Goto(d, place)
    BY <1>5 DEF StoreSuccesses, StoreFailures, Succeed, Throw, BreakerInv, DataTyped
  <2>2. CASE Returned(d) \/ Rethrown(d)
    BY <2>2, EndsMove DEF Moved
  <2>3. CASE \E place \in {"close", "open", "loadSuccesses", "zeroFailures", "loadFailures"} :
               Goto(d, place)
    BY <2>3 DEF Goto, BreakerInv
  <2> QED BY <2>1, <2>2, <2>3
<1>6. ASSUME NEW r \in Retrier, RetryStep(r)
      PROVE  FALSE
  BY <1>6 DEF RetryStep, StartRetrying, ReturnTrue, BackOff, TryAgain, GiveUp, Leave, Goto,
     BreakerInv
<1>7. CASE Tick
  BY <1>7 DEF Tick
<1> QED BY <1>1, <1>2, <1>3, <1>4, <1>5, <1>6, <1>7 DEF Next, CallStep

\* While calls come one at a time, an open breaker keeps the function from
\* being called until the recovery timeout has passed since the last failure,
\* for any thresholds and whoever recovered, reset or escaped in between.
THEOREM FailsFast == Spec => FailsFastIfSerial
<1> DEFINE Fast == \A c \in Caller :
             pc[c] # "run" /\ pc'[c] = "run" /\ serial' =>
               streak < failure_threshold_ \/ quiet >= recovery_timeout
<1>1. BreakerInv /\ [Next]_vars => Fast
  <2> SUFFICES ASSUME BreakerInv, [Next]_vars, NEW c \in Caller,
                      pc[c] # "run", pc'[c] = "run", serial'
               PROVE  streak < failure_threshold_ \/ quiet >= recovery_timeout
    OBVIOUS
  <2>1. CASE Call(c)
    <3>1. pc[c] = "idle" /\ serial /\ Alone(c) /\ state_ # "Open"
      BY <2>1 DEF Call, MayCall, Note, Alone, Goto, BreakerInv
    <3>2. Rest
      BY <3>1 DEF BreakerInv, Serially, Fits, Outside
    <3> QED BY <3>1, <3>2 DEF Rest, Counting, Waited
  <2>2. CASE ZeroSuccesses(c)
    <3>1. pc[c] = "zeroSuccesses" /\ serial
      BY <2>2 DEF ZeroSuccesses, history
    <3> QED BY <3>1, InsideFits DEF Fits, Waited, Outside
  <2> QED BY <2>1, <2>2, WhoRuns
<1> QED BY <1>1, BreakerInvariant, PTL DEF Spec, FailsFastIfSerial
-----------------------------------------------------------------------------
(* Calls one at a time implement Breaker. *)

LEMMA TheOne ==
  ASSUME NEW c \in Caller, NEW p, p[c] \notin Outside, \A d \in Caller \ {c} : p[d] \in Outside
  PROVE  LET in == {d \in Caller : p[d] \notin Outside}
         IN  in # {} /\ (CHOOSE d \in in : TRUE) = c
<1> DEFINE in == {d \in Caller : p[d] \notin Outside}
<1>1. in = {c}
  OBVIOUS
<1> QED BY <1>1

\* A thread that is alone is the one that is seen, before a step and after it.
LEMMA AloneSeen ==
  ASSUME NEW c \in Caller, Alone(c)
  PROVE  /\ pc[c] \in Outside => Where = "idle"
         /\ pc[c] \notin Outside => Where = pc[c] /\ Loaded = reg[c]
<1>1. CASE pc[c] \in Outside
  <2>1. Inside = {}
    BY <1>1 DEF Inside, Alone
  <2> QED BY <1>1, <2>1 DEF Where
<1>2. CASE pc[c] \notin Outside
  <2>1. Inside # {} /\ (CHOOSE d \in Inside : TRUE) = c
    BY <1>2, TheOne DEF Inside, Alone
  <2> QED BY <1>2, <2>1 DEF Where, Loaded
<1> QED BY <1>1, <1>2

LEMMA AloneSeenNext ==
  ASSUME NEW c \in Caller, Alone(c)'
  PROVE  /\ pc'[c] \in Outside => Where' = "idle"
         /\ pc'[c] \notin Outside => Where' = pc'[c] /\ Loaded' = reg'[c]
<1>1. CASE pc'[c] \in Outside
  <2>1. Inside' = {}
    BY <1>1 DEF Inside, Alone
  <2> QED BY <1>1, <2>1 DEF Where
<1>2. CASE pc'[c] \notin Outside
  <2>1. Inside' # {} /\ (CHOOSE d \in Inside' : TRUE) = c
    BY <1>2, TheOne DEF Inside, Alone
  <2> QED BY <1>2, <2>1 DEF Where, Loaded
<1> QED BY <1>1, <1>2

\* The places from which an abstract caller is seen inside.
InsidePlaces == {"run", "halfOpen", "zeroSuccesses"}

\* What a step of the abstract breaker does, told by what is seen.
LEMMA SeenUnchanged ==
  ASSUME serial, serial', ModeAndCount' = ModeAndCount, quiet' = quiet,
         Where' \in InsidePlaces <=> Where \in InsidePlaces
  PROVE  UNCHANGED Atomic!breakerVars
BY DEF Atomic!breakerVars, InsidePlaces

\* Steps that store what was decided before, or decide nothing.
LEMMA StoresRefine ==
  ASSUME BreakerInv, NEW c \in Caller, serial, Alone(c), Alone(c)',
         \/ Refuse(c) \/ HalfOpen(c) \/ ZeroSuccesses(c)
         \/ LoadSuccesses(c) \/ StoreSuccesses(c) \/ Close(c) \/ ZeroFailures(c)
         \/ LoadFailures(c) \/ StoreFailures(c) \/ Open(c) \/ Stamp(c)
         \/ ResetFailures(c) \/ ResetSuccesses(c)
  PROVE  UNCHANGED Atomic!breakerVars
<1> USE DEF Outside
<1>0. /\ Fits(c) /\ failure_count_ \in Nat /\ success_count_ \in Nat /\ reg[c] \in Nat
      /\ pc \in [Caller -> Place] /\ reg \in [Caller -> Nat]
  BY DEF BreakerInv, Serially, DataTyped
<1>1. CASE Refuse(c)
  <2>1. /\ pc[c] = "clock" /\ pc'[c] \in {"tried", "idle"}
        /\ UNCHANGED <<state_, failure_count_, success_count_, serial, quiet>>
    BY <1>1, EndsMove DEF Refuse, breaker, history
  <2>2. Where = "clock" /\ Where' = "idle"
    BY <2>1, AloneSeen, AloneSeenNext
  <2>3. ModeAndCount' = ModeAndCount
    BY <2>1, <2>2 DEF ModeAndCount
  <2> QED BY <2>1, <2>2, <2>3, SeenUnchanged DEF InsidePlaces
<1>2. CASE HalfOpen(c)
  <2>1. /\ pc[c] = "halfOpen" /\ pc'[c] = "zeroSuccesses"
        /\ UNCHANGED <<serial, quiet>>
    BY <1>0, <1>2 DEF HalfOpen, Goto, history
  <2>2. Where = "halfOpen" /\ Where' = "zeroSuccesses"
    BY <2>1, AloneSeen, AloneSeenNext
  <2>3. ModeAndCount' = ModeAndCount
    BY <2>2 DEF ModeAndCount
  <2> QED BY <2>1, <2>2, <2>3, SeenUnchanged DEF InsidePlaces
<1>3. CASE ZeroSuccesses(c)
  <2>1. /\ pc[c] = "zeroSuccesses" /\ pc'[c] = "run" /\ success_count_' = 0
        /\ UNCHANGED <<state_, serial, quiet>> /\ state_ = "HalfOpen"
    BY <1>0, <1>3 DEF ZeroSuccesses, Goto, history, Fits
  <2>2. Where = "zeroSuccesses" /\ Where' = "run"
    BY <2>1, AloneSeen, AloneSeenNext
  <2>3. ModeAndCount' = ModeAndCount
    BY <2>1, <2>2 DEF ModeAndCount
  <2> QED BY <2>1, <2>2, <2>3, SeenUnchanged DEF InsidePlaces
<1>4. CASE LoadSuccesses(c)
  <2>1. /\ pc[c] = "loadSuccesses" /\ pc'[c] = "storeSuccesses" /\ reg'[c] = success_count_
        /\ UNCHANGED <<serial, quiet>>
    BY <1>0, <1>4 DEF LoadSuccesses, Goto, history
  <2>2. Where = "loadSuccesses" /\ Where' = "storeSuccesses" /\ Loaded' = success_count_
    BY <2>1, AloneSeen, AloneSeenNext
  <2>3. ModeAndCount' = ModeAndCount
    BY <2>2 DEF ModeAndCount, Upto
  <2> QED BY <2>1, <2>2, <2>3, SeenUnchanged DEF InsidePlaces
<1>5. CASE StoreSuccesses(c)
  <2>1. /\ pc[c] = "storeSuccesses" /\ state_ = "HalfOpen"
        /\ success_count_' = Increment(reg[c], success_threshold_)
        /\ UNCHANGED <<state_, serial, quiet>>
    BY <1>0, <1>5 DEF StoreSuccesses, history, Fits
  <2>2. IF success_count_' >= success_threshold_
          THEN pc'[c] = "close" ELSE pc'[c] \in {"tried", "idle"}
    BY <1>0, <1>5, EndsMove DEF StoreSuccesses, Goto
  <2>3. /\ Where = "storeSuccesses" /\ Loaded = reg[c]
        /\ Where' = IF success_count_' >= success_threshold_ THEN "close" ELSE "idle"
    BY <2>1, <2>2, AloneSeen, AloneSeenNext
  <2>4. ModeAndCount' = ModeAndCount
    BY <1>0, <2>1, <2>3 DEF ModeAndCount, Upto, Increment
  <2> QED BY <2>1, <2>3, <2>4, SeenUnchanged DEF InsidePlaces
<1>6. CASE Close(c) \/ ResetFailures(c)
  <2>1. /\ \/ pc[c] = "close" /\ pc'[c] = "zeroFailures"
           \/ pc[c] = "resetFailures" /\ pc'[c] = "resetSuccesses"
        /\ UNCHANGED <<serial, quiet>>
    BY <1>0, <1>6 DEF Close, ResetFailures, Goto, history
  <2>2. /\ Where \in {"close", "resetFailures"}
        /\ Where' \in {"zeroFailures", "resetSuccesses"}
    BY <2>1, AloneSeen, AloneSeenNext
  <2>3. ModeAndCount' = ModeAndCount
    BY <2>2 DEF ModeAndCount
  <2> QED BY <2>1, <2>2, <2>3, SeenUnchanged DEF InsidePlaces
<1>11. CASE ZeroFailures(c) \/ ResetSuccesses(c)
  <2>1. /\ pc[c] \in {"zeroFailures", "resetSuccesses"} /\ pc'[c] \in {"tried", "idle"}
        /\ state_' = "Closed" /\ failure_count_' = 0
        /\ UNCHANGED <<serial, quiet>>
    BY <1>0, <1>11, EndsMove DEF ZeroFailures, ResetSuccesses, Goto, history, Fits
  <2>2. Where \in {"zeroFailures", "resetSuccesses"} /\ Where' = "idle"
    BY <2>1, AloneSeen, AloneSeenNext
  <2>3. ModeAndCount' = ModeAndCount
    BY <2>1, <2>2 DEF ModeAndCount
  <2> QED BY <2>1, <2>2, <2>3, SeenUnchanged DEF InsidePlaces
<1>7. CASE LoadFailures(c)
  <2>1. /\ pc[c] = "loadFailures" /\ pc'[c] = "storeFailures" /\ reg'[c] = failure_count_
        /\ UNCHANGED <<serial, quiet>>
    BY <1>0, <1>7 DEF LoadFailures, Goto, history
  <2>2. Where = "loadFailures" /\ Where' = "storeFailures" /\ Loaded' = failure_count_
    BY <2>1, AloneSeen, AloneSeenNext
  <2>3. ModeAndCount' = ModeAndCount
    BY <2>2 DEF ModeAndCount, Upto
  <2> QED BY <2>1, <2>2, <2>3, SeenUnchanged DEF InsidePlaces
<1>8. CASE StoreFailures(c)
  <2>1. /\ pc[c] = "storeFailures" /\ state_ = "Closed"
        /\ failure_count_' = Increment(reg[c], failure_threshold_)
        /\ UNCHANGED <<state_, serial, quiet>>
    BY <1>0, <1>8 DEF StoreFailures, history, Fits
  <2>2. IF failure_count_' >= failure_threshold_
          THEN pc'[c] = "open" ELSE pc'[c] \in {"tried", "idle"}
    BY <1>0, <1>8, EndsMove DEF StoreFailures, Goto
  <2>3. /\ Where = "storeFailures" /\ Loaded = reg[c]
        /\ Where' = IF failure_count_' >= failure_threshold_ THEN "open" ELSE "idle"
    BY <2>1, <2>2, AloneSeen, AloneSeenNext
  <2>4. ModeAndCount' = ModeAndCount
    BY <1>0, <2>1, <2>3 DEF ModeAndCount, Upto, Increment
  <2> QED BY <2>1, <2>3, <2>4, SeenUnchanged DEF InsidePlaces
<1>9. CASE Open(c)
  <2>1. pc[c] = "open" /\ pc'[c] = "stamp" /\ UNCHANGED <<serial, quiet>>
    BY <1>0, <1>9 DEF Open, Goto, history
  <2>2. Where = "open" /\ Where' = "stamp"
    BY <2>1, AloneSeen, AloneSeenNext
  <2>3. ModeAndCount' = ModeAndCount
    BY <2>2 DEF ModeAndCount
  <2> QED BY <2>1, <2>2, <2>3, SeenUnchanged DEF InsidePlaces
<1>10. CASE Stamp(c)
  <2>1. /\ pc[c] = "stamp" /\ pc'[c] \in {"tried", "idle"} /\ state_' = "Open"
        /\ UNCHANGED <<serial, quiet>>
    BY <1>0, <1>10, EndsMove DEF Stamp, breaker, history, Fits
  <2>2. Where = "stamp" /\ Where' = "idle"
    BY <2>1, AloneSeen, AloneSeenNext
  <2>3. ModeAndCount' = ModeAndCount
    BY <2>1, <2>2 DEF ModeAndCount
  <2> QED BY <2>1, <2>2, <2>3, SeenUnchanged DEF InsidePlaces
<1> QED BY <1>1, <1>2, <1>3, <1>4, <1>5, <1>6, <1>7, <1>8, <1>9, <1>10, <1>11

\* What is seen of a breaker whose thread is outside, or in its function.
LEMMA SeenStored ==
  ASSUME Where \in {"idle", "run", "clock"}, state_ \in {"Closed", "HalfOpen", "Open"}
  PROVE  ModeAndCount = <<state_, IF state_ = "Closed" THEN failure_count_
                                  ELSE IF state_ = "HalfOpen" THEN success_count_ ELSE 0>>
BY DEF ModeAndCount

\* Steps that let somebody in or record how a function ended.
LEMMA EntersRefine ==
  ASSUME BreakerInv, NEW c \in Caller, serial, serial', Alone(c), Alone(c)',
         Call(c) \/ Admit(c) \/ Reset(c)
  PROVE  Atomic!BreakerNext \/ UNCHANGED Atomic!breakerVars
<1> USE DEF Outside
<1>0. /\ Fits(c) /\ state_ \in {"Closed", "HalfOpen", "Open"}
      /\ pc \in [Caller -> Place] /\ quiet \in Nat /\ elapsed \in Nat
  BY DEF BreakerInv, Serially, DataTyped
<1>1. CASE Call(c)
  <2>1. /\ pc[c] = "idle" /\ pc'[c] = (IF state_ = "Open" THEN "clock" ELSE "run")
        /\ UNCHANGED <<state_, failure_count_, success_count_, quiet>>
    BY <1>0, <1>1 DEF Call, MayCall, Goto, Note, breaker
  <2>2. Where = "idle" /\ Where' = (IF state_ = "Open" THEN "clock" ELSE "run")
    BY <2>1, AloneSeen, AloneSeenNext
  <2>3. ModeAndCount' = ModeAndCount /\ ModeAndCount[1] = state_
    BY <1>0, <2>1, <2>2 DEF ModeAndCount
  <2>4. CASE state_ = "Open"
    BY <2>1, <2>2, <2>3, <2>4, SeenUnchanged DEF InsidePlaces
  <2>5. CASE state_ # "Open"
    <3>1. Atomic!Pass
      BY <1>0, <2>1, <2>2, <2>3, <2>5 DEF Atomic!Pass
    <3> QED BY <3>1 DEF Atomic!BreakerNext
  <2> QED BY <2>4, <2>5
<1>2. CASE Admit(c)
  <2>1. /\ pc[c] = "clock" /\ pc'[c] = "halfOpen" /\ state_ = "Open"
        /\ quiet >= recovery_timeout /\ quiet' = quiet
    BY <1>0, <1>2 DEF Admit, Goto, history, Fits
  <2>2. Where = "clock" /\ Where' = "halfOpen"
    BY <2>1, AloneSeen, AloneSeenNext
  <2>3. ModeAndCount = <<"Open", 0>> /\ ModeAndCount' = <<"HalfOpen", 0>>
    BY <2>1, <2>2 DEF ModeAndCount
  <2>4. Atomic!TestRecovery
    BY <2>1, <2>2, <2>3 DEF Atomic!TestRecovery
  <2> QED BY <2>4 DEF Atomic!BreakerNext
<1>3. CASE Reset(c)
  <2>1. pc[c] = "idle" /\ pc'[c] = "resetFailures" /\ quiet' = quiet
    BY <1>0, <1>3 DEF Reset, Goto, Note
  <2>2. Where = "idle" /\ Where' = "resetFailures"
    BY <2>1, AloneSeen, AloneSeenNext
  <2>3. ModeAndCount[1] = state_ /\ ModeAndCount' = <<"Closed", 0>>
    BY <2>2 DEF ModeAndCount
  <2>4. Atomic!ResetByHand
    BY <1>0, <2>1, <2>2, <2>3 DEF Atomic!ResetByHand
  <2> QED BY <2>4 DEF Atomic!BreakerNext
<1> QED BY <1>1, <1>2, <1>3

LEMMA EndsRefine ==
  ASSUME BreakerInv, NEW c \in Caller, serial, serial', Alone(c), Alone(c)',
         Succeed(c) \/ Throw(c) \/ Escape(c)
  PROVE  Atomic!BreakerNext
<1> USE DEF Outside
<1>0. /\ Fits(c) /\ state_ \in {"Closed", "HalfOpen", "Open"} /\ pc \in [Caller -> Place]
      /\ failure_count_ \in Nat /\ success_count_ \in Nat
  BY DEF BreakerInv, Serially, DataTyped
<1>1. pc[c] = "run" /\ state_ \in {"Closed", "HalfOpen"}
  BY <1>0 DEF Succeed, Throw, Escape, Fits, Counting
<1>2. Where = "run" /\ ModeAndCount = <<state_, IF state_ = "Closed" THEN failure_count_ ELSE success_count_>>
  <2>1. Where = "run"
    BY <1>1, AloneSeen
  <2> QED BY <1>1, <2>1, SeenStored
<1>3. CASE Succeed(c)
  <2>1. /\ pc'[c] = (IF state_ = "Closed" THEN "zeroFailures" ELSE "loadSuccesses")
        /\ UNCHANGED <<state_, failure_count_, success_count_, quiet>>
    BY <1>0, <1>1, <1>3 DEF Succeed, Goto, Note, breaker
  <2>2. Where' = IF state_ = "Closed" THEN "zeroFailures" ELSE "loadSuccesses"
    BY <2>1, AloneSeenNext
  <2>3. CASE state_ = "Closed"
    <3>1. ModeAndCount' = <<"Closed", 0>>
      BY <2>2, <2>3 DEF ModeAndCount
    <3>2. Atomic!Success
      BY <1>2, <2>1, <2>2, <2>3, <3>1 DEF Atomic!Success
    <3> QED BY <3>2 DEF Atomic!BreakerNext
  <2>4. CASE state_ = "HalfOpen"
    <3>1. ModeAndCount' = IF success_count_ + 1 < success_threshold_
                            THEN <<"HalfOpen", success_count_ + 1>> ELSE <<"Closed", 0>>
      BY <2>1, <2>2, <2>4 DEF ModeAndCount, Upto
    <3>2. Atomic!CountUpTo(success_threshold_, "Closed")
      BY <1>0, <1>2, <2>4, <3>1 DEF Atomic!CountUpTo
    <3>3. Atomic!Success
      BY <1>2, <2>1, <2>2, <2>4, <3>2 DEF Atomic!Success
    <3> QED BY <3>3 DEF Atomic!BreakerNext
  <2> QED BY <1>1, <2>3, <2>4
<1>4. CASE Throw(c)
  <2>1. /\ pc'[c] = (IF state_ = "Closed" THEN "loadFailures" ELSE "open")
        /\ UNCHANGED <<state_, failure_count_, success_count_>> /\ quiet' = 0
    BY <1>0, <1>1, <1>4 DEF Throw, Goto, Note, breaker
  <2>2. Where' = IF state_ = "Closed" THEN "loadFailures" ELSE "open"
    BY <2>1, AloneSeenNext
  <2>3. CASE state_ = "Closed"
    <3>1. ModeAndCount' = IF failure_count_ + 1 < failure_threshold_
                            THEN <<"Closed", failure_count_ + 1>> ELSE <<"Open", 0>>
      BY <2>1, <2>2, <2>3 DEF ModeAndCount, Upto
    <3>2. Atomic!CountUpTo(failure_threshold_, "Open")
      BY <1>0, <1>2, <2>3, <3>1 DEF Atomic!CountUpTo
    <3>3. Atomic!Failure
      BY <1>2, <2>1, <2>2, <2>3, <3>2 DEF Atomic!Failure
    <3> QED BY <3>3 DEF Atomic!BreakerNext
  <2>4. CASE state_ = "HalfOpen"
    <3>1. ModeAndCount' = <<"Open", 0>>
      BY <2>2, <2>4 DEF ModeAndCount
    <3>2. Atomic!Failure
      BY <1>2, <2>1, <2>2, <2>4, <3>1 DEF Atomic!Failure
    <3> QED BY <3>2 DEF Atomic!BreakerNext
  <2> QED BY <1>1, <2>3, <2>4
<1>5. CASE Escape(c)
  <2>1. pc'[c] = "idle" /\ UNCHANGED <<state_, failure_count_, success_count_, quiet>>
    BY <1>0, <1>5 DEF Escape, Goto, breaker, history
  <2>2. Where' = "idle"
    BY <2>1, AloneSeenNext
  <2>3. ModeAndCount' = ModeAndCount
    BY <1>1, <1>2, <2>1, <2>2 DEF ModeAndCount
  <2>4. Atomic!NothingRecorded
    BY <1>2, <2>1, <2>2, <2>3 DEF Atomic!NothingRecorded
  <2> QED BY <2>4 DEF Atomic!BreakerNext
<1> QED BY <1>3, <1>4, <1>5

\* Nobody else moves, and nobody else is inside while calls are one at a time.
LEMMA SerialStep ==
  ASSUME BreakerInv, NEW c \in Caller, Call(c) \/ Reset(c) \/ CallStep(c), serial'
  PROVE  serial /\ Alone(c) /\ Alone(c)'
<1>1. serial /\ Alone(c)
  <2>1. CASE Call(c) \/ Reset(c) \/ Succeed(c) \/ Throw(c)
    BY <2>1 DEF Call, Reset, Succeed, Throw, Note, Alone
  <2>2. CASE CallStep(c) /\ ~(Succeed(c) \/ Throw(c))
    <3>1. serial /\ pc[c] \notin Outside
      BY <2>2 DEF CallStep, Admit, Refuse, HalfOpen, ZeroSuccesses, LoadSuccesses, StoreSuccesses,
         Close, ZeroFailures, LoadFailures, StoreFailures, Open, Stamp, Escape, ResetFailures,
         ResetSuccesses, history, Outside
    <3> QED BY <3>1, InsideFits
  <2> QED BY <2>1, <2>2
<1>2. \A d \in Caller \ {c} : pc'[d] = pc[d]
  <2>1. CASE Call(c) \/ Reset(c) \/ Admit(c) \/ HalfOpen(c) \/ ZeroSuccesses(c)
             \/ LoadSuccesses(c) \/ LoadFailures(c) \/ Close(c) \/ Open(c) \/ Escape(c)
             \/ ResetFailures(c) \/ ResetSuccesses(c)
    BY <2>1 DEF Call, Reset, Admit, HalfOpen, ZeroSuccesses, LoadSuccesses, LoadFailures,
       Close, Open, Escape, ResetFailures, ResetSuccesses, Goto, BreakerInv
  <2>2. CASE Refuse(c) \/ ZeroFailures(c) \/ Stamp(c)
    BY <2>2, EndsMove DEF Refuse, ZeroFailures, Stamp, Moved
  <2>3. CASE StoreSuccesses(c) \/ StoreFailures(c) \/ Succeed(c) \/ Throw(c)
    <3>1. \/ Returned(c) \/ Rethrown(c)
          \/ \E place \in {"close", "open", "loadSuccesses", "zeroFailures", "loadFailures"} :
               Goto(c, place)
      BY <2>3 DEF StoreSuccesses, StoreFailures, Succeed, Throw, BreakerInv, DataTyped
    <3> QED BY <3>1, EndsMove DEF Goto, Moved, BreakerInv
  <2> QED BY <2>1, <2>2, <2>3 DEF CallStep
<1> QED BY <1>1, <1>2 DEF Alone

\* The retry loop and the clock.
LEMMA OthersRefine ==
  ASSUME BreakerInv, serial, serial',
         (\E r \in Retrier : RetryStep(r)) \/ Tick \/ UNCHANGED vars
  PROVE  Atomic!BreakerNext \/ UNCHANGED Atomic!breakerVars
<1>1. CASE \E r \in Retrier : RetryStep(r)
  <2>1. PICK r \in Retrier : RetryStep(r)
    BY <1>1
  <2>2. /\ UNCHANGED <<state_, failure_count_, success_count_, reg, quiet>>
        /\ r \in Caller /\ pc[r] \in Outside /\ pc'[r] \in Outside
        /\ \A d \in Caller \ {r} : pc'[d] = pc[d]
    BY <2>1 DEF RetryStep, StartRetrying, ReturnTrue, BackOff, TryAgain, GiveUp, Leave, Goto,
       Outside, BreakerInv, breaker, history
  <2>3. Inside' = Inside /\ \A d \in Inside : pc'[d] = pc[d]
    BY <2>2 DEF Inside
  <2>4. Where' = Where /\ Loaded' = Loaded
    <3>1. Inside # {} => (CHOOSE d \in Inside : TRUE) \in Inside
      OBVIOUS
    <3> QED BY <2>2, <2>3, <3>1 DEF Where, Loaded
  <2>5. ModeAndCount' = ModeAndCount
    BY <2>2, <2>4 DEF ModeAndCount
  <2> QED BY <2>2, <2>4, <2>5, SeenUnchanged
<1>2. CASE Tick
  <2>1. /\ UNCHANGED <<state_, failure_count_, success_count_, reg, pc>>
        /\ quiet' = IF quiet < recovery_timeout THEN quiet + 1 ELSE quiet
    BY <1>2 DEF Tick, breaker
  <2>2. Where' = Where /\ Loaded' = Loaded
    BY <2>1 DEF Where, Loaded, Inside
  <2>3. ModeAndCount' = ModeAndCount
    BY <2>1, <2>2 DEF ModeAndCount
  <2>4. CASE quiet < recovery_timeout
    <3>1. ModeAndCount[1] # "Unknown"
      BY DEF ModeAndCount, Upto, BreakerInv, DataTyped
    <3>2. Atomic!TimePasses
      BY <2>1, <2>2, <2>3, <2>4, <3>1 DEF Atomic!TimePasses
    <3> QED BY <3>2 DEF Atomic!BreakerNext
  <2>5. CASE ~(quiet < recovery_timeout)
    BY <2>1, <2>2, <2>3, <2>5, SeenUnchanged
  <2> QED BY <2>4, <2>5
<1>3. CASE UNCHANGED vars
  <2>1. UNCHANGED <<state_, failure_count_, success_count_, reg, pc, quiet>>
    BY <1>3 DEF vars, breaker, history
  <2>2. Where' = Where /\ Loaded' = Loaded
    BY <2>1 DEF Where, Loaded, Inside
  <2>3. ModeAndCount' = ModeAndCount
    BY <2>1, <2>2 DEF ModeAndCount
  <2> QED BY <2>1, <2>2, <2>3, SeenUnchanged
<1> QED BY <1>1, <1>2, <1>3

\* While calls come one at a time the breaker changes its state at the exact
\* counts and times it was given, for any thresholds and any timeout, whatever
\* counts are left over from one state to the next and whoever resets it.
THEOREM BreakerIsAtomic == Spec => ImplementsBreaker
<1>1. Init => Atomic!BreakerInit
  <2> SUFFICES ASSUME Init PROVE Atomic!BreakerInit
    OBVIOUS
  <2>1. /\ state_ = "Closed" /\ failure_count_ = 0 /\ serial = TRUE
        /\ quiet = recovery_timeout /\ \A c \in Caller : pc[c] = "idle"
    BY DEF Init
  <2>2. Where = "idle"
    BY <2>1 DEF Where, Inside, Outside
  <2>3. ModeAndCount = <<"Closed", 0>>
    BY <2>1, <2>2, SeenStored
  <2> QED BY <2>1, <2>2, <2>3 DEF Atomic!BreakerInit
<1>2. BreakerInv /\ [Next]_vars => [Atomic!BreakerNext]_(Atomic!breakerVars)
  <2> SUFFICES ASSUME BreakerInv, [Next]_vars
               PROVE  Atomic!BreakerNext \/ UNCHANGED Atomic!breakerVars
    OBVIOUS
  <2>1. CASE ~serial'
    <3>1. Atomic!Overlap
      BY <2>1 DEF Atomic!Overlap
    <3> QED BY <3>1 DEF Atomic!BreakerNext
  <2>2. CASE serial'
    <3>1. ASSUME NEW c \in Caller, Call(c) \/ Reset(c) \/ CallStep(c)
          PROVE  Atomic!BreakerNext \/ UNCHANGED Atomic!breakerVars
      BY <2>2, <3>1, SerialStep, EntersRefine, EndsRefine, StoresRefine DEF CallStep
    <3>2. ASSUME (\E r \in Retrier : RetryStep(r)) \/ Tick \/ UNCHANGED vars
          PROVE  Atomic!BreakerNext \/ UNCHANGED Atomic!breakerVars
      <4>1. serial
        BY <2>2, <3>2 DEF RetryStep, StartRetrying, ReturnTrue, BackOff, TryAgain, GiveUp, Leave,
           Tick, vars, history
      <4> QED BY <2>2, <3>2, <4>1, OthersRefine
    <3> QED BY <3>1, <3>2 DEF Next
  <2> QED BY <2>1, <2>2
<1> QED BY <1>1, <1>2, BreakerInvariant, PTL DEF Spec, ImplementsBreaker, Atomic!BreakerSpec

-----------------------------------------------------------------------------
(* The invariant of the retry loop. *)

Limit(r) == Policy[policy[r]].max_attempts

Made(r) == tries[r]["true"] + tries[r]["false"] + tries[r]["threw"]

RetryTyped ==
  /\ attempt \in [Retrier -> Nat]
  /\ policy \in [Retrier -> PolicyName]
  /\ delay_ms \in [Retrier -> Nat]
  /\ actual_delay \in [Retrier -> Nat]
  /\ error_msg \in [Retrier -> {"", "what", "exhausted"}]
  /\ tries \in [Retrier -> [Outcome -> Nat]]

AfterAttempt == {"tried", "sleep"}

\* What a retrier knows of its call: the attempts made are those it counts,
\* none but the last said true, and the delay has not shrunk.
Counts(r) ==
  /\ pc[r] \in AfterAttempt => attempt[r] > 0
  /\ attempt[r] > 0 =>
       /\ attempt[r] <= Limit(r)
       /\ pc[r] = "sleep" => attempt[r] < Limit(r)
       /\ Made(r) = (IF pc[r] \in AfterAttempt THEN attempt[r] ELSE attempt[r] - 1)
       /\ tries[r]["true"] <= (IF pc[r] = "tried" THEN 1 ELSE 0)
       /\ delay_ms[r] >= Policy[policy[r]].initial_delay_ms

RetryInv ==
  /\ pc \in [Caller -> Place]
  /\ RetryTyped
  /\ \A r \in Retrier : Counts(r)

LEMMA PolicyFacts ==
  ASSUME NEW name \in PolicyName
  PROVE  LET p == Policy[name]
         IN  /\ p.max_attempts \in Nat \ {0}
             /\ p.initial_delay_ms \in Nat /\ p.max_delay_ms \in Nat
             /\ p.initial_delay_ms <= p.max_delay_ms
             /\ p.halves \in {3, 4}
<1>1. CASE name = "aggressive"
  BY <1>1 DEF Policy
<1>2. CASE name = "moderate"
  BY <1>2 DEF Policy
<1>3. CASE name = "conservative"
  BY <1>3 DEF Policy
<1> QED BY <1>1, <1>2, <1>3

\* A wait is at least the first delay and at most the limit, and the next
\* delay is no shorter.
LEMMA WaitsWithin ==
  ASSUME NEW name \in PolicyName, NEW delay \in Nat,
         delay >= Policy[name].initial_delay_ms
  PROVE  /\ Waits(name, delay) \subseteq
              Policy[name].initial_delay_ms .. Policy[name].max_delay_ms
         /\ NextDelay(name, delay) \in Nat
         /\ NextDelay(name, delay) >= Policy[name].initial_delay_ms
<1> DEFINE p == Policy[name]
<1>1. /\ p.initial_delay_ms \in Nat /\ p.max_delay_ms \in Nat
      /\ p.initial_delay_ms <= p.max_delay_ms /\ p.halves \in {3, 4}
  BY PolicyFacts
<1>2. ASSUME NEW j \in JitterPercent
      PROVE  /\ (delay * (100 + j)) \div 100 \in Nat
             /\ (delay * (100 + j)) \div 100 >= delay
  BY <1>2 DEF JitterPercent
<1>3. ASSUME NEW wait \in Waits(name, delay)
      PROVE  wait \in p.initial_delay_ms .. p.max_delay_ms
  <2>1. PICK d \in Nat : d >= delay /\ wait = IF d > p.max_delay_ms THEN p.max_delay_ms ELSE d
    BY <1>2, <1>3 DEF Waits
  <2> QED BY <2>1, <1>1
<1>4. (delay * p.halves) \div 2 \in Nat /\ (delay * p.halves) \div 2 >= delay
  BY <1>1
<1> QED BY <1>1, <1>3, <1>4 DEF NextDelay

-----------------------------------------------------------------------------

LEMMA InitRetry == Init => RetryInv
<1> SUFFICES ASSUME Init PROVE RetryInv
  OBVIOUS
<1>1. pc \in [Caller -> Place] /\ \A c \in Caller : pc[c] = "idle"
  BY DEF Init, Place, AwayPC, Outside
<1>2. RetryTyped /\ \A r \in Retrier : attempt[r] = 0
  BY DEF Init, RetryTyped, NoTries, Outcome
<1> QED BY <1>1, <1>2 DEF RetryInv, Counts, AfterAttempt

\* Inside of an attempt the threads only go from place to place.
LEMMA InsideKeepsRetry ==
  ASSUME RetryInv, NEW c \in Caller, NEW place \in Place \ AfterAttempt,
         pc[c] \notin AfterAttempt, Goto(c, place), UNCHANGED retry
  PROVE  RetryInv'
<1>1. pc' \in [Caller -> Place] /\ RetryTyped'
  BY DEF RetryInv, RetryTyped, Goto, retry
<1>2. ASSUME NEW r \in Retrier PROVE Counts(r)'
  <2>1. pc'[r] = pc[r] \/ (pc[r] \notin AfterAttempt /\ pc'[r] \notin AfterAttempt)
    BY DEF Goto, RetryInv
  <2>2. Counts(r)
    BY DEF RetryInv
  <2> QED BY <2>1, <2>2 DEF Counts, Limit, Made, retry, AfterAttempt
<1> QED BY <1>1, <1>2 DEF RetryInv

\* The end of an attempt is counted.
LEMMA TriedKeepsRetry ==
  ASSUME RetryInv, NEW c \in Caller, NEW outcome \in Outcome,
         pc[c] \notin AfterAttempt, Tried(c, outcome)
  PROVE  RetryInv'
<1>1. CASE c \in Retrier /\ attempt[c] > 0
  <2>1. /\ pc' = [pc EXCEPT ![c] = "tried"]
        /\ tries' = [tries EXCEPT ![c][outcome] = @ + 1]
        /\ UNCHANGED <<attempt, policy, delay_ms, actual_delay>>
        /\ error_msg' \in {error_msg, [error_msg EXCEPT ![c] = "what"]}
    BY <1>1 DEF Tried, Goto
  <2>2. pc' \in [Caller -> Place] /\ RetryTyped'
    <3>1. pc' \in [Caller -> Place]
      BY <2>1 DEF RetryInv, Place, AwayPC, Outside
    <3>2. tries' = [tries EXCEPT ![c] = [tries[c] EXCEPT ![outcome] = @ + 1]]
      BY <2>1
    <3>3. [tries[c] EXCEPT ![outcome] = @ + 1] \in [Outcome -> Nat]
      <4>1. tries[c] \in [Outcome -> Nat]
        BY <1>1 DEF RetryInv, RetryTyped
      <4> QED BY <4>1
    <3>4. tries' \in [Retrier -> [Outcome -> Nat]]
      BY <1>1, <3>2, <3>3 DEF RetryInv, RetryTyped
    <3>5. error_msg' \in [Retrier -> {"", "what", "exhausted"}]
      BY <2>1 DEF RetryInv, RetryTyped
    <3> QED BY <2>1, <3>1, <3>4, <3>5 DEF RetryInv, RetryTyped
  <2>3. ASSUME NEW r \in Retrier PROVE Counts(r)'
    <3>1. Counts(r) /\ UNCHANGED <<attempt[r], delay_ms[r], policy[r], Limit(r)>>
      BY <2>1 DEF RetryInv, Limit
    <3>2. CASE r = c
      <4>1. /\ tries[c] \in [Outcome -> Nat] /\ attempt[c] \in Nat
            /\ tries'[c] = [tries[c] EXCEPT ![outcome] = @ + 1]
            /\ pc'[c] = "tried"
        BY <1>1, <2>1 DEF RetryInv, RetryTyped
      <4>2. Made(c)' = Made(c) + 1 /\ tries'[c]["true"] <= tries[c]["true"] + 1
        BY <4>1 DEF Made, Outcome
      <4>3. tries[c]["true"] \in Nat /\ tries'[c]["true"] \in Nat /\ Made(c) \in Nat
        BY <4>1 DEF Made, Outcome
      <4>4. /\ Made(c) = attempt[c] - 1 /\ tries[c]["true"] <= 0
            /\ attempt[c] <= Limit(c)
            /\ delay_ms[c] >= Policy[policy[c]].initial_delay_ms
        BY <1>1, <3>1, <3>2 DEF Counts, AfterAttempt
      <4>5. Made(c)' = attempt[c] /\ tries'[c]["true"] <= 1
        BY <4>1, <4>2, <4>3, <4>4
      <4> QED BY <1>1, <3>1, <3>2, <4>1, <4>4, <4>5 DEF Counts, AfterAttempt
    <3>3. CASE r # c
      <4>1. pc'[r] = pc[r] /\ tries'[r] = tries[r]
        BY <2>1, <3>3 DEF RetryInv, RetryTyped
      <4> QED BY <3>1, <4>1 DEF Counts, Made, AfterAttempt
    <3> QED BY <3>2, <3>3
  <2> QED BY <2>2, <2>3 DEF RetryInv
<1>2. CASE ~(c \in Retrier /\ attempt[c] > 0)
  <2>1. Goto(c, "idle") /\ UNCHANGED retry /\ "idle" \in Place \ AfterAttempt
    BY <1>2 DEF Tried, Place, AwayPC, Outside, AfterAttempt
  <2> QED BY <2>1, InsideKeepsRetry
<1> QED BY <1>1, <1>2

\* A foreign exception ends the whole call.
LEMMA EscapeKeepsRetry ==
  ASSUME RetryInv, NEW c \in Caller, Escape(c)
  PROVE  RetryInv'
<1>1. pc' \in [Caller -> Place] /\ RetryTyped'
  BY DEF RetryInv, RetryTyped, Escape, Goto, Place, AwayPC, Outside
<1>2. ASSUME NEW r \in Retrier PROVE Counts(r)'
  <2>1. Counts(r) /\ UNCHANGED <<policy[r], tries[r]>>
    BY DEF RetryInv, Escape
  <2>2. CASE r = c
    BY <2>2 DEF Escape, Goto, Counts, RetryInv, AfterAttempt
  <2>3. CASE r # c
    <3>1. UNCHANGED <<pc[r], attempt[r], delay_ms[r]>>
      BY <2>3 DEF Escape, Goto, RetryInv, RetryTyped
    <3> QED BY <2>1, <3>1 DEF Counts, Made, Limit, AfterAttempt
  <2> QED BY <2>2, <2>3
<1> QED BY <1>1, <1>2 DEF RetryInv

\* Every other step of a call is one of these.
LEMMA CallKeepsRetry ==
  ASSUME BreakerInv, RetryInv, NEW c \in Caller, Call(c) \/ Reset(c) \/ CallStep(c)
  PROVE  RetryInv' /\ pc[c] \notin AfterAttempt /\ (\A d \in Caller \ {c} : pc'[d] = pc[d])
<1> USE DEF AfterAttempt
<1>1. pc[c] \notin AfterAttempt
  BY DEF Call, MayCall, Reset, CallStep, Admit, Refuse, HalfOpen, ZeroSuccesses,
     Succeed, LoadSuccesses, StoreSuccesses, Close, ZeroFailures, Throw, LoadFailures,
     StoreFailures, Open, Stamp, Escape, ResetFailures, ResetSuccesses
<1>2. \/ Escape(c)
      \/ \E outcome \in Outcome : Tried(c, outcome)
      \/ UNCHANGED retry /\ \E place \in Place \ AfterAttempt : Goto(c, place)
  <2>1. CASE Call(c) \/ Reset(c) \/ Admit(c) \/ HalfOpen(c) \/ ZeroSuccesses(c)
             \/ LoadSuccesses(c) \/ LoadFailures(c) \/ Close(c) \/ Open(c) \/ ResetFailures(c)
             \/ ResetSuccesses(c)
    BY <2>1 DEF Call, Reset, Admit, HalfOpen, ZeroSuccesses, LoadSuccesses, LoadFailures,
       Close, Open, ResetFailures, ResetSuccesses, Place, AwayPC, Outside
  <2>2. CASE Refuse(c) \/ ZeroFailures(c) \/ Stamp(c)
    BY <2>2 DEF Refuse, ZeroFailures, Stamp, Returned, Rethrown, Outcome
  <2>3. CASE StoreSuccesses(c) \/ StoreFailures(c)
    BY <2>3 DEF StoreSuccesses, StoreFailures, Returned, Rethrown, Outcome, Place
  <2>4. CASE Succeed(c) \/ Throw(c)
    BY <2>4 DEF Succeed, Throw, Returned, Rethrown, Outcome, Place, BreakerInv, DataTyped
  <2> QED BY <2>1, <2>2, <2>3, <2>4 DEF CallStep
<1>3. \A d \in Caller \ {c} : pc'[d] = pc[d]
  <2>1. \A place : Goto(c, place) => \A d \in Caller \ {c} : pc'[d] = pc[d]
    BY DEF Goto, RetryInv
  <2> QED BY <1>2, <2>1 DEF Escape, Tried
<1> QED BY <1>1, <1>2, <1>3, EscapeKeepsRetry, TriedKeepsRetry, InsideKeepsRetry

LEMMA RetryStepKeepsRetry ==
  ASSUME RetryInv, NEW r \in Retrier, RetryStep(r)
  PROVE  RetryInv' /\ \A d \in Caller \ {r} : pc'[d] = pc[d]
<1> USE DEF AfterAttempt
<1>1. /\ r \in Caller /\ Counts(r) /\ policy[r] \in PolicyName
      /\ attempt[r] \in Nat /\ delay_ms[r] \in Nat /\ tries[r] \in [Outcome -> Nat]
      /\ Limit(r) \in Nat \ {0}
  BY PolicyFacts DEF RetryInv, RetryTyped, Limit
<1>2. SUFFICES /\ pc' \in [Caller -> Place] /\ RetryTyped' /\ Counts(r)'
               /\ \A d \in Caller \ {r} : pc'[d] = pc[d]
               /\ \A s \in Retrier \ {r} :
                    UNCHANGED <<attempt[s], policy[s], delay_ms[s], tries[s]>>
  BY <1>2 DEF RetryInv, Counts, Limit, Made
<1>3. CASE StartRetrying(r)
  <2>1. PICK name \in PolicyName :
             /\ policy' = [policy EXCEPT ![r] = name]
             /\ delay_ms' = [delay_ms EXCEPT ![r] = Policy[name].initial_delay_ms]
    BY <1>3 DEF StartRetrying
  <2>2. /\ pc[r] = "idle" /\ pc' = pc /\ actual_delay' = actual_delay
        /\ attempt' = [attempt EXCEPT ![r] = 1]
        /\ error_msg' \in {error_msg, [error_msg EXCEPT ![r] = ""]}
        /\ tries' = [tries EXCEPT ![r] = NoTries]
    BY <1>3 DEF StartRetrying
  <2>3. Policy[name].initial_delay_ms \in Nat /\ Policy[name].max_attempts \in Nat \ {0}
    BY PolicyFacts
  <2>4. NoTries \in [Outcome -> Nat]
    BY DEF NoTries
  <2>5. pc' \in [Caller -> Place] /\ RetryTyped'
    BY <2>1, <2>2, <2>3, <2>4 DEF RetryInv, RetryTyped
  <2>6. /\ policy'[r] = name /\ delay_ms'[r] = Policy[name].initial_delay_ms
        /\ attempt'[r] = 1 /\ tries'[r] = NoTries /\ pc'[r] = "idle"
    BY <2>1, <2>2 DEF RetryInv, RetryTyped
  <2>7. Made(r)' = 0 /\ tries'[r]["true"] = 0
    BY <2>6 DEF Made, NoTries, Outcome
  <2>8. Counts(r)'
    BY <2>3, <2>6, <2>7 DEF Counts, Limit
  <2> QED BY <2>1, <2>2, <2>5, <2>8 DEF RetryInv, RetryTyped
<1>4. CASE ReturnTrue(r) \/ GiveUp(r)
  <2>1. /\ pc' = [pc EXCEPT ![r] = "idle"] /\ attempt' = [attempt EXCEPT ![r] = 0]
        /\ delay_ms' = [delay_ms EXCEPT ![r] = 0]
        /\ UNCHANGED <<policy, actual_delay, tries>>
        /\ error_msg' \in {error_msg, [error_msg EXCEPT ![r] = IF @ = "" THEN "exhausted" ELSE @]}
    BY <1>4 DEF ReturnTrue, GiveUp, Leave, Goto
  <2>2. pc' \in [Caller -> Place] /\ RetryTyped'
    BY <2>1 DEF RetryInv, RetryTyped, Place, AwayPC, Outside
  <2>3. Counts(r)'
    <3>1. pc'[r] = "idle" /\ attempt'[r] = 0
      BY <1>1, <2>1 DEF RetryInv, RetryTyped
    <3> QED BY <3>1 DEF Counts
  <2> QED BY <2>1, <2>2, <2>3 DEF RetryInv, RetryTyped
<1>5. CASE BackOff(r)
  <2>1. PICK wait \in Waits(policy[r], delay_ms[r]) :
             actual_delay' = [actual_delay EXCEPT ![r] = wait]
    BY <1>5 DEF BackOff
  <2>2. /\ pc[r] = "tried" /\ ~LastSaidTrue(r) /\ attempt[r] < Limit(r)
        /\ pc' = [pc EXCEPT ![r] = "sleep"]
        /\ delay_ms' = [delay_ms EXCEPT ![r] = NextDelay(policy[r], @)]
        /\ UNCHANGED <<attempt, policy, error_msg, tries>>
    BY <1>5 DEF BackOff, Goto, Limit
  <2>3. /\ attempt[r] > 0 /\ Made(r) = attempt[r] /\ tries[r]["true"] = 0
        /\ delay_ms[r] >= Policy[policy[r]].initial_delay_ms
    BY <1>1, <2>2 DEF Counts, LastSaidTrue, Outcome
  <2>4. /\ wait \in Nat /\ NextDelay(policy[r], delay_ms[r]) \in Nat
        /\ NextDelay(policy[r], delay_ms[r]) >= Policy[policy[r]].initial_delay_ms
    <3>1. /\ wait \in Policy[policy[r]].initial_delay_ms .. Policy[policy[r]].max_delay_ms
          /\ NextDelay(policy[r], delay_ms[r]) \in Nat
          /\ NextDelay(policy[r], delay_ms[r]) >= Policy[policy[r]].initial_delay_ms
      BY <1>1, <2>3, WaitsWithin
    <3>2. /\ Policy[policy[r]].initial_delay_ms \in Nat
          /\ Policy[policy[r]].max_delay_ms \in Nat
      BY <1>1, PolicyFacts
    <3> QED BY <3>1, <3>2
  <2>5. pc' \in [Caller -> Place] /\ RetryTyped'
    BY <2>1, <2>2, <2>4 DEF RetryInv, RetryTyped, Place, AwayPC, Outside
  <2>6. pc'[r] = "sleep" /\ delay_ms'[r] = NextDelay(policy[r], delay_ms[r])
    BY <1>1, <2>2 DEF RetryInv, RetryTyped
  <2>7. Counts(r)'
    BY <1>1, <2>2, <2>3, <2>4, <2>6 DEF Counts, Limit, Made
  <2> QED BY <2>2, <2>5, <2>7 DEF RetryInv, RetryTyped
<1>6. CASE TryAgain(r)
  <2>1. /\ pc[r] = "sleep" /\ pc' = [pc EXCEPT ![r] = "idle"]
        /\ attempt' = [attempt EXCEPT ![r] = @ + 1]
        /\ actual_delay' = [actual_delay EXCEPT ![r] = 0]
        /\ UNCHANGED <<policy, delay_ms, error_msg, tries>>
    BY <1>6 DEF TryAgain, Goto
  <2>2. pc' \in [Caller -> Place] /\ RetryTyped'
    <3>1. pc' \in [Caller -> Place]
      BY <2>1 DEF RetryInv, Place, AwayPC, Outside
    <3>2. attempt' \in [Retrier -> Nat]
      <4>1. attempt \in [Retrier -> Nat] /\ attempt' = [attempt EXCEPT ![r] = attempt[r] + 1]
        BY <2>1 DEF RetryInv, RetryTyped
      <4> QED BY <1>1, <4>1
    <3>3. actual_delay' \in [Retrier -> Nat]
      <4>1. actual_delay \in [Retrier -> Nat] /\ actual_delay' = [actual_delay EXCEPT ![r] = 0]
        BY <2>1 DEF RetryInv, RetryTyped
      <4> QED BY <4>1
    <3> QED BY <2>1, <3>1, <3>2, <3>3 DEF RetryInv, RetryTyped
  <2>3. pc'[r] = "idle" /\ attempt'[r] = attempt[r] + 1
    BY <1>1, <2>1 DEF RetryInv, RetryTyped
  <2>4. Counts(r)'
    BY <1>1, <2>1, <2>3 DEF Counts, Limit, Made
  <2> QED BY <2>1, <2>2, <2>4 DEF RetryInv, RetryTyped
<1> QED BY <1>3, <1>4, <1>5, <1>6 DEF RetryStep

LEMMA NextRetry == BreakerInv /\ RetryInv /\ [Next]_vars => RetryInv'
<1> SUFFICES ASSUME BreakerInv, RetryInv, [Next]_vars PROVE RetryInv'
  OBVIOUS
<1>1. ASSUME UNCHANGED <<pc, retry>> PROVE RetryInv'
  BY <1>1 DEF RetryInv, RetryTyped, Counts, Limit, Made, retry
<1>2. CASE Tick \/ UNCHANGED vars
  BY <1>1, <1>2 DEF Tick, vars
<1> QED BY <1>2, CallKeepsRetry, RetryStepKeepsRetry DEF Next

\* The invariant of the retry loop holds, for any policies in use.
THEOREM RetryInvariant == Spec => []RetryInv
BY InitRetry, NextRetry, BreakerInvariant, PTL DEF Spec

\* The loop returns only with true, or with every attempt made and an error
\* told, and waits within the policy's limits between attempts, for any
\* threads that retry on a shared breaker.
THEOREM RetriesAreHonest == Spec => RetryHonest
<1> DEFINE Honest(r) ==
             LET p == Policy[policy[r]]
                 made == tries[r]["true"] + tries[r]["false"] + tries[r]["threw"]
             IN  pc[r] = "tried" /\ pc'[r] # "tried" =>
                   IF pc'[r] = "sleep"
                     THEN /\ tries[r]["true"] = 0
                          /\ made < p.max_attempts
                          /\ actual_delay'[r] \in p.initial_delay_ms .. p.max_delay_ms
                     ELSE \/ tries[r]["true"] = 1
                          \/ made = p.max_attempts /\ error_msg'[r] # ""
<1>1. BreakerInv /\ RetryInv /\ [Next]_vars => \A r \in Retrier : Honest(r)
  <2> SUFFICES ASSUME BreakerInv, RetryInv, [Next]_vars, NEW r \in Retrier,
                      pc[r] = "tried", pc'[r] # "tried"
               PROVE  Honest(r)
    OBVIOUS
  <2>1. r \in Caller
    OBVIOUS
  <2>2. RetryStep(r)
    BY <2>1, CallKeepsRetry, RetryStepKeepsRetry DEF Next, Tick, vars, AfterAttempt
  <2>3. /\ attempt[r] \in Nat /\ attempt[r] > 0 /\ attempt[r] <= Limit(r)
        /\ Made(r) = attempt[r] /\ tries[r]["true"] <= 1
        /\ tries[r]["true"] \in Nat /\ Limit(r) \in Nat
        /\ delay_ms[r] \in Nat /\ delay_ms[r] >= Policy[policy[r]].initial_delay_ms
    BY PolicyFacts DEF RetryInv, RetryTyped, Counts, AfterAttempt, Limit, Outcome
  <2>4. CASE ReturnTrue(r)
    <3>1. tries[r]["true"] = 1 /\ pc'[r] = "idle"
      BY <2>1, <2>3, <2>4 DEF ReturnTrue, LastSaidTrue, Leave, Goto, RetryInv
    <3> QED BY <3>1
  <2>5. CASE GiveUp(r)
    <3>1. attempt[r] >= Limit(r)
      BY <2>5 DEF GiveUp, Limit
    <3>2. pc'[r] = "idle" /\ error_msg'[r] # ""
      BY <2>1, <2>5 DEF GiveUp, Leave, Goto, RetryInv, RetryTyped
    <3>3. Made(r) = Limit(r)
      BY <2>3, <3>1
    <3> QED BY <3>2, <3>3 DEF Made, Limit
  <2>6. CASE BackOff(r)
    <3>1. PICK wait \in Waits(policy[r], delay_ms[r]) :
               actual_delay' = [actual_delay EXCEPT ![r] = wait]
      BY <2>6 DEF BackOff
    <3>2. wait \in Policy[policy[r]].initial_delay_ms .. Policy[policy[r]].max_delay_ms
      BY <2>3, <3>1, WaitsWithin DEF RetryInv, RetryTyped
    <3>3. actual_delay'[r] = wait
      BY <3>1 DEF RetryInv, RetryTyped
    <3>4. tries[r]["true"] = 0 /\ Made(r) < Limit(r) /\ pc'[r] = "sleep"
      BY <2>1, <2>3, <2>6 DEF BackOff, LastSaidTrue, Goto, Limit, RetryInv
    <3> QED BY <3>2, <3>3, <3>4 DEF Made, Limit
  <2>7. ~StartRetrying(r) /\ ~TryAgain(r)
    BY DEF StartRetrying, TryAgain
  <2> QED BY <2>2, <2>4, <2>5, <2>6, <2>7 DEF RetryStep
<1> QED BY <1>1, BreakerInvariant, RetryInvariant, PTL DEF Spec, RetryHonest

-----------------------------------------------------------------------------
(* The type of the state, bounds included. *)

\* What a late store brings back is a value that was loaded, or one more.
CountsBounded ==
  /\ failure_count_ <= failure_threshold_
  /\ success_count_ <= success_threshold_
  /\ streak <= failure_threshold_
  /\ \A c \in Caller :
       /\ reg[c] <= failure_threshold_ \/ reg[c] <= success_threshold_
       /\ pc[c] = "storeFailures" => reg[c] <= failure_threshold_
       /\ pc[c] = "storeSuccesses" => reg[c] <= success_threshold_

TriesBounded == \A r \in Retrier : \A o \in Outcome : tries[r][o] <= 5

\* A step that loads nothing into reg and goes to neither store.
LEMMA SteadyReg ==
  ASSUME BreakerInv, CountsBounded, NEW c \in Caller, Moved(c), reg' = reg,
         pc'[c] \notin {"storeFailures", "storeSuccesses"},
         failure_count_' <= failure_threshold_,
         success_count_' <= success_threshold_, streak' <= failure_threshold_
  PROVE  CountsBounded'
BY DEF CountsBounded, Moved, BreakerInv

\* Whatever a step notes, the streak goes no further than the threshold.
LEMMA NoteBounded ==
  ASSUME CountsBounded, NEW c, NEW failures, NEW since, Note(c, failures, since),
         failures \in Nat, failures <= failure_threshold_
  PROVE  streak' <= failure_threshold_
BY DEF Note

LEMMA CallBounded ==
  ASSUME BreakerInv, CountsBounded, NEW c \in Caller, Call(c) \/ Reset(c) \/ CallStep(c)
  PROVE  CountsBounded'
<1>1. /\ failure_count_ \in Nat /\ success_count_ \in Nat /\ streak \in Nat
      /\ reg \in [Caller -> Nat] /\ pc \in [Caller -> Place]
      /\ state_ \in {"Closed", "Open", "HalfOpen"}
      /\ failure_count_ <= failure_threshold_ /\ success_count_ <= success_threshold_
      /\ streak <= failure_threshold_
  BY DEF BreakerInv, DataTyped, CountsBounded
<1>2. \A place \in Place : Goto(c, place) => Moved(c) /\ pc'[c] = place
  BY GotoMoves
<1>3. Returned(c) \/ Rethrown(c) =>
        Moved(c) /\ pc'[c] \notin {"storeFailures", "storeSuccesses"}
  BY EndsMove
<1>4. CASE Call(c) \/ Reset(c)
  <2>1. streak' <= failure_threshold_
    BY <1>1, <1>4, NoteBounded DEF Call, Reset
  <2>2. Moved(c) /\ pc'[c] \notin {"storeFailures", "storeSuccesses"}
    BY <1>2, <1>4 DEF Call, Reset, Place, AwayPC
  <2>3. UNCHANGED <<failure_count_, success_count_, reg>>
    BY <1>4 DEF Call, Reset, breaker
  <2> QED BY <1>1, <2>1, <2>2, <2>3, SteadyReg
<1>5. CASE Succeed(c)
  <2>1. streak' <= failure_threshold_
    BY <1>1, <1>5, NoteBounded DEF Succeed
  <2>2. Moved(c) /\ pc'[c] \notin {"storeFailures", "storeSuccesses"}
    <3>1. Goto(c, "loadSuccesses") \/ Goto(c, "zeroFailures") \/ Returned(c)
      BY <1>1, <1>5 DEF Succeed
    <3>2. "loadSuccesses" \in Place /\ "zeroFailures" \in Place
      BY DEF Place
    <3> QED BY <1>2, <1>3, <3>1, <3>2
  <2>3. UNCHANGED <<failure_count_, success_count_, reg>>
    BY <1>5 DEF Succeed, breaker
  <2> QED BY <1>1, <2>1, <2>2, <2>3, SteadyReg
<1>6. CASE Throw(c)
  <2>1. /\ Increment(streak, failure_threshold_) \in Nat
        /\ Increment(streak, failure_threshold_) <= failure_threshold_
    BY <1>1 DEF Increment
  <2>2. streak' <= failure_threshold_
    BY <1>6, <2>1, NoteBounded DEF Throw
  <2>3. Moved(c) /\ pc'[c] \notin {"storeFailures", "storeSuccesses"}
    <3>1. Goto(c, "open") \/ Goto(c, "loadFailures") \/ Rethrown(c)
      BY <1>1, <1>6 DEF Throw
    <3>2. "open" \in Place /\ "loadFailures" \in Place
      BY DEF Place
    <3> QED BY <1>2, <1>3, <3>1, <3>2
  <2>4. UNCHANGED <<failure_count_, success_count_, reg>>
    BY <1>6 DEF Throw, breaker
  <2> QED BY <1>1, <2>2, <2>3, <2>4, SteadyReg
<1>7. CASE LoadSuccesses(c)
  <2>1. /\ reg' = [reg EXCEPT ![c] = success_count_] /\ Moved(c)
        /\ pc'[c] = "storeSuccesses"
        /\ UNCHANGED <<failure_count_, success_count_, streak>>
    BY <1>2, <1>7 DEF LoadSuccesses, Place, breaker, history
  <2> QED BY <1>1, <2>1 DEF CountsBounded, Moved
<1>8. CASE LoadFailures(c)
  <2>1. /\ reg' = [reg EXCEPT ![c] = failure_count_] /\ Moved(c)
        /\ pc'[c] = "storeFailures"
        /\ UNCHANGED <<failure_count_, success_count_, streak>>
    BY <1>2, <1>8 DEF LoadFailures, Place, breaker, history
  <2> QED BY <1>1, <2>1 DEF CountsBounded, Moved
<1>9. CASE StoreSuccesses(c)
  <2>1. /\ success_count_' = Increment(reg[c], success_threshold_)
        /\ reg' = [reg EXCEPT ![c] = 0] /\ pc[c] = "storeSuccesses"
        /\ UNCHANGED <<failure_count_, streak>>
    BY <1>9 DEF StoreSuccesses, history
  <2>2. Moved(c) /\ pc'[c] \notin {"storeFailures", "storeSuccesses"}
    BY <1>2, <1>3, <1>9 DEF StoreSuccesses, Place
  <2>3. success_count_' <= success_threshold_
    BY <1>1, <2>1 DEF Increment, CountsBounded
  <2> QED BY <1>1, <2>1, <2>2, <2>3 DEF CountsBounded, Moved
<1>10. CASE StoreFailures(c)
  <2>1. /\ failure_count_' = Increment(reg[c], failure_threshold_)
        /\ reg' = [reg EXCEPT ![c] = 0] /\ pc[c] = "storeFailures"
        /\ UNCHANGED <<success_count_, streak>>
    BY <1>10 DEF StoreFailures, history
  <2>2. Moved(c) /\ pc'[c] \notin {"storeFailures", "storeSuccesses"}
    BY <1>2, <1>3, <1>10 DEF StoreFailures, Place
  <2>3. failure_count_' <= failure_threshold_
    BY <1>1, <2>1 DEF Increment, CountsBounded
  <2> QED BY <1>1, <2>1, <2>2, <2>3 DEF CountsBounded, Moved
<1>11. CASE Admit(c) \/ HalfOpen(c) \/ ZeroSuccesses(c) \/ Close(c) \/ Open(c)
             \/ ResetFailures(c) \/ ResetSuccesses(c) \/ Escape(c)
  <2>1. Moved(c) /\ pc'[c] \notin {"storeFailures", "storeSuccesses"}
    BY <1>2, <1>11 DEF Admit, HalfOpen, ZeroSuccesses, Close, Open, ResetFailures, ResetSuccesses,
       Escape, Place, AwayPC, Outside
  <2>2. /\ failure_count_' \in {failure_count_, 0} /\ success_count_' \in {success_count_, 0}
        /\ UNCHANGED <<reg, streak>>
    BY <1>11 DEF Admit, HalfOpen, ZeroSuccesses, Close, Open, ResetFailures, ResetSuccesses,
       Escape, breaker, history
  <2> QED BY <1>1, <2>1, <2>2, SteadyReg
<1>12. CASE Refuse(c) \/ ZeroFailures(c) \/ Stamp(c)
  <2>1. Moved(c) /\ pc'[c] \notin {"storeFailures", "storeSuccesses"}
    BY <1>3, <1>12 DEF Refuse, ZeroFailures, Stamp
  <2>2. /\ failure_count_' \in {failure_count_, 0} /\ success_count_' = success_count_
        /\ UNCHANGED <<reg, streak>>
    BY <1>12 DEF Refuse, ZeroFailures, Stamp, breaker, history
  <2> QED BY <1>1, <2>1, <2>2, SteadyReg
<1> QED BY <1>4, <1>5, <1>6, <1>7, <1>8, <1>9, <1>10, <1>11, <1>12 DEF CallStep

\* A call of retryable that is over is not counted any more.
LEMMA TriesStay ==
  ASSUME BreakerInv, RetryInv, [Next]_vars, NEW r \in Retrier, attempt'[r] = 0
  PROVE  tries'[r] = tries[r]
<1>1. attempt \in [Retrier -> Nat] /\ tries \in [Retrier -> [Outcome -> Nat]]
  BY DEF RetryInv, RetryTyped
<1>2. ASSUME NEW c \in Caller, NEW outcome \in Outcome, Tried(c, outcome)
      PROVE  tries'[r] = tries[r]
  BY <1>1, <1>2 DEF Tried, retry
<1>3. ASSUME NEW c \in Caller, Call(c) \/ Reset(c) \/ CallStep(c)
      PROVE  tries'[r] = tries[r]
  <2>1. UNCHANGED tries \/ \E outcome \in Outcome : Tried(c, outcome)
    <3>1. CASE Call(c) \/ Reset(c) \/ Admit(c) \/ HalfOpen(c) \/ ZeroSuccesses(c)
               \/ LoadSuccesses(c) \/ LoadFailures(c) \/ Close(c) \/ Open(c) \/ ResetFailures(c)
               \/ ResetSuccesses(c) \/ Escape(c)
      BY <3>1 DEF Call, Reset, Admit, HalfOpen, ZeroSuccesses, LoadSuccesses, LoadFailures,
         Close, Open, ResetFailures, ResetSuccesses, Escape, retry
    <3>2. CASE Refuse(c) \/ ZeroFailures(c) \/ Stamp(c) \/ StoreSuccesses(c)
               \/ StoreFailures(c)
      BY <3>2 DEF Refuse, ZeroFailures, Stamp, StoreSuccesses, StoreFailures,
         Returned, Rethrown, Outcome, retry
    <3>3. CASE Succeed(c) \/ Throw(c)
      <4>1. UNCHANGED retry \/ Returned(c) \/ Rethrown(c)
        BY <3>3 DEF Succeed, Throw, BreakerInv, DataTyped
      <4> QED BY <4>1 DEF Returned, Rethrown, Outcome, retry
    <3> QED BY <1>3, <3>1, <3>2, <3>3 DEF CallStep
  <2> QED BY <1>2, <2>1
<1>4. ASSUME NEW s \in Retrier, RetryStep(s) PROVE tries'[r] = tries[r]
  <2>1. CASE StartRetrying(s)
    <3>1. /\ attempt' = [attempt EXCEPT ![s] = 1]
          /\ tries' = [tries EXCEPT ![s] = NoTries]
      BY <2>1 DEF StartRetrying
    <3>2. r # s
      BY <1>1, <3>1
    <3> QED BY <1>1, <3>1, <3>2
  <2>2. CASE ReturnTrue(s) \/ BackOff(s) \/ TryAgain(s) \/ GiveUp(s)
    BY <2>2 DEF ReturnTrue, BackOff, TryAgain, GiveUp, Leave
  <2> QED BY <1>4, <2>1, <2>2 DEF RetryStep
<1>5. CASE Tick \/ UNCHANGED vars
  BY <1>5 DEF Tick, vars, retry
<1> QED BY <1>3, <1>4, <1>5 DEF Next

LEMMA LimitsAreSmall ==
  ASSUME NEW name \in PolicyName
  PROVE  Policy[name].max_attempts \in Nat /\ Policy[name].max_attempts <= 5
<1>1. CASE name = "aggressive"
  BY <1>1 DEF Policy
<1>2. CASE name = "moderate"
  BY <1>2 DEF Policy
<1>3. CASE name = "conservative"
  BY <1>3 DEF Policy
<1> QED BY <1>1, <1>2, <1>3

LEMMA TriesKept ==
  BreakerInv /\ RetryInv /\ RetryInv' /\ TriesBounded /\ [Next]_vars => TriesBounded'
<1> SUFFICES ASSUME BreakerInv, RetryInv, RetryInv', TriesBounded, [Next]_vars,
                    NEW r \in Retrier, NEW o \in Outcome
             PROVE  tries'[r][o] <= 5
  BY DEF TriesBounded
<1>1. CASE attempt'[r] = 0
  BY <1>1, TriesStay DEF TriesBounded
<1>2. CASE attempt'[r] # 0
  <2>1. /\ attempt'[r] \in Nat /\ policy'[r] \in PolicyName
        /\ \A p \in Outcome : tries'[r][p] \in Nat
    <3>1. /\ attempt' \in [Retrier -> Nat] /\ policy' \in [Retrier -> PolicyName]
          /\ tries' \in [Retrier -> [Outcome -> Nat]]
      BY DEF RetryInv, RetryTyped
    <3> QED BY <3>1
  <2>2. attempt'[r] <= Limit(r)' /\ Made(r)' <= attempt'[r]
    BY <1>2, <2>1 DEF RetryInv, Counts
  <2>3. Limit(r)' \in Nat /\ Limit(r)' <= 5
    BY <2>1, LimitsAreSmall DEF Limit
  <2>4. tries'[r][o] <= Made(r)' /\ Made(r)' \in Nat
    BY <2>1 DEF Made, Outcome
  <2> QED BY <2>1, <2>2, <2>3, <2>4
<1> QED BY <1>1, <1>2

TypeInv == BreakerInv /\ RetryInv /\ CountsBounded /\ TriesBounded

LEMMA NextTypeInv == TypeInv /\ [Next]_vars => TypeInv'
<1> SUFFICES ASSUME TypeInv, [Next]_vars PROVE TypeInv'
  OBVIOUS
<1>1. BreakerInv' /\ RetryInv' /\ TriesBounded'
  BY NextBreaker, NextRetry, TriesKept DEF TypeInv
<1>2. CountsBounded'
  <2>1. ASSUME NEW r \in Retrier, RetryStep(r) PROVE CountsBounded'
    <3>1. UNCHANGED <<failure_count_, success_count_, reg, streak>>
      BY <2>1 DEF RetryStep, StartRetrying, ReturnTrue, BackOff, TryAgain, GiveUp, Leave,
         breaker, history
    <3>2. \A c \in Caller : pc'[c] = pc[c] \/ pc'[c] \in Outside
      BY <2>1 DEF RetryStep, StartRetrying, ReturnTrue, BackOff, TryAgain, GiveUp, Leave,
         Goto, Outside, TypeInv, BreakerInv
    <3> QED BY <3>1, <3>2 DEF TypeInv, CountsBounded, Outside
  <2>2. CASE Tick \/ UNCHANGED vars
    BY <2>2 DEF Tick, vars, breaker, history, TypeInv, CountsBounded
  <2> QED BY <2>1, <2>2, CallBounded DEF Next, TypeInv
<1> QED BY <1>1, <1>2 DEF TypeInv

\* For any threads, thresholds, timeout and policies the breaker and the retry
\* loops stay well typed and within their bounds. Racing stores bring old
\* counts back; the counts from a threshold on are one value (Increment).
THEOREM ResilienceTypeCorrect == Spec => []TypeOK
<1>1. Init => TypeInv
  <2> SUFFICES ASSUME Init PROVE CountsBounded /\ TriesBounded
    BY InitBreaker, InitRetry DEF TypeInv
  <2>1. CountsBounded
    <3>1. /\ failure_count_ = 0 /\ success_count_ = 0 /\ streak = 0
          /\ \A c \in Caller : reg[c] = 0
      BY DEF Init
    <3> QED BY <3>1 DEF CountsBounded
  <2>2. TriesBounded
    <3>1. \A r \in Retrier, o \in Outcome : tries[r][o] = 0
      BY DEF Init, NoTries
    <3> QED BY <3>1 DEF TriesBounded
  <2> QED BY <2>1, <2>2
<1>2. TypeInv => TypeOK
  <2> SUFFICES ASSUME TypeInv PROVE TypeOK
    OBVIOUS
  <2>1. /\ failure_count_ \in 0 .. failure_threshold_
        /\ success_count_ \in 0 .. success_threshold_
        /\ streak \in 0 .. failure_threshold_
    BY DEF TypeInv, CountsBounded, BreakerInv, DataTyped
  <2>2. reg \in [Caller -> (0 .. failure_threshold_) \cup (0 .. success_threshold_)]
    <3>1. \A c \in Caller : reg[c] \in (0 .. failure_threshold_) \cup (0 .. success_threshold_)
      BY DEF TypeInv, CountsBounded, BreakerInv, DataTyped
    <3> QED BY <3>1 DEF TypeInv, BreakerInv, DataTyped
  <2>3. attempt \in [Retrier -> 0 .. 5]
    <3>1. ASSUME NEW r \in Retrier PROVE attempt[r] \in 0 .. 5
      <4>1. attempt[r] \in Nat /\ policy[r] \in PolicyName
        BY DEF TypeInv, RetryInv, RetryTyped
      <4>2. attempt[r] > 0 => attempt[r] <= Limit(r)
        BY DEF TypeInv, RetryInv, Counts
      <4>3. Limit(r) \in Nat /\ Limit(r) <= 5
        BY <4>1, LimitsAreSmall DEF Limit
      <4> QED BY <4>1, <4>2, <4>3
    <3> QED BY <3>1 DEF TypeInv, RetryInv, RetryTyped
  <2>4. tries \in [Retrier -> [Outcome -> 0 .. 5]]
    <3>1. ASSUME NEW r \in Retrier PROVE tries[r] \in [Outcome -> 0 .. 5]
      <4>1. tries[r] \in [Outcome -> Nat] /\ \A o \in Outcome : tries[r][o] <= 5
        BY DEF TypeInv, RetryInv, RetryTyped, TriesBounded
      <4> QED BY <4>1
    <3> QED BY <3>1 DEF TypeInv, RetryInv, RetryTyped
  <2>5. pc \in [Caller -> AwayPC \cup
               {"clock", "halfOpen", "zeroSuccesses",
                "loadSuccesses", "storeSuccesses", "close", "zeroFailures",
                "loadFailures", "storeFailures", "open", "stamp",
                "resetFailures", "resetSuccesses"}]
    BY DEF TypeInv, BreakerInv, Place
  <2> QED BY <2>1, <2>2, <2>3, <2>4, <2>5
      DEF TypeInv, TypeOK, BreakerInv, DataTyped, RetryInv, RetryTyped
<1> QED BY <1>1, <1>2, NextTypeInv, PTL DEF Spec
=============================================================================
