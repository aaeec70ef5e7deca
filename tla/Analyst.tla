------------------------------- MODULE Analyst -------------------------------
(***************************************************************************)
(* core::Analyst: one expert of the council, as a value.                   *)
(*                                                                         *)
(* An analyst is only ever touched by one thread at a time: its own worker *)
(* thread while a round runs, the caller of the pool otherwise.  Each of   *)
(* its methods is therefore an operator from a record to a record, and the *)
(* modules that own analysts (AtomicPool, AnalystPool, Council) turn them  *)
(* into actions.                                                           *)
(*                                                                         *)
(* An answer's text is abstracted to its length, which is all the election *)
(* looks at (0 is the empty string an error leaves behind), and carries    *)
(* the number of the round that asked for it, which the code does not keep *)
(* and the properties need.                                                *)
(***************************************************************************)
EXTENDS Integers, Sequences

CONSTANTS
  Lengths   \* the lengths of the texts an LLM may answer with

\* An answer's length is a number of characters, and may be zero.
ASSUME LengthsAssumption == Lengths \subseteq Nat

ScoreAdopted == 2
ScoreChallengeWon == 1

Response == [len : Nat, at : Nat]

\* base is a history field: the analyst is one of the four static roles.
AnalystRecord ==
  [base : BOOLEAN, responses : Seq(Response), idle : Nat, score : Nat,
   pruned : BOOLEAN, complete : BOOLEAN]

NewAnalyst(base) ==
  [base |-> base, responses |-> <<>>, idle |-> 0, score |-> 0,
   pruned |-> FALSE, complete |-> FALSE]

is_active(a) == ~a.pruned /\ ~a.complete

-----------------------------------------------------------------------------
(* execute_round: the three ways a query ends. *)

push_response(a, len, now) ==
  [a EXCEPT !.responses = Append(@, [len |-> len, at |-> now])]

\* Mutant: an answer counts one silent round less instead of all of them.
ActivityDecays(a, had_response) ==
  [a EXCEPT !.idle = IF had_response THEN @ - 1 ELSE @ + 1]

record_round_activity(a, had_response) ==
  [a EXCEPT !.idle = IF had_response THEN 0 ELSE @ + 1]

\* Mutant: an empty answer is not kept.
AnsweredIfAny(a, len, now) ==
  IF len > 0 THEN record_round_activity(push_response(a, len, now), TRUE)
             ELSE record_round_activity(a, FALSE)

\* The query came back without an error.
Answered(a, len, now) ==
  record_round_activity(push_response(a, len, now), len > 0)

\* Mutant: an early return on errors keeps no response.
FailedUnrecorded(a, now) == a

\* The client reported an error or threw: the counters are not touched.
Failed(a, now) == push_response(a, 0, now)

-----------------------------------------------------------------------------
NoResponse == [len |-> 0, at |-> 0]

\* Rounds count from 0 and a sequence from 1.
get_response(a, round) ==
  IF round >= 0 /\ round < Len(a.responses)
    THEN a.responses[round + 1]
    ELSE NoResponse

record_proposal_adopted(a) ==
  [a EXCEPT !.score = @ + ScoreAdopted, !.idle = 0]

record_challenge_won(a) ==
  [a EXCEPT !.score = @ + ScoreChallengeWon, !.idle = 0]

mark_pruned(a) == [a EXCEPT !.pruned = TRUE]

mark_complete(a) == [a EXCEPT !.complete = TRUE]
=============================================================================
