----------------------------- MODULE AtomicPool -----------------------------
(***************************************************************************)
(* What core::AnalystPool promises its caller: the operations of the pool  *)
(* as seen by one thread, with a whole parallel round as a single step.    *)
(*                                                                         *)
(* AnalystPool.tla has the round as the code runs it, one thread for each  *)
(* active analyst and a success counter they all increment without a lock, *)
(* and is shown to implement this module.  Council.tla builds the debate   *)
(* on top of it.                                                           *)
(***************************************************************************)
EXTENDS Analyst, FiniteSets, SequencesExt

CONSTANTS
  MaxModels,   \* config::MAX_MODELS, the capacity of a pool
  BaseCount,   \* the number of static roles (4)
  NumModels,   \* bound on the number of models a pool is created with
  RoundBound,  \* bound on the rounds of a behaviour
  EditBound    \* bound on the owner's operations of a behaviour

ASSUME PoolAssumption ==
  /\ MaxModels \in Nat /\ BaseCount \in Nat /\ NumModels \in Nat
  /\ BaseCount <= MaxModels
  /\ RoundBound \in Nat /\ EditBound \in Nat

VARIABLES
  analysts,      \* AnalystPool::analysts_, as a sequence
  clock,         \* the number of rounds executed so far
  success_count, \* what the last execute_round returned
  edits          \* history: the owner's operations so far

atomicVars == <<analysts, clock, success_count, edits>>

Index == 1 .. Len(analysts)

\* The base roles that get a model; fewer models make fewer analysts.
BaseSize(models) == IF models < BaseCount THEN models ELSE BaseCount

NewPool(models) == [i \in 1 .. BaseSize(models) |-> NewAnalyst(TRUE)]

AtomicInit ==
  /\ \E models \in 0 .. NumModels : analysts = NewPool(models)
  /\ clock = 0
  /\ success_count = 0
  /\ edits = 0

-----------------------------------------------------------------------------
(* The operations the owner of the pool calls between rounds. *)

add_analyst ==
  /\ Len(analysts) < MaxModels
  /\ analysts' = Append(analysts, NewAnalyst(FALSE))

\* Erasing an element moves every later analyst one index down.
remove_analyst(i) ==
  analysts' = RemoveAt(analysts, i)

ProposalAdopted(i) ==
  analysts' = [analysts EXCEPT ![i] = record_proposal_adopted(@)]

ChallengeWon(i) ==
  analysts' = [analysts EXCEPT ![i] = record_challenge_won(@)]

MarkPruned(i) ==
  analysts' = [analysts EXCEPT ![i] = mark_pruned(@)]

MarkComplete(i) ==
  analysts' = [analysts EXCEPT ![i] = mark_complete(@)]

Owner ==
  /\ \/ add_analyst
     \/ \E i \in Index :
          \/ remove_analyst(i)
          \/ ProposalAdopted(i)
          \/ ChallengeWon(i)
          \/ MarkPruned(i)
          \/ MarkComplete(i)
  /\ edits < EditBound
  /\ edits' = edits + 1
  /\ UNCHANGED <<clock, success_count>>

-----------------------------------------------------------------------------
(* One round: every active analyst is asked once, the others are skipped.  *)

Active == {i \in Index : is_active(analysts[i])}

\* A query that failed; -1 is no length.
QueryFailed == -1

\* What a query comes to: the length of the text that is found in the answer, 0
\* if there is none in it, or a failure.
Outcome == Lengths \cup {QueryFailed}

Asked(a, outcome, now) ==
  IF outcome = QueryFailed THEN Failed(a, now) ELSE Answered(a, outcome, now)

\* The count the caller gets is zero exactly when nobody succeeded, and is
\* never more than the number of successes.
ExecuteRound ==
  \E outcome \in [Active -> Outcome] :
    LET succeeded == {i \in Active : outcome[i] # QueryFailed}
    IN  /\ clock < RoundBound
        /\ clock' = clock + 1
        /\ analysts' = [i \in Index |->
             IF i \in Active
               THEN Asked(analysts[i], outcome[i], clock + 1)
               ELSE analysts[i]]
        /\ success_count' \in 0 .. Cardinality(succeeded)
        /\ success_count' = 0 <=> succeeded = {}
        /\ UNCHANGED edits

AtomicNext == Owner \/ ExecuteRound

AtomicSpec == AtomicInit /\ [][AtomicNext]_atomicVars
-----------------------------------------------------------------------------
\* The static roles stay in front of the spawned ones whatever is added or
\* removed, so that the index test of the pruning loop (Election.cpp:51)
\* can never reach one of them.
BaseInFront ==
  \A i, j \in Index :
    analysts[j].base => /\ j <= BaseCount
                        /\ i < j => analysts[i].base
=============================================================================
