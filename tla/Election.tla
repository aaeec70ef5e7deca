------------------------------ MODULE Election ------------------------------
(***************************************************************************)
(* core::VotingSystem: the election held after a round.                    *)
(*                                                                         *)
(* Every active analyst votes for the longest answer of another one, the   *)
(* votes are added up, and the spawned analysts that contribute too little *)
(* are pruned.  The code's loops are given here by what they compute;      *)
(* Debate.tla has them as loops and is shown to implement these.           *)
(***************************************************************************)
EXTENDS AtomicPool

CONSTANTS
  MaxIdleRounds,         \* config::MAX_IDLE_ROUNDS
  MinContributionScore   \* config::MIN_CONTRIBUTION_SCORE

ASSUME ElectionAssumption ==
  MaxIdleRounds \in Nat /\ MinContributionScore \in Nat

VARIABLE election_history

\* Analysts count from 1 here and from 0 in the code, which writes -1 for
\* nobody.
NoOne == 0

VoteScore == 5

Vote == [voter_id : Nat, votee_id : Nat, score : Nat]

ElectionRound ==
  [round_number : Nat, votes : SUBSET Vote, winner_id : Nat,
   pruned : SUBSET Nat]

-----------------------------------------------------------------------------
(* generate_votes_for_round *)

AnswerLength(i, round) == get_response(analysts[i], round).len

\* Mutant: the removed analysts may be voted for.
CandidatesOfAll(voter, round) ==
  {j \in Index \ {voter} : AnswerLength(j, round) > 0}

\* The others that said something in the round, as the voter reads it.
Candidates(voter, round) ==
  {j \in Active \ {voter} : AnswerLength(j, round) > 0}

\* Mutant: >= instead of > lets the last of the longest win.
LastLongest(S, round) ==
  Max({j \in S : \A k \in S : AnswerLength(k, round) <= AnswerLength(j, round)})

\* The first of the longest answers of a set of analysts.
FirstLongest(S, round) ==
  Min({j \in S : \A k \in S : AnswerLength(k, round) <= AnswerLength(j, round)})

generate_votes(round) ==
  {[voter_id |-> i,
    votee_id |-> FirstLongest(Candidates(i, round), round),
    score |-> VoteScore] : i \in {v \in Active : Candidates(v, round) # {}}}

-----------------------------------------------------------------------------

\* Mutant: a vote overwrites the score of its votee.
TallyOverwritten(votes) == [id \in {v.votee_id : v \in votes} |-> VoteScore]

\* Every vote counts VoteScore, so that to add the votes up is to count them.
tally_votes(votes) ==
  [id \in {v.votee_id : v \in votes} |->
     VoteScore * Cardinality({v \in votes : v.votee_id = id})]

\* The first of the highest scores, if any is positive.
select_winner(scores) ==
  LET leaders == {id \in DOMAIN scores :
                    /\ scores[id] > 0
                    /\ \A other \in DOMAIN scores : scores[other] <= scores[id]}
  IN  IF leaders = {} THEN NoOne ELSE Min(leaders)

-----------------------------------------------------------------------------
(* prune_inactive_analysts *)

\* Mutant: the loop starts one analyst too early.
ShouldPruneLastRole(i) ==
  /\ i >= BaseCount
  /\ is_active(analysts[i])
  /\ \/ analysts[i].idle >= MaxIdleRounds
     \/ analysts[i].score < MinContributionScore

\* The loop starts at the first index that is not a static role's.
ShouldPrune(i) ==
  /\ i > BaseCount
  /\ is_active(analysts[i])
  /\ \/ analysts[i].idle >= MaxIdleRounds
     \/ analysts[i].score < MinContributionScore

AfterPruning ==
  [i \in Index |-> IF ShouldPrune(i) THEN mark_pruned(analysts[i])
                                     ELSE analysts[i]]

\* The votes are those of the analysts active before the pruning, and the
\* list of the pruned has all of them, not only this round's.
run_election_round(round) ==
  LET votes == generate_votes(round)
  IN  /\ analysts' = AfterPruning
      /\ election_history' = Append(election_history,
           [round_number |-> round,
            votes |-> votes,
            winner_id |-> select_winner(tally_votes(votes)),
            pruned |-> {i \in Index : AfterPruning[i].pruned}])
=============================================================================
