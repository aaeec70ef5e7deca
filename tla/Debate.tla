------------------------------- MODULE Debate -------------------------------
(***************************************************************************)
(* CouncilOrchestrator::run_debate as the code runs it: a round is the     *)
(* threads of AnalystPool, and the votes, the tally, the selection, the    *)
(* pruning and the result are the loops of Election.cpp and Council.cpp,   *)
(* one iteration a step.                                                   *)
(*                                                                         *)
(* Council.tla has each of them as one step, defined by what it computes.  *)
(* This module is shown to implement it.                                   *)
(***************************************************************************)
EXTENDS Council, AnalystPool

VARIABLES
  loop,              \* the loop the debate is in, "none" between them
  outer,             \* its counter or iterator
  inner,             \* the counter of a loop inside of it
  best,              \* the candidate of a scan, and the value to exceed
  round_votes,       \* round.votes
  score_map,
  winner_responses   \* of the result that finalize_results builds

loopVars == <<loop, outer, inner, best, round_votes, score_map, winner_responses>>

debateVars == <<allVars, roundVars, loopVars>>

NoLoop ==
  /\ loop = "none" /\ outer = 0 /\ inner = 0
  /\ best = [id |-> NoOne, max |-> 0]
  /\ round_votes = <<>> /\ score_map = <<>> /\ winner_responses = <<>>

DebateInit == CouncilInit /\ NoRound /\ NoLoop

-----------------------------------------------------------------------------
(* The caller outside of rounds and loops. *)

Outside == caller = "outside" /\ loop = "none"

OutsideStep ==
  /\ Outside
  /\ \/ initialize_analysts
     \/ OwnerWorks
     \/ \E n \in DebateRounds : run_debate(n)
     \/ RefuseDebate
     \/ LastRoundDone
  /\ UNCHANGED <<roundVars, loopVars>>

-----------------------------------------------------------------------------
(* A round: the steps of AnalystPool, between two of the council's. *)

CallRound ==
  /\ Outside
  /\ stage = "rounds" /\ round < num_rounds
  /\ Call
  /\ UNCHANGED <<election_history, councilVars, loopVars>>

CallerInRound ==
  /\ Start \/ StartTerminates \/ AllStarted \/ Join
  /\ UNCHANGED <<election_history, councilVars, loopVars>>

ThreadInRound(i) ==
  /\ Thread(i)
  /\ UNCHANGED <<election_history, councilVars, loopVars>>

RoundReturned ==
  /\ Return
  /\ stage' = IF success_count' <= 0 THEN "finalize" ELSE "elect"
  /\ UNCHANGED <<election_history, initialized, round, num_rounds,
                 rounds_completed, result, debates, loopVars>>

RoundThrew ==
  /\ StartThrows
  /\ stage' = "idle"
  /\ UNCHANGED <<election_history, initialized, round, num_rounds,
                 rounds_completed, result, debates, loopVars>>

-----------------------------------------------------------------------------
(* Steps of a loop, which change its local variables alone. *)

Goto(l) == loop' = l

NothingElse == UNCHANGED <<allVars, roundVars>>

Nobody(least) == [id |-> NoOne, max |-> least]

\* Mutant: the last of equal candidates is kept.
BetterOrEqual(id, value) ==
  IF value >= best.max THEN [id |-> id, max |-> value] ELSE best

Better(id, value) ==
  IF value > best.max THEN [id |-> id, max |-> value] ELSE best

\* generate_votes_for_round
BeginVotes ==
  /\ stage = "elect" /\ loop = "none"
  /\ Goto("voters") /\ outer' = 1
  /\ NothingElse /\ UNCHANGED <<inner, best, round_votes, score_map, winner_responses>>

LookAtVoter ==
  /\ loop = "voters" /\ outer \in Index
  /\ IF is_active(analysts[outer])
       THEN Goto("votees") /\ inner' = 1 /\ best' = Nobody(0) /\ UNCHANGED outer
       ELSE outer' = outer + 1 /\ UNCHANGED <<loop, inner, best>>
  /\ NothingElse /\ UNCHANGED <<round_votes, score_map, winner_responses>>

LookAtVotee ==
  /\ loop = "votees" /\ inner \in Index
  /\ best' = IF inner # outer /\ is_active(analysts[inner])
               THEN Better(inner, AnswerLength(inner, round))
               ELSE best
  /\ inner' = inner + 1
  /\ NothingElse /\ UNCHANGED <<loop, outer, round_votes, score_map, winner_responses>>

\* Mutant: a voter who heard nobody votes all the same.
CastAnyVote ==
  /\ loop = "votees" /\ inner \notin Index
  /\ round_votes' = Append(round_votes,
       [voter_id |-> outer, votee_id |-> best.id, score |-> VoteScore])
  /\ Goto("voters") /\ outer' = outer + 1
  /\ NothingElse /\ UNCHANGED <<inner, best, score_map, winner_responses>>

CastVote ==
  /\ loop = "votees" /\ inner \notin Index
  /\ round_votes' =
       IF best.id = NoOne THEN round_votes
       ELSE Append(round_votes,
              [voter_id |-> outer, votee_id |-> best.id, score |-> VoteScore])
  /\ Goto("voters") /\ outer' = outer + 1
  /\ NothingElse /\ UNCHANGED <<inner, best, score_map, winner_responses>>

BeginTally ==
  /\ loop = "voters" /\ outer \notin Index
  /\ Goto("tally") /\ outer' = 1
  /\ NothingElse /\ UNCHANGED <<inner, best, round_votes, score_map, winner_responses>>

\* tally_votes: a key that is new to a std::map has the value 0.
TallyVote ==
  /\ loop = "tally" /\ outer \in DOMAIN round_votes
  /\ LET vote == round_votes[outer]
     IN  score_map' = [id \in DOMAIN score_map \cup {vote.votee_id} |->
           (IF id \in DOMAIN score_map THEN score_map[id] ELSE 0)
           + (IF id = vote.votee_id THEN vote.score ELSE 0)]
  /\ outer' = outer + 1
  /\ NothingElse /\ UNCHANGED <<loop, inner, best, round_votes, winner_responses>>

BeginSelection ==
  /\ loop = "tally" /\ outer \notin DOMAIN round_votes
  /\ Goto("scores") /\ outer' = 0 /\ best' = Nobody(0)
  /\ NothingElse /\ UNCHANGED <<inner, round_votes, score_map, winner_responses>>

\* select_winner: a std::map is iterated in the order of its keys.
Later == {id \in DOMAIN score_map : id > outer}

LookAtScore ==
  /\ loop = "scores" /\ Later # {}
  /\ outer' = Min(Later)
  /\ best' = Better(Min(Later), score_map[Min(Later)])
  /\ NothingElse /\ UNCHANGED <<loop, inner, round_votes, score_map, winner_responses>>

BeginPruning ==
  /\ loop = "scores" /\ Later = {}
  /\ Goto("prune") /\ outer' = BaseCount + 1
  /\ NothingElse /\ UNCHANGED <<inner, best, round_votes, score_map, winner_responses>>

\* prune_inactive_analysts
LookAtAnalyst ==
  /\ loop = "prune" /\ outer \in Index
  /\ analysts' = IF ShouldPrune(outer)
                   THEN [analysts EXCEPT ![outer] = mark_pruned(@)]
                   ELSE analysts
  /\ outer' = outer + 1
  /\ UNCHANGED <<clock, success_count, edits, election_history, councilVars,
                 roundVars, loop, inner, best, round_votes, score_map,
                 winner_responses>>

LocalsGone ==
  /\ Goto("none") /\ outer' = 0 /\ inner' = 0 /\ best' = Nobody(0)
  /\ round_votes' = <<>> /\ score_map' = <<>> /\ winner_responses' = <<>>

Elected ==
  [round_number |-> round, votes |-> ToSet(round_votes), winner_id |-> best.id,
   pruned |-> {i \in Index : analysts[i].pruned}]

EndElection ==
  /\ loop = "prune" /\ outer \notin Index
  /\ election_history' = Append(election_history, Elected)
  /\ round' = round + 1 /\ rounds_completed' = rounds_completed + 1
  /\ stage' = "rounds"
  /\ LocalsGone
  /\ UNCHANGED <<analysts, clock, success_count, edits, initialized, num_rounds,
                 result, debates, roundVars>>

-----------------------------------------------------------------------------
(* finalize_results *)

\* Mutant: who has no points cannot win.
BeginFinalAtZero ==
  /\ stage = "finalize" /\ loop = "none"
  /\ Goto("totals") /\ outer' = 1 /\ best' = Nobody(0)
  /\ NothingElse /\ UNCHANGED <<inner, round_votes, score_map, winner_responses>>

BeginFinal ==
  /\ stage = "finalize" /\ loop = "none"
  /\ Goto("totals") /\ outer' = 1 /\ best' = Nobody(-1)
  /\ NothingElse /\ UNCHANGED <<inner, round_votes, score_map, winner_responses>>

LookAtTotal ==
  /\ loop = "totals" /\ outer \in Index
  /\ best' = Better(outer, analysts[outer].score)
  /\ outer' = outer + 1
  /\ NothingElse /\ UNCHANGED <<loop, inner, round_votes, score_map, winner_responses>>

BeginResponses ==
  /\ loop = "totals" /\ outer \notin Index
  /\ Goto("responses") /\ outer' = 0
  /\ NothingElse /\ UNCHANGED <<inner, best, round_votes, score_map, winner_responses>>

LookAtResponse ==
  /\ loop = "responses" /\ best.id # NoOne /\ outer < ConfigRounds
  /\ LET response == get_response(analysts[best.id], outer)
     IN  winner_responses' = IF response.len > 0
                               THEN Append(winner_responses, response)
                               ELSE winner_responses
  /\ outer' = outer + 1
  /\ NothingElse /\ UNCHANGED <<loop, inner, best, round_votes, score_map>>

EndDebate ==
  /\ loop = "responses" /\ (best.id = NoOne \/ outer >= ConfigRounds)
  /\ result' = [EmptyResult EXCEPT
       !.final_winner = best.id,
       !.winner_responses = winner_responses,
       !.analysts_pruned = Cardinality({i \in Index : analysts[i].pruned})]
  /\ stage' = "idle"
  /\ LocalsGone
  /\ UNCHANGED <<analysts, clock, success_count, edits, election_history,
                 initialized, round, num_rounds, rounds_completed, debates,
                 roundVars>>

-----------------------------------------------------------------------------

ElectionStep ==
  \/ BeginVotes \/ LookAtVoter \/ LookAtVotee \/ CastVote
  \/ BeginTally \/ TallyVote \/ BeginSelection \/ LookAtScore
  \/ BeginPruning \/ LookAtAnalyst \/ EndElection

FinalStep ==
  \/ BeginFinal \/ LookAtTotal \/ BeginResponses \/ LookAtResponse \/ EndDebate

RoundStep ==
  CallRound \/ CallerInRound \/ RoundReturned \/ RoundThrew \/ \E i \in Slot : ThreadInRound(i)

DebateNext == OutsideStep \/ RoundStep \/ ElectionStep \/ FinalStep

DebateSpec == DebateInit /\ [][DebateNext]_debateVars

\* A debate that has begun goes on, each of its threads is scheduled and each
\* query ends (the clients set a timeout on every request).  Nobody has to begin
\* a debate or to touch the pool.
DebateFairness ==
  /\ WF_debateVars(\/ LastRoundDone /\ OutsideStep
                   \/ CallRound \/ CallerInRound \/ RoundReturned \/ RoundThrew
                   \/ ElectionStep \/ FinalStep)
  /\ \A i \in Slot : WF_debateVars(ThreadInRound(i))

FairDebateSpec == DebateSpec /\ DebateFairness

-----------------------------------------------------------------------------
(* Properties. *)

Pruning == loop = "prune"

\* A round is seen when it returns and an election when its pruning begins.
OneStep == INSTANCE Council WITH
  analysts <- IF caller # "outside" THEN before
              ELSE IF Pruning THEN AfterPruning ELSE analysts,
  clock <- IF caller # "outside" THEN clock - 1 ELSE clock,
  election_history <-
    IF Pruning
      THEN Append(election_history,
             [Elected EXCEPT !.pruned = {i \in Index : AfterPruning[i].pruned}])
      ELSE election_history,
  stage <- IF Pruning THEN "rounds" ELSE stage,
  round <- IF Pruning THEN round + 1 ELSE round,
  rounds_completed <- IF Pruning THEN rounds_completed + 1 ELSE rounds_completed

\* Threads and loops together hold the debates that Council defines: however
\* the threads of a round interleave and lose counts, and with all ties, the
\* votes, the scores, the winner, the pruned and the result are those that its
\* definitions say, so that what is true of Council is true of the code's loops.
ImplementsCouncil == OneStep!CouncilSpec

\* A debate that has begun comes to an end, also when a thread is refused to
\* it, unless the whole process ends on that account.
DebateEnds == stage # "idle" ~> stage = "idle" \/ caller = "terminated"
=============================================================================
