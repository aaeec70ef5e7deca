------------------------------- MODULE Council -------------------------------
(***************************************************************************)
(* core::CouncilOrchestrator: a debate of several rounds, an election      *)
(* after each, and the result collected at the end.                        *)
(*                                                                         *)
(* A round is the single step AtomicPool has of it, which the threads of   *)
(* AnalystPool implement.  Between debates the owner may work on the pool  *)
(* through get_pool(), start another debate, or initialize a new pool.     *)
(***************************************************************************)
EXTENDS Election

CONSTANTS
  ConfigRounds,   \* Configuration::rounds
  DebateRounds,   \* the values of run_debate's num_rounds
  DebateBound     \* bound on the debates one pool holds

ASSUME CouncilAssumption ==
  ConfigRounds \in Nat /\ DebateRounds \subseteq Nat /\ DebateBound \in Nat

VARIABLES
  initialized,        \* pool_, llm_client_ and voting_system_ are set
  stage,              \* where run_debate is
  round,              \* its loop counter
  num_rounds,         \* its argument
  rounds_completed,   \* the counter of the loop's local DebateResult
  result,             \* what the last run_debate returned
  debates             \* history: the debates held by the present pool

councilVars == <<initialized, stage, round, num_rounds, rounds_completed,
                 result, debates>>

allVars == <<analysts, clock, success_count, edits, election_history,
             initialized, stage, round, num_rounds, rounds_completed, result,
             debates>>

Result ==
  [final_winner : Nat, winner_responses : Seq(Response),
   rounds_completed : Nat, analysts_pruned : Nat]

\* DebateResult's member initializers.
EmptyResult ==
  [final_winner |-> NoOne, winner_responses |-> <<>>,
   rounds_completed |-> 0, analysts_pruned |-> 0]

CouncilInit ==
  /\ analysts = <<>>
  /\ clock = 0
  /\ success_count = 0
  /\ edits = 0
  /\ election_history = <<>>
  /\ initialized = FALSE
  /\ stage = "idle"
  /\ round = 0
  /\ num_rounds = 0
  /\ rounds_completed = 0
  /\ result = EmptyResult
  /\ debates = 0

-----------------------------------------------------------------------------

\* Mutant: the voting system of the last pool is kept.
InitializePoolOnly ==
  /\ stage = "idle"
  /\ \E models \in 1 .. NumModels : analysts' = NewPool(models)
  /\ initialized' = TRUE
  /\ debates' = 0
  /\ UNCHANGED <<clock, success_count, edits, stage, round, num_rounds,
                 rounds_completed, result, election_history>>

\* A new pool and a new voting system replace the old ones.  Without models
\* the call returns false and changes nothing.
initialize_analysts ==
  /\ stage = "idle"
  /\ \E models \in 1 .. NumModels : analysts' = NewPool(models)
  /\ election_history' = <<>>
  /\ initialized' = TRUE
  /\ debates' = 0
  /\ UNCHANGED <<clock, success_count, edits, stage, round, num_rounds,
                 rounds_completed, result>>

OwnerWorks ==
  /\ stage = "idle"
  /\ initialized
  /\ Owner
  /\ UNCHANGED <<election_history, councilVars>>

run_debate(n) ==
  /\ stage = "idle"
  /\ initialized
  /\ clock + n <= RoundBound /\ debates < DebateBound
  /\ stage' = "rounds"
  /\ round' = 0
  /\ num_rounds' = n
  /\ rounds_completed' = 0
  /\ debates' = debates + 1
  /\ UNCHANGED <<analysts, clock, success_count, edits, election_history,
                 initialized, result>>

RefuseDebate ==
  /\ stage = "idle"
  /\ ~initialized
  /\ result' = EmptyResult
  /\ UNCHANGED <<analysts, clock, success_count, edits, election_history,
                 initialized, stage, round, num_rounds, rounds_completed,
                 debates>>

\* A round nobody answered ends the loop.
RunRound ==
  /\ stage = "rounds"
  /\ round < num_rounds
  /\ ExecuteRound
  /\ stage' = IF success_count' <= 0 THEN "finalize" ELSE "elect"
  /\ UNCHANGED <<election_history, initialized, round, num_rounds,
                 rounds_completed, result, debates>>

\* A thread that cannot be started makes execute_round throw, and run_debate
\* with it: the caller gets no result.
DebateThrows ==
  /\ stage = "rounds"
  /\ round < num_rounds
  /\ Active # {}
  /\ stage' = "idle"
  /\ UNCHANGED <<analysts, clock, success_count, edits, election_history,
                 initialized, round, num_rounds, rounds_completed, result,
                 debates>>

HoldElection ==
  /\ stage = "elect"
  /\ run_election_round(round)
  /\ round' = round + 1
  /\ rounds_completed' = rounds_completed + 1
  /\ stage' = "rounds"
  /\ UNCHANGED <<clock, success_count, edits, initialized, num_rounds, result,
                 debates>>

LastRoundDone ==
  /\ stage = "rounds"
  /\ round >= num_rounds
  /\ stage' = "finalize"
  /\ UNCHANGED <<analysts, clock, success_count, edits, election_history,
                 initialized, round, num_rounds, rounds_completed, result,
                 debates>>

-----------------------------------------------------------------------------
(* finalize_results *)

\* Mutant: only active analysts may win.
ActiveFinalWinner ==
  LET leaders == {i \in Active :
                    \A j \in Active : analysts[j].score <= analysts[i].score}
  IN  IF leaders = {} THEN NoOne ELSE Min(leaders)

\* The first of the highest total scores, of the pruned analysts too.
FinalWinner ==
  LET leaders == {i \in Index :
                    \A j \in Index : analysts[j].score <= analysts[i].score}
  IN  IF leaders = {} THEN NoOne ELSE Min(leaders)

\* The rounds before the given one whose response is not empty.
Spoke(i, until) == {r \in 0 .. until - 1 : get_response(analysts[i], r).len > 0}

\* The k-th response told is that of the round with k - 1 of them before it.
ResponsesBefore(i, until) ==
  [k \in 1 .. Cardinality(Spoke(i, until)) |->
     get_response(analysts[i], CHOOSE r \in Spoke(i, until) :
                                 Cardinality(Spoke(i, r)) = k - 1)]

WinnerResponses(i) == ResponsesBefore(i, ConfigRounds)

\* The result returned is a new one: the loop's counter is not copied to it.
finalize_results ==
  /\ stage = "finalize"
  /\ result' =
       [EmptyResult EXCEPT
          !.final_winner = FinalWinner,
          !.winner_responses =
             IF FinalWinner = NoOne THEN <<>> ELSE WinnerResponses(FinalWinner),
          !.analysts_pruned = Cardinality({i \in Index : analysts[i].pruned})]
  /\ stage' = "idle"
  /\ UNCHANGED <<analysts, clock, success_count, edits, election_history,
                 initialized, round, num_rounds, rounds_completed, debates>>

DebateStep ==
  RunRound \/ DebateThrows \/ HoldElection \/ LastRoundDone \/ finalize_results

CouncilNext ==
  \/ initialize_analysts
  \/ OwnerWorks
  \/ \E n \in DebateRounds : run_debate(n)
  \/ RefuseDebate
  \/ DebateStep

CouncilSpec == CouncilInit /\ [][CouncilNext]_allVars

-----------------------------------------------------------------------------
(* Properties. *)

CouncilTypeOK ==
  /\ analysts \in Seq(AnalystRecord) /\ Len(analysts) <= MaxModels
  /\ clock \in Nat /\ success_count \in Nat /\ edits \in Nat
  /\ election_history \in Seq(ElectionRound)
  /\ initialized \in BOOLEAN
  /\ stage \in {"idle", "rounds", "elect", "finalize"}
  /\ round \in Nat /\ num_rounds \in Nat /\ rounds_completed \in Nat
  /\ result \in Result
  /\ debates \in Nat

\* In the first debate of a pool, the election of a round reads that round's
\* answers: no active analyst's list of responses has fallen behind, although
\* each is indexed by its own length and some analysts were skipped.
ReadsThisRound ==
  stage = "elect" /\ debates = 1 =>
    \A i \in Active : get_response(analysts[i], round).at = clock

\* Three functions agree on who deserves to win: with at least three voters
\* the winner of votes, tally and selection is the first analyst with the
\* longest answer of the round, and there is one if anybody said anything.
LongestWins ==
  [][stage = "elect" /\ Cardinality(Active) >= 3 =>
       LET speakers == {i \in Active : AnswerLength(i, round) > 0}
       IN  election_history'[Len(election_history')].winner_id =
             IF speakers = {} THEN NoOne ELSE FirstLongest(speakers, round)]_allVars

\* No election prunes a static role, whatever was added to the pool or erased
\* from it before (Pool.h:130 "Static analysts (never pruned below)").
BaseNeverPruned ==
  [][stage = "elect" =>
       \A i \in Index : analysts[i].base => analysts'[i] = analysts[i]]_allVars

\* A pruned or completed analyst takes no further part in a debate: it is not
\* asked again, and it neither votes nor is voted for.
RemovedStaySilent ==
  [][stage # "idle" =>
       \A i \in Index : ~is_active(analysts[i]) =>
         /\ analysts'[i] = analysts[i]
         /\ election_history' # election_history =>
              \A vote \in election_history'[Len(election_history')].votes :
                vote.voter_id # i /\ vote.votee_id # i]_allVars

\* The pool's elections are numbered as its debates went: the last ones are
\* the present debate's, one for each round it completed.
HistoryFollowsRounds ==
  stage # "idle" =>
    /\ rounds_completed = round
    /\ Len(election_history) >= rounds_completed
    /\ debates = 1 => Len(election_history) = rounds_completed
    /\ \A k \in 1 .. rounds_completed :
         election_history[Len(election_history) - rounds_completed + k]
           .round_number = k - 1
=============================================================================
