----------------------------- MODULE CouncilProofs -----------------------------
(***************************************************************************)
(* Proofs about the debates of Council, for every number of analysts,      *)
(* models, rounds and debates, and every limit of the pruning, and that    *)
(* the threads and the loops of Debate implement them.                     *)
(*                                                                         *)
(* A loop that counts is reasoned about by what it has seen so far, which  *)
(* is an invariant of its iterations; a definition by a least element or   *)
(* a cardinality by the least number for which a claim would fail.         *)
(***************************************************************************)
EXTENDS Debate, AnalystPoolProofs, WellFoundedInduction

USE LengthsAssumption, PoolAssumption, ElectionAssumption, CouncilAssumption
    DEF LengthsAssumption, PoolAssumption, ElectionAssumption, CouncilAssumption

-----------------------------------------------------------------------------
(* Whom a voter chooses. *)

\* A set of natural numbers that is not empty has a least element.
LEMMA LeastExists ==
  ASSUME NEW S \in SUBSET Nat, S # {}
  PROVE  \E x \in S : \A y \in S : x <= y
<1> DEFINE R == {ss \in Nat \X Nat : ss[1] < ss[2]}
<1>1. IsWellFoundedOn(R, Nat)
  BY NatLessThanWellFounded DEF OpToRel
<1>2. \A x, y \in Nat : <<y, x>> \in R <=> y < x
  OBVIOUS
<1> HIDE DEF R
<1>3. \E x \in S : \A y \in S : ~(<<y, x>> \in R)
  BY <1>1, WFMin
<1>4. PICK x \in S : \A y \in S : ~(<<y, x>> \in R)
  BY <1>3
<1>5. \A y \in S : ~(y < x)
  BY <1>2, <1>4
<1>6. x \in Nat /\ \A y \in S : y \in Nat
  OBVIOUS
<1> QED BY <1>5, <1>6

LEMMA MinIsIn ==
  ASSUME NEW S \in SUBSET Nat, S # {}
  PROVE  Min(S) \in S /\ \A y \in S : Min(S) <= y
BY LeastExists DEF Min

\* Of finitely many numbers one is the greatest.
LEMMA GreatestExists ==
  ASSUME NEW n \in Nat, NEW f \in [1 .. n -> Nat], NEW S \in SUBSET (1 .. n), S # {}
  PROVE  \E j \in S : \A k \in S : f[k] <= f[j]
<1> DEFINE Upto(m) == S \cap (1 .. m)
           Good(m) == \E j \in Upto(m) : \A k \in Upto(m) : f[k] <= f[j]
           Bad == {m \in 0 .. n : Upto(m) # {} /\ ~Good(m)}
<1>1. Bad \in SUBSET Nat
  OBVIOUS
<1>2. \A m \in 1 .. n : Upto(m) = Upto(m - 1) \cup (S \cap {m})
  OBVIOUS
<1>3. Upto(0) = {} /\ Upto(n) = S /\ \A m : Upto(m) \subseteq S
  <2>1. Upto(0) = {}
    OBVIOUS
  <2>2. Upto(n) = S
    OBVIOUS
  <2> QED BY <2>1, <2>2
<1>4. \A k \in S : f[k] \in Nat
  OBVIOUS
<1>5. \A m : m \in Bad <=> m \in 0 .. n /\ Upto(m) # {} /\ ~Good(m)
  OBVIOUS
<1>6. \A m : Good(m) <=> \E j \in Upto(m) : \A k \in Upto(m) : f[k] <= f[j]
  OBVIOUS
<1> HIDE DEF Upto, Good, Bad
<1>7. ASSUME Bad # {} PROVE FALSE
  <2>1. PICK m \in Bad : \A l \in Bad : m <= l
    BY <1>1, <1>7, LeastExists
  <2>2. m \in 1 .. n /\ m - 1 \in 0 .. n /\ Upto(m) # {} /\ ~Good(m)
    BY <1>3, <1>5, <2>1
  <2>3. m - 1 \notin Bad
    BY <2>1, <2>2
  <2>4. CASE Upto(m - 1) = {}
    <3>1. Upto(m) = {m} /\ f[m] <= f[m]
      BY <1>2, <1>3, <1>4, <2>2, <2>4
    <3> QED BY <1>6, <2>2, <3>1
  <2>5. CASE Good(m - 1)
    <3>1. PICK j \in Upto(m - 1) : \A k \in Upto(m - 1) : f[k] <= f[j]
      BY <1>6, <2>5
    <3>2. j \in Upto(m)
      BY <1>2, <2>2
    <3>3. CASE m \notin S \/ f[m] <= f[j]
      <4>1. \A k \in Upto(m) : f[k] <= f[j]
        BY <1>2, <2>2, <3>1, <3>3
      <4> QED BY <1>6, <2>2, <3>2, <4>1
    <3>4. CASE m \in S /\ ~(f[m] <= f[j])
      <4>1. f[j] \in Nat /\ f[m] \in Nat /\ f[j] <= f[m] /\ m \in Upto(m)
        <5>1. j \in S
          BY <1>3, <3>2
        <5>2. f[j] \in Nat /\ f[m] \in Nat
          BY <1>4, <3>4, <5>1
        <5> QED BY <1>2, <2>2, <3>4, <5>2
      <4>2. \A k \in Upto(m - 1) : f[k] \in Nat /\ f[k] <= f[j]
        BY <1>3, <1>4, <3>1
      <4>3. ASSUME NEW k \in Upto(m) PROVE f[k] <= f[m]
        <5>1. k \in Upto(m - 1) \/ k = m
          BY <1>2, <2>2
        <5> QED BY <4>1, <4>2, <5>1
      <4> QED BY <1>6, <2>2, <4>1, <4>3
    <3> QED BY <3>3, <3>4
  <2> QED BY <1>5, <2>2, <2>3, <2>4, <2>5
<1>8. n \in 0 .. n /\ n \notin Bad
  BY <1>7
<1>9. Good(n)
  BY <1>3, <1>5, <1>8
<1> QED BY <1>3, <1>6, <1>9

-----------------------------------------------------------------------------
(* Elections. *)

LEMMA ActiveIndex == Active \subseteq Index
BY DEF Active

LEMMA AnswerLengthType ==
  ASSUME ListOK, NEW i \in Index, NEW r \in Nat
  PROVE  AnswerLength(i, r) \in Nat
<1>1. analysts[i].responses \in Seq(Response)
  <2>1. analysts[i] \in AnalystRecord
    BY DEF ListOK, Index
  <2> QED BY <2>1 DEF AnalystRecord
<1>2. r < Len(analysts[i].responses) => analysts[i].responses[r + 1] \in Response
  BY <1>1
<1> QED BY <1>2 DEF AnswerLength, get_response, NoResponse, Response

\* Some analysts have a longest answer.
LEMMA LongestExists ==
  ASSUME ListOK, NEW S \in SUBSET Index, S # {}, NEW r \in Nat
  PROVE  \E j \in S : \A k \in S : AnswerLength(k, r) <= AnswerLength(j, r)
<1> DEFINE f == [i \in 1 .. Len(analysts) |-> AnswerLength(i, r)]
<1>1. Len(analysts) \in Nat /\ Index = 1 .. Len(analysts)
  BY DEF ListOK, Index
<1>2. f \in [1 .. Len(analysts) -> Nat] /\ \A i \in Index : f[i] = AnswerLength(i, r)
  BY <1>1, AnswerLengthType
<1> HIDE DEF f
<1>3. \E j \in S : \A k \in S : f[k] <= f[j]
  BY <1>1, <1>2, GreatestExists
<1> QED BY <1>2, <1>3

\* No answer of some analysts is longer than the first of the longest, and
\* every other one that is as long comes after it.
LEMMA FirstLongestIsFirst ==
  ASSUME ListOK, NEW S \in SUBSET Index, S # {}, NEW r \in Nat
  PROVE  /\ FirstLongest(S, r) \in S
         /\ \A k \in S : AnswerLength(k, r) <= AnswerLength(FirstLongest(S, r), r)
         /\ \A j \in S : (\A k \in S : AnswerLength(k, r) <= AnswerLength(j, r))
                           => FirstLongest(S, r) <= j
<1> DEFINE longest == {j \in S : \A k \in S : AnswerLength(k, r) <= AnswerLength(j, r)}
<1>1. Index \subseteq Nat
  BY DEF ListOK, Index
<1>2. longest \in SUBSET Nat /\ longest # {}
  BY <1>1, LongestExists
<1>3. Min(longest) \in longest /\ \A j \in longest : Min(longest) <= j
  BY <1>2, MinIsIn
<1> QED BY <1>3 DEF FirstLongest

\* Active analysts vote, and for active analysts.
LEMMA VotesOfActive ==
  ASSUME ListOK, NEW r \in Nat, NEW v \in generate_votes(r)
  PROVE  v.voter_id \in Active /\ v.votee_id \in Active /\ v \in Vote
<1>1. PICK i \in Active : /\ Candidates(i, r) # {}
                          /\ v = [voter_id |-> i,
                                  votee_id |-> FirstLongest(Candidates(i, r), r),
                                  score |-> VoteScore]
  BY DEF generate_votes
<1>2. Candidates(i, r) \subseteq Active /\ Active \subseteq Index
  BY ActiveIndex DEF Candidates
<1>3. FirstLongest(Candidates(i, r), r) \in Active
  BY <1>1, <1>2, FirstLongestIsFirst
<1>4. Index \subseteq Nat
  BY DEF ListOK, Index
<1> QED BY <1>1, <1>2, <1>3, <1>4 DEF Vote, VoteScore

LEMMA ElectionTyped ==
  ASSUME ListOK, NEW r \in Nat
  PROVE  [round_number |-> r,
          votes |-> generate_votes(r),
          winner_id |-> select_winner(tally_votes(generate_votes(r))),
          pruned |-> {i \in Index : AfterPruning[i].pruned}] \in ElectionRound
<1>1. generate_votes(r) \in SUBSET Vote
  BY VotesOfActive
<1> DEFINE scores == tally_votes(generate_votes(r))
           leaders == {id \in DOMAIN scores :
                         /\ scores[id] > 0
                         /\ \A other \in DOMAIN scores : scores[other] <= scores[id]}
<1>2. DOMAIN scores \subseteq Nat
  BY <1>1 DEF tally_votes, Vote
<1> HIDE DEF scores
<1>3. leaders \in SUBSET Nat
  BY <1>2
<1>4. leaders # {} => Min(leaders) \in Nat
  BY <1>3, MinIsIn
<1>5. select_winner(scores) \in Nat
  BY <1>4 DEF select_winner, NoOne
<1>6. {i \in Index : AfterPruning[i].pruned} \in SUBSET Nat
  BY DEF ListOK, Index
<1> QED BY <1>1, <1>5, <1>6 DEF ElectionRound, scores

\* Pruning takes no analyst away, marks spawned and active ones alone, and
\* leaves what they said.
LEMMA PruningKeepsList ==
  ASSUME ListOK, analysts' = AfterPruning
  PROVE  /\ ListOK' /\ Index' = Index /\ Active' \subseteq Active
         /\ \A i \in Index : analysts'[i].responses = analysts[i].responses
         /\ \A i \in Index : analysts[i].base \/ i \notin Active
                            => analysts'[i] = analysts[i]
<1>1. \A i \in Index : analysts[i] \in AnalystRecord
  BY DEF ListOK, Index
<1>2. \A a \in AnalystRecord : /\ mark_pruned(a) \in AnalystRecord
                               /\ mark_pruned(a).base = a.base
                               /\ mark_pruned(a).responses = a.responses
                               /\ ~is_active(mark_pruned(a))
  BY DEF mark_pruned, AnalystRecord, is_active
<1>3. \A i \in Index : analysts'[i] = IF ShouldPrune(i) THEN mark_pruned(analysts[i])
                                                       ELSE analysts[i]
  BY DEF AfterPruning
<1>4. /\ analysts' \in Seq(AnalystRecord) /\ Len(analysts') = Len(analysts)
      /\ Index' = Index
  <2>1. Len(analysts) \in Nat /\ Index = 1 .. Len(analysts)
    BY DEF ListOK, Index
  <2>2. analysts' \in [1 .. Len(analysts) -> AnalystRecord]
    BY <1>1, <1>2, <2>1 DEF AfterPruning
  <2>3. analysts' \in Seq(AnalystRecord)
    BY <2>1, <2>2, SeqDef
  <2>4. Len(analysts') = Len(analysts)
    BY <2>1, <2>2, <2>3, LenProperties
  <2> QED BY <2>3, <2>4 DEF Index
<1>5. \A i \in Index : /\ analysts'[i].base = analysts[i].base
                       /\ analysts'[i].responses = analysts[i].responses
                       /\ is_active(analysts'[i]) => is_active(analysts[i])
  BY <1>1, <1>2, <1>3
<1>6. ListOK'
  BY <1>4, <1>5 DEF ListOK, BaseInFront
<1>7. Active' \subseteq Active
  BY <1>4, <1>5 DEF Active
<1>8. \A i \in Index : analysts[i].base \/ i \notin Active => ~ShouldPrune(i)
  <2>1. \A i \in Index : analysts[i].base => i <= BaseCount
    BY DEF ListOK, BaseInFront
  <2>2. \A i \in Index : i \in Nat
    BY DEF ListOK, Index
  <2> QED BY <2>1, <2>2 DEF ShouldPrune, Active
<1> QED BY <1>3, <1>4, <1>5, <1>6, <1>7, <1>8

-----------------------------------------------------------------------------
(* Who wins. *)

\* Every other voter finds the speaker who is the first of the longest.
LEMMA OthersChooseFirst ==
  ASSUME ListOK, NEW r \in Nat, NEW w, NEW voter \in Index, voter # w,
         {i \in Active : AnswerLength(i, r) > 0} # {},
         w = FirstLongest({i \in Active : AnswerLength(i, r) > 0}, r)
  PROVE  Candidates(voter, r) # {} /\ FirstLongest(Candidates(voter, r), r) = w
<1> DEFINE speakers == {i \in Active : AnswerLength(i, r) > 0}
           C == Candidates(voter, r)
<1>1. speakers \in SUBSET Index /\ C = speakers \ {voter}
  BY ActiveIndex DEF Candidates
<1>2. /\ w \in speakers
      /\ \A k \in speakers : AnswerLength(k, r) <= AnswerLength(w, r)
      /\ \A j \in speakers : (\A k \in speakers : AnswerLength(k, r) <= AnswerLength(j, r))
                               => w <= j
  BY <1>1, FirstLongestIsFirst
<1>3. w \in C /\ C \in SUBSET Index /\ C # {}
  BY <1>1, <1>2
<1> DEFINE x == FirstLongest(C, r)
<1>4. /\ x \in C
      /\ \A k \in C : AnswerLength(k, r) <= AnswerLength(x, r)
      /\ \A j \in C : (\A k \in C : AnswerLength(k, r) <= AnswerLength(j, r)) => x <= j
  BY <1>3, FirstLongestIsFirst
<1>5. \A k \in speakers : AnswerLength(k, r) \in Nat /\ k \in Nat
  <2>1. Index \subseteq Nat
    BY DEF ListOK, Index
  <2> QED BY <1>1, <2>1, AnswerLengthType
<1> HIDE DEF speakers, C, x
<1>6. x <= w
  BY <1>1, <1>2, <1>3, <1>4
<1>7. w <= x
  <2>1. x \in speakers /\ AnswerLength(w, r) <= AnswerLength(x, r)
    BY <1>1, <1>3, <1>4
  <2>2. \A k \in speakers : AnswerLength(k, r) <= AnswerLength(x, r)
    BY <1>2, <1>5, <2>1
  <2> QED BY <1>2, <2>1, <2>2
<1>8. x = w
  <2>1. x \in Nat /\ w \in Nat
    BY <1>1, <1>2, <1>4, <1>5
  <2> QED BY <1>6, <1>7, <2>1
<1> QED BY <1>3, <1>8 DEF C, x

\* Of three active analysts two are not the winner.
LEMMA TwoOthers ==
  ASSUME ListOK, Cardinality(Active) >= 3, NEW w
  PROVE  \E a, b \in Active \ {w} : a # b
<1>1. IsFiniteSet(Active)
  <2>1. IsFiniteSet(1 .. Len(analysts))
    BY FS_Interval DEF ListOK
  <2> QED BY <2>1, FS_Subset, ActiveIndex DEF Index
<1>2. IsFiniteSet(Active \ {w}) /\ Cardinality(Active \ {w}) >= 2
  <2>1. Cardinality(Active) \in Nat
    BY <1>1, FS_CardinalityType
  <2> QED BY <1>1, <2>1, FS_RemoveElement
<1>3. PICK a : a \in Active \ {w}
  <2>1. Cardinality({}) = 0
    BY FS_EmptySet
  <2> QED BY <1>2, <2>1
<1>4. PICK b : b \in (Active \ {w}) \ {a}
  <2>1. Active \ {w} # {a}
    BY <1>2, FS_Singleton
  <2> QED BY <1>3, <2>1
<1> QED BY <1>3, <1>4

\* The votes of a round are finitely many: one for each voter at the most.
LEMMA VotesFinite ==
  ASSUME ListOK, NEW r \in Nat
  PROVE  IsFiniteSet(generate_votes(r))
<1> DEFINE f == [v \in generate_votes(r) |-> v.voter_id]
<1>1. f \in [generate_votes(r) -> Active]
  BY VotesOfActive
<1>2. \A u, v \in generate_votes(r) : u.voter_id = v.voter_id => u = v
  BY DEF generate_votes
<1>3. f \in Injection(generate_votes(r), Active)
  BY <1>1, <1>2 DEF Injection, IsInjective
<1>4. IsFiniteSet(Active)
  <2>1. IsFiniteSet(1 .. Len(analysts))
    BY FS_Interval DEF ListOK
  <2> QED BY <2>1, FS_Subset, ActiveIndex DEF Index
<1> QED BY <1>3, <1>4, FS_Injection

\* The one analyst whose score no other one's comes up to is selected.
LEMMA SelectLeader ==
  ASSUME NEW scores, NEW w \in Nat, w \in DOMAIN scores, scores[w] \in Nat, scores[w] > 0,
         \A id \in DOMAIN scores : scores[id] \in Nat,
         \A id \in DOMAIN scores \ {w} : scores[id] < scores[w]
  PROVE  select_winner(scores) = w
<1> DEFINE leaders == {id \in DOMAIN scores :
                         /\ scores[id] > 0
                         /\ \A other \in DOMAIN scores : scores[other] <= scores[id]}
<1>1. w \in leaders
  OBVIOUS
<1>2. \A id \in leaders : id = w
  OBVIOUS
<1>3. leaders = {w}
  BY <1>1, <1>2
<1> HIDE DEF leaders
<1>4. Min(leaders) = w
  BY <1>3, MinIsIn
<1>5. select_winner(scores) = IF leaders = {} THEN NoOne ELSE Min(leaders)
  BY DEF select_winner, leaders
<1> QED BY <1>3, <1>4, <1>5

\* With three voters, the first of the longest answers gets at least two
\* votes, and another one at most the vote of the winner itself.
LEMMA ElectionWinner ==
  ASSUME ListOK, NEW r \in Nat, Cardinality(Active) >= 3
  PROVE  select_winner(tally_votes(generate_votes(r))) =
           LET speakers == {i \in Active : AnswerLength(i, r) > 0}
           IN  IF speakers = {} THEN NoOne ELSE FirstLongest(speakers, r)
<1> DEFINE speakers == {i \in Active : AnswerLength(i, r) > 0}
           votes == generate_votes(r)
           For(id) == {v \in votes : v.votee_id = id}
           scores == tally_votes(votes)
<1>1. CASE speakers = {}
  <2>1. votes = {}
    BY <1>1 DEF generate_votes, Candidates
  <2>2. DOMAIN scores = {}
    BY <2>1 DEF tally_votes
  <2> HIDE DEF scores
  <2>3. select_winner(scores) = NoOne
    BY <2>2 DEF select_winner
  <2> QED BY <1>1, <2>3 DEF scores
<1>2. CASE speakers # {}
  <2> DEFINE w == FirstLongest(speakers, r)
             By(i) == [voter_id |-> i, votee_id |-> w, score |-> VoteScore]
  <2>1. speakers \in SUBSET Index /\ w \in speakers /\ w \in Nat
    <3>1. speakers \in SUBSET Index
      BY ActiveIndex
    <3>2. Index \subseteq Nat
      BY DEF ListOK, Index
    <3> HIDE DEF speakers
    <3>3. w \in speakers
      BY <1>2, <3>1, FirstLongestIsFirst
    <3> QED BY <3>1, <3>2, <3>3
  <2> HIDE DEF w
  <2>2. ASSUME NEW i \in Active \ {w}
        PROVE  /\ By(i) \in votes
               /\ \A v \in votes : v.voter_id = i => v = By(i)
    <3>1. Candidates(i, r) # {} /\ FirstLongest(Candidates(i, r), r) = w
      BY <1>2, OthersChooseFirst, ActiveIndex DEF w
    <3> QED BY <3>1 DEF generate_votes
  <2>3. IsFiniteSet(votes) /\ \A id : IsFiniteSet(For(id)) /\ Cardinality(For(id)) \in Nat
    <3>1. IsFiniteSet(votes)
      BY VotesFinite
    <3>2. \A id : For(id) \in SUBSET votes
      OBVIOUS
    <3>3. \A id : IsFiniteSet(For(id))
      BY <3>1, <3>2, FS_Subset
    <3> QED BY <3>1, <3>3, FS_CardinalityType
  <2>4. /\ \E v \in votes : v.votee_id = w
        /\ Cardinality(For(w)) >= 2
    <3>1. PICK a, b \in Active \ {w} : a # b
      BY TwoOthers
    <3>2. By(a) \in For(w) /\ By(b) \in For(w) /\ By(a) # By(b)
      <4>1. By(a).voter_id = a /\ By(b).voter_id = b
        OBVIOUS
      <4> QED BY <2>2, <3>1, <4>1
    <3> HIDE DEF By, For
    <3>3. IsFiniteSet({By(a)}) /\ Cardinality({By(a)}) = 1
      BY FS_Singleton
    <3>4. Cardinality({By(a)} \cup {By(b)}) = 2
      <4>1. By(b) \notin {By(a)}
        BY <3>2
      <4>2. Cardinality({By(a)} \cup {By(b)}) = Cardinality({By(a)}) + 1
        BY <3>3, <4>1, FS_AddElement
      <4> QED BY <3>3, <4>2
    <3>5. {By(a)} \cup {By(b)} \in SUBSET For(w)
      BY <3>2
    <3>6. 2 <= Cardinality(For(w))
      BY <2>3, <3>4, <3>5, FS_Subset
    <3> QED BY <2>3, <3>2, <3>6 DEF For
  <2>5. ASSUME NEW id, id # w PROVE Cardinality(For(id)) <= 1
    <3>1. ASSUME NEW v \in For(id) PROVE v.voter_id = w
      <4>1. v \in votes /\ v.votee_id # w /\ v.voter_id \in Active
        BY <2>5, VotesOfActive
      <4>2. By(v.voter_id).votee_id = w
        OBVIOUS
      <4> HIDE DEF votes, By
      <4> QED BY <2>2, <4>1, <4>2
    <3>2. \A u, v \in For(id) : u = v
      BY <3>1 DEF generate_votes
    <3>3. CASE For(id) = {}
      BY <3>3, FS_EmptySet
    <3>4. CASE For(id) # {}
      <4>1. PICK v : v \in For(id)
        BY <3>4
      <4>2. For(id) = {v}
        BY <3>2, <4>1
      <4>3. Cardinality({v}) = 1
        BY FS_Singleton
      <4> QED BY <4>2, <4>3
    <3> QED BY <3>3, <3>4
  <2>6. /\ DOMAIN scores = {v.votee_id : v \in votes}
        /\ \A id \in DOMAIN scores : scores[id] = 5 * Cardinality(For(id))
    BY DEF tally_votes, VoteScore
  <2> HIDE DEF For, scores, votes
  <2>7. /\ w \in DOMAIN scores /\ scores[w] \in Nat /\ scores[w] >= 10
        /\ \A id \in DOMAIN scores : scores[id] \in Nat
        /\ \A id \in DOMAIN scores \ {w} : scores[id] <= 5
    BY <2>3, <2>4, <2>5, <2>6
  <2>8. \A id \in DOMAIN scores \ {w} : scores[id] < scores[w]
    BY <2>7
  <2>9. select_winner(scores) = w
    BY <2>1, <2>7, <2>8, SelectLeader
  <2> QED BY <1>2, <2>9 DEF w, scores, votes
<1> QED BY <1>1, <1>2

-----------------------------------------------------------------------------
(* The inductive invariant of Council. *)

\* The counters of run_debate, and the elections.
CountersOK ==
  /\ clock \in Nat /\ debates \in Nat /\ success_count \in Nat /\ edits \in Nat
  /\ initialized \in BOOLEAN
  /\ round \in Nat /\ num_rounds \in Nat /\ rounds_completed \in Nat
  /\ stage \in {"idle", "rounds", "elect", "finalize"}
  /\ election_history \in Seq(ElectionRound)

\* Before the first debate of a pool nobody has said anything.
Untouched ==
  debates = 0 =>
    /\ stage = "idle" /\ election_history = <<>>
    /\ \A i \in Index : analysts[i].responses = <<>>

\* In the first debate of a pool every active analyst has answered each round
\* so far, and the present one last.
InStep ==
  debates = 1 =>
    /\ stage = "rounds" =>
         \A i \in Active : Len(analysts[i].responses) = round
    /\ stage = "elect" =>
         \A i \in Active : /\ Len(analysts[i].responses) = round + 1
                           /\ get_response(analysts[i], round).at = clock

CouncilInv ==
  /\ ListOK /\ CountersOK
  /\ Untouched /\ InStep /\ HistoryFollowsRounds

LEMMA InitCouncilInv == CouncilInit => CouncilInv
<1> SUFFICES ASSUME CouncilInit PROVE CouncilInv
  OBVIOUS
<1>1. analysts = <<>> /\ analysts \in Seq(AnalystRecord) /\ Len(analysts) = 0
  BY EmptySeq DEF CouncilInit
<1>2. ListOK
  BY <1>1 DEF ListOK, BaseInFront, Index
<1>3. CountersOK
  BY EmptySeq DEF CouncilInit, CountersOK
<1>4. Untouched /\ InStep /\ HistoryFollowsRounds
  BY <1>1 DEF CouncilInit, Untouched, InStep, HistoryFollowsRounds, Index
<1> QED BY <1>2, <1>3, <1>4 DEF CouncilInv

LEMMA InitializeCouncilInv == CouncilInv /\ initialize_analysts => CouncilInv'
<1> SUFFICES ASSUME CouncilInv, initialize_analysts PROVE CouncilInv'
  OBVIOUS
<1>1. PICK models \in 1 .. NumModels : analysts' = NewPool(models)
  BY DEF initialize_analysts
<1>2. models \in 0 .. NumModels
  BY <1>1
<1>3. ListOK' /\ \A i \in Index' : analysts'[i].responses = <<>>
  BY <1>1, <1>2, NewPoolKeepsList
<1>4. CountersOK'
  BY EmptySeq DEF CouncilInv, initialize_analysts, CountersOK
<1>5. Untouched' /\ InStep' /\ HistoryFollowsRounds'
  BY <1>3 DEF initialize_analysts, Untouched, InStep, HistoryFollowsRounds
<1> QED BY <1>3, <1>4, <1>5 DEF CouncilInv

LEMMA OwnerWorksCouncilInv == CouncilInv /\ OwnerWorks => CouncilInv'
<1> SUFFICES ASSUME CouncilInv, OwnerWorks PROVE CouncilInv'
  OBVIOUS
<1>1. /\ stage = "idle" /\ Owner /\ clock' = clock
      /\ success_count' = success_count /\ edits' = edits + 1
      /\ UNCHANGED <<election_history, initialized, stage, round, num_rounds,
                      rounds_completed, result, debates>>
  BY DEF OwnerWorks, councilVars, Owner
<1>2. ListOK'
  BY <1>1, OwnerKeepsList DEF CouncilInv
<1>3. CountersOK' /\ InStep' /\ HistoryFollowsRounds'
  BY <1>1 DEF CouncilInv, CountersOK, InStep, HistoryFollowsRounds
<1>4. Untouched'
  BY <1>1, OwnerKeepsSilence DEF CouncilInv, Untouched
<1> QED BY <1>2, <1>3, <1>4 DEF CouncilInv

LEMMA RunDebateCouncilInv == ASSUME CouncilInv, NEW n \in DebateRounds, run_debate(n) PROVE CouncilInv'
<1>1. ListOK' /\ Index' = Index /\ Active' = Active
  BY DEF CouncilInv, run_debate, ListOK, BaseInFront, Index, Active
<1>2. CountersOK'
  BY DEF CouncilInv, run_debate, CountersOK
<1>3. Untouched'
  BY DEF CouncilInv, run_debate, CountersOK, Untouched
<1>4. debates' = 1 => debates = 0
  BY DEF CouncilInv, run_debate, CountersOK
<1>5. InStep'
  BY <1>1, <1>4, ActiveIndex DEF CouncilInv, run_debate, Untouched, InStep
<1>6. HistoryFollowsRounds'
  BY <1>4 DEF CouncilInv, run_debate, CountersOK, Untouched, HistoryFollowsRounds
<1> QED BY <1>1, <1>2, <1>3, <1>5, <1>6 DEF CouncilInv

LEMMA RunRoundCouncilInv == CouncilInv /\ RunRound => CouncilInv'
<1> SUFFICES ASSUME CouncilInv, RunRound PROVE CouncilInv'
  OBVIOUS
<1>1. /\ stage = "rounds" /\ stage' \in {"finalize", "elect"} /\ ExecuteRound
      /\ UNCHANGED <<election_history, initialized, round, num_rounds,
                      rounds_completed, result, debates>>
  BY DEF RunRound
<1>2. /\ ListOK' /\ Active' = Active /\ clock' \in Nat
      /\ \A i \in Active :
           /\ Len(analysts'[i].responses) = Len(analysts[i].responses) + 1
           /\ get_response(analysts'[i], Len(analysts[i].responses)).at = clock'
  BY <1>1, RoundKeepsList DEF CouncilInv, CountersOK
<1>3. CountersOK' /\ HistoryFollowsRounds'
  <2>1. success_count' \in Nat /\ edits' = edits
    BY <1>1 DEF ExecuteRound
  <2> QED BY <1>1, <1>2, <2>1 DEF CouncilInv, CountersOK, HistoryFollowsRounds
<1>4. Untouched'
  BY <1>1 DEF CouncilInv, Untouched
<1>5. InStep'
  BY <1>1, <1>2 DEF CouncilInv, InStep
<1> QED BY <1>2, <1>3, <1>4, <1>5 DEF CouncilInv

LEMMA HoldElectionCouncilInv == CouncilInv /\ HoldElection => CouncilInv'
<1> SUFFICES ASSUME CouncilInv, HoldElection PROVE CouncilInv'
  OBVIOUS
<1> DEFINE election ==
      [round_number |-> round,
       votes |-> generate_votes(round),
       winner_id |-> select_winner(tally_votes(generate_votes(round))),
       pruned |-> {i \in Index : AfterPruning[i].pruned}]
<1>1. /\ analysts' = AfterPruning
      /\ election_history' = Append(election_history, election)
      /\ stage = "elect" /\ stage' = "rounds"
      /\ round' = round + 1 /\ rounds_completed' = rounds_completed + 1
      /\ UNCHANGED <<clock, success_count, edits, initialized, num_rounds, debates>>
  BY DEF HoldElection, run_election_round
<1>2. election \in ElectionRound /\ election.round_number = round
  BY ElectionTyped DEF CouncilInv, CountersOK
<1> HIDE DEF election
<1>3. /\ ListOK' /\ Index' = Index /\ Active' \subseteq Active
      /\ \A i \in Index : analysts'[i].responses = analysts[i].responses
  BY <1>1, PruningKeepsList DEF CouncilInv
<1>4. /\ election_history' \in Seq(ElectionRound)
      /\ Len(election_history') = Len(election_history) + 1
      /\ \A k \in 1 .. Len(election_history) :
           election_history'[k] = election_history[k]
      /\ election_history'[Len(election_history) + 1] = election
  BY <1>1, <1>2, AppendProperties DEF CouncilInv, CountersOK
<1>5. CountersOK'
  BY <1>1, <1>4 DEF CouncilInv, CountersOK
<1>6. Untouched'
  BY <1>1 DEF CouncilInv, Untouched
<1>7. InStep'
  BY <1>1, <1>3, ActiveIndex DEF CouncilInv, InStep
<1>8. HistoryFollowsRounds'
  <2>1. /\ rounds_completed = round /\ Len(election_history) >= round
        /\ round \in Nat /\ Len(election_history) \in Nat
        /\ debates = 1 => Len(election_history) = round
    BY <1>1 DEF CouncilInv, CountersOK, HistoryFollowsRounds
  <2>2. ASSUME NEW k \in 1 .. round + 1
        PROVE  election_history'[Len(election_history) - round + k].round_number = k - 1
    <3>1. CASE k <= round
      <4>1. /\ k \in 1 .. rounds_completed
            /\ Len(election_history) - round + k \in 1 .. Len(election_history)
        BY <2>1, <3>1
      <4>2. election_history[Len(election_history) - round + k].round_number = k - 1
        BY <1>1, <2>1, <4>1 DEF CouncilInv, HistoryFollowsRounds
      <4> QED BY <1>4, <4>1, <4>2
    <3>2. CASE k = round + 1
      BY <1>2, <1>4, <2>1, <3>2
    <3> QED BY <2>1, <3>1, <3>2
  <2>3. /\ rounds_completed' = round' /\ rounds_completed' = round + 1
        /\ Len(election_history') >= rounds_completed'
        /\ debates' = 1 => Len(election_history') = rounds_completed'
        /\ Len(election_history') - rounds_completed' = Len(election_history) - round
    BY <1>1, <1>4, <2>1
  <2> QED BY <2>2, <2>3 DEF HistoryFollowsRounds
<1> QED BY <1>3, <1>5, <1>6, <1>7, <1>8 DEF CouncilInv

\* The steps of the council that touch neither the analysts nor the elections.
LEMMA QuietCouncilInv ==
  ASSUME CouncilInv,
         \/ RefuseDebate \/ DebateThrows \/ LastRoundDone \/ finalize_results
         \/ UNCHANGED allVars
  PROVE  CouncilInv'
<1>1. /\ UNCHANGED <<analysts, clock, success_count, edits, election_history,
                      initialized, round, num_rounds, rounds_completed, debates>>
      /\ \/ stage' = stage
         \/ stage' \in {"idle", "finalize"} /\ stage # "idle"
  BY DEF RefuseDebate, DebateThrows, LastRoundDone, finalize_results, allVars
<1>2. Index' = Index /\ Active' = Active
  BY <1>1 DEF Index, Active
<1>3. ListOK' /\ CountersOK'
  BY <1>1, <1>2 DEF CouncilInv, ListOK, BaseInFront, CountersOK
<1>4. Untouched' /\ InStep'
  BY <1>1, <1>2 DEF CouncilInv, Untouched, InStep
<1>5. HistoryFollowsRounds'
  BY <1>1 DEF CouncilInv, HistoryFollowsRounds
<1> QED BY <1>3, <1>4, <1>5 DEF CouncilInv

LEMMA NextCouncilInv == CouncilInv /\ [CouncilNext]_allVars => CouncilInv'
BY InitializeCouncilInv, OwnerWorksCouncilInv, RunDebateCouncilInv, RunRoundCouncilInv, HoldElectionCouncilInv,
   QuietCouncilInv DEF CouncilNext, DebateStep

-----------------------------------------------------------------------------
(* The theorems about Council. *)

\* The debates keep step with the pool: static roles in front, elections
\* numbered, answers of the round that is voted on.
THEOREM CouncilInvariant == CouncilSpec => []CouncilInv
BY InitCouncilInv, NextCouncilInv, PTL DEF CouncilSpec

\* In the first debate of a pool every election reads the answers of its own
\* round, although each list of responses is indexed by its own length.
THEOREM ElectionsReadTheirRound == CouncilSpec => []ReadsThisRound
<1>1. CouncilInv => ReadsThisRound
  BY DEF CouncilInv, InStep, ReadsThisRound
<1> QED BY <1>1, CouncilInvariant, PTL

\* The last elections of a pool are those of its present debate, one for each
\* round the debate completed and numbered like them.
THEOREM ElectionsAreNumbered == CouncilSpec => []HistoryFollowsRounds
<1>1. CouncilInv => HistoryFollowsRounds
  BY DEF CouncilInv
<1> QED BY <1>1, CouncilInvariant, PTL

\* No election prunes a static role, for any number of analysts and whatever
\* was added to the pool and erased from it before.
THEOREM StaticRolesStay == CouncilSpec => BaseNeverPruned
<1> DEFINE Kept == stage = "elect" =>
             \A i \in Index : analysts[i].base => analysts'[i] = analysts[i]
<1>1. CouncilInv /\ [CouncilNext]_allVars => Kept
  <2> SUFFICES ASSUME CouncilInv, [CouncilNext]_allVars, stage = "elect"
               PROVE  \A i \in Index : analysts[i].base => analysts'[i] = analysts[i]
    OBVIOUS
  <2>1. HoldElection \/ UNCHANGED allVars
    BY DEF CouncilNext, DebateStep, initialize_analysts, OwnerWorks, run_debate,
       RefuseDebate, RunRound, DebateThrows, LastRoundDone, finalize_results
  <2>2. CASE HoldElection
    BY <2>2, PruningKeepsList DEF CouncilInv, HoldElection, run_election_round
  <2> QED BY <2>1, <2>2 DEF allVars
<1> QED BY <1>1, CouncilInvariant, PTL DEF CouncilSpec, BaseNeverPruned

\* A pruned or completed analyst is neither asked nor pruned again in a debate,
\* does not vote and is not voted for.
THEOREM RemovedTakeNoPart == CouncilSpec => RemovedStaySilent
<1> DEFINE Silent ==
      stage # "idle" =>
        \A i \in Index : ~is_active(analysts[i]) =>
          /\ analysts'[i] = analysts[i]
          /\ election_history' # election_history =>
               \A vote \in election_history'[Len(election_history')].votes :
                 vote.voter_id # i /\ vote.votee_id # i
<1>1. CouncilInv /\ [CouncilNext]_allVars => Silent
  <2> SUFFICES ASSUME CouncilInv, [CouncilNext]_allVars, stage # "idle",
                      NEW i \in Index, ~is_active(analysts[i])
               PROVE  /\ analysts'[i] = analysts[i]
                      /\ election_history' # election_history =>
                           \A vote \in election_history'[Len(election_history')].votes :
                             vote.voter_id # i /\ vote.votee_id # i
    OBVIOUS
  <2>1. i \notin Active
    BY DEF Active
  <2>2. \/ RunRound \/ HoldElection
        \/ UNCHANGED <<analysts, election_history>>
    BY DEF CouncilNext, DebateStep, initialize_analysts, OwnerWorks, run_debate,
       RefuseDebate, DebateThrows, LastRoundDone, finalize_results, allVars
  <2>3. CASE RunRound
    <3>1. analysts'[i] = analysts[i]
      BY <2>1, <2>3, RoundKeepsList DEF CouncilInv, CountersOK, RunRound
    <3> QED BY <2>3, <3>1 DEF RunRound
  <2>4. CASE HoldElection
    <3>1. analysts'[i] = analysts[i]
      BY <2>1, <2>4, PruningKeepsList DEF CouncilInv, HoldElection, run_election_round
    <3>2. election_history'[Len(election_history')].votes = generate_votes(round)
      <4> DEFINE election ==
            [round_number |-> round,
             votes |-> generate_votes(round),
             winner_id |-> select_winner(tally_votes(generate_votes(round))),
             pruned |-> {j \in Index : AfterPruning[j].pruned}]
      <4>1. election_history' = Append(election_history, election)
        BY <2>4 DEF HoldElection, run_election_round
      <4>2. election \in ElectionRound /\ election.votes = generate_votes(round)
        BY ElectionTyped DEF CouncilInv, CountersOK
      <4> HIDE DEF election
      <4> QED BY <4>1, <4>2, AppendProperties DEF CouncilInv, CountersOK
    <3>3. \A vote \in generate_votes(round) :
            vote.voter_id \in Active /\ vote.votee_id \in Active
      BY VotesOfActive DEF CouncilInv, CountersOK
    <3> QED BY <2>1, <3>1, <3>2, <3>3
  <2> QED BY <2>2, <2>3, <2>4
<1> QED BY <1>1, CouncilInvariant, PTL DEF CouncilSpec, RemovedStaySilent

\* With at least three voters the winner of an election is the first analyst
\* with the longest answer of the round, for any number of analysts, any
\* lengths and any ties: votes, tally and selection agree on it.
THEOREM LongestAnswerWins == CouncilSpec => LongestWins
<1> DEFINE Deserved == IF {i \in Active : AnswerLength(i, round) > 0} = {} THEN NoOne
                       ELSE FirstLongest({i \in Active : AnswerLength(i, round) > 0}, round)
           Won == stage = "elect" /\ Cardinality(Active) >= 3 =>
                    election_history'[Len(election_history')].winner_id = Deserved
<1>1. CouncilInv /\ CouncilNext => Won
  <2> SUFFICES ASSUME CouncilInv, CouncilNext, stage = "elect", Cardinality(Active) >= 3
               PROVE  election_history'[Len(election_history')].winner_id = Deserved
    OBVIOUS
  <2>1. HoldElection
    BY DEF CouncilNext, DebateStep, initialize_analysts, OwnerWorks, run_debate,
       RefuseDebate, RunRound, DebateThrows, LastRoundDone, finalize_results
  <2> DEFINE election ==
        [round_number |-> round,
         votes |-> generate_votes(round),
         winner_id |-> select_winner(tally_votes(generate_votes(round))),
         pruned |-> {j \in Index : AfterPruning[j].pruned}]
  <2>2. election_history' = Append(election_history, election)
    BY <2>1 DEF HoldElection, run_election_round
  <2>3. election \in ElectionRound /\ election.winner_id = Deserved
    BY ElectionTyped, ElectionWinner DEF CouncilInv, CountersOK
  <2> HIDE DEF election, Deserved
  <2> QED BY <2>2, <2>3, AppendProperties DEF CouncilInv, CountersOK
<1>2. CouncilInv /\ [CouncilNext]_allVars =>
        [stage = "elect" /\ Cardinality(Active) >= 3 =>
           LET speakers == {i \in Active : AnswerLength(i, round) > 0}
           IN  election_history'[Len(election_history')].winner_id =
                 IF speakers = {} THEN NoOne ELSE FirstLongest(speakers, round)]_allVars
  BY <1>1
<1> QED BY <1>2, CouncilInvariant, PTL DEF CouncilSpec, LongestWins

-----------------------------------------------------------------------------
(* The responses of the winner. *)

\* One more round adds itself to the rounds with a response, or nothing.
LEMMA SpokeStep ==
  ASSUME NEW i, NEW n \in Nat
  PROVE  /\ Spoke(i, 0) = {}
         /\ Spoke(i, n + 1) = IF get_response(analysts[i], n).len > 0
                                THEN Spoke(i, n) \cup {n} ELSE Spoke(i, n)
         /\ Spoke(i, n) \subseteq 0 .. n - 1 /\ n \notin Spoke(i, n)
         /\ IsFiniteSet(Spoke(i, n)) /\ Cardinality(Spoke(i, n)) \in Nat
         /\ n \in Spoke(i, n + 1) =>
              Cardinality(Spoke(i, n + 1)) = Cardinality(Spoke(i, n)) + 1
<1>1. Spoke(i, 0) = {}
  BY DEF Spoke
<1>2. /\ Spoke(i, n) \subseteq 0 .. n - 1 /\ n \notin Spoke(i, n)
      /\ \A m \in Nat : m \in Spoke(i, n) <=> m < n /\ get_response(analysts[i], m).len > 0
      /\ \A m \in Nat : m \in Spoke(i, n + 1) <=> m < n + 1 /\ get_response(analysts[i], m).len > 0
      /\ Spoke(i, n + 1) \subseteq 0 .. n
  BY DEF Spoke
<1>3. Spoke(i, n + 1) = IF get_response(analysts[i], n).len > 0
                          THEN Spoke(i, n) \cup {n} ELSE Spoke(i, n)
  <2>1. \A m \in Nat : m < n + 1 <=> m < n \/ m = n
    OBVIOUS
  <2>2. Spoke(i, n) \subseteq Nat /\ Spoke(i, n + 1) \subseteq Nat
    BY <1>2
  <2> QED BY <1>2, <2>1, <2>2
<1>4. IsFiniteSet(Spoke(i, n)) /\ Cardinality(Spoke(i, n)) \in Nat
  <2>1. IsFiniteSet(0 .. n - 1)
    BY FS_Interval
  <2>2. IsFiniteSet(Spoke(i, n))
    BY <1>2, <2>1, FS_Subset
  <2> QED BY <2>2, FS_CardinalityType
<1>5. n \in Spoke(i, n + 1) =>
        Cardinality(Spoke(i, n + 1)) = Cardinality(Spoke(i, n)) + 1
  BY <1>2, <1>3, <1>4, FS_AddElement
<1> QED BY <1>1, <1>2, <1>3, <1>4, <1>5

\* Earlier rounds have fewer of them before, and each number of them has one.
LEMMA SpokeRanks ==
  ASSUME NEW i, NEW n \in Nat, NEW r \in Spoke(i, n)
  PROVE  /\ r \in Nat
         /\ Cardinality(Spoke(i, r)) < Cardinality(Spoke(i, n))
         /\ \A m \in 0 .. n - 1 : r < m => Cardinality(Spoke(i, r)) < Cardinality(Spoke(i, m))
<1>1. r \in 0 .. n - 1 /\ get_response(analysts[i], r).len > 0
  BY DEF Spoke
<1>2. ASSUME NEW m \in 0 .. n, r < m
      PROVE  Cardinality(Spoke(i, r)) < Cardinality(Spoke(i, m))
  <2>1. r \in Nat /\ m \in Nat
    BY <1>1
  <2>2. Spoke(i, r) \cup {r} \subseteq Spoke(i, m) /\ r \notin Spoke(i, r)
    BY <1>1, <1>2, <2>1 DEF Spoke
  <2>3. /\ IsFiniteSet(Spoke(i, r)) /\ IsFiniteSet(Spoke(i, m))
        /\ Cardinality(Spoke(i, r)) \in Nat /\ Cardinality(Spoke(i, m)) \in Nat
    BY <2>1, SpokeStep
  <2>4. Cardinality(Spoke(i, r) \cup {r}) = Cardinality(Spoke(i, r)) + 1
    BY <2>2, <2>3, FS_AddElement
  <2>5. Cardinality(Spoke(i, r) \cup {r}) <= Cardinality(Spoke(i, m))
    BY <2>2, <2>3, FS_Subset
  <2> QED BY <2>3, <2>4, <2>5
<1> QED BY <1>1, <1>2

LEMMA EveryRank ==
  ASSUME NEW i, NEW n \in Nat, NEW k \in 1 .. Cardinality(Spoke(i, n))
  PROVE  \E r \in Spoke(i, n) : Cardinality(Spoke(i, r)) = k - 1
<1> DEFINE Ranked(m) == \A l \in 1 .. Cardinality(Spoke(i, m)) :
                          \E r \in Spoke(i, m) : Cardinality(Spoke(i, r)) = l - 1
           Bad == {m \in Nat : ~Ranked(m)}
<1>1. \A m \in Nat : m \in Bad <=> ~Ranked(m)
  OBVIOUS
<1>2. Ranked(0)
  <2>1. Spoke(i, 0) = {} /\ Cardinality({}) = 0
    BY SpokeStep, FS_EmptySet
  <2>2. Cardinality(Spoke(i, 0)) = 0
    BY <2>1
  <2> QED BY <2>2
<1>3. ASSUME NEW m \in Nat, Ranked(m) PROVE Ranked(m + 1)
  <2>1. /\ Spoke(i, m + 1) = Spoke(i, m) \/ Spoke(i, m + 1) = Spoke(i, m) \cup {m}
        /\ m \in Spoke(i, m + 1) =>
              Cardinality(Spoke(i, m + 1)) = Cardinality(Spoke(i, m)) + 1
        /\ Cardinality(Spoke(i, m)) \in Nat
    BY SpokeStep
  <2>2. SUFFICES ASSUME NEW l \in 1 .. Cardinality(Spoke(i, m + 1))
                 PROVE  \E r \in Spoke(i, m + 1) : Cardinality(Spoke(i, r)) = l - 1
    OBVIOUS
  <2>3. CASE l <= Cardinality(Spoke(i, m))
    <3>1. l \in 1 .. Cardinality(Spoke(i, m))
      BY <2>1, <2>3
    <3> QED BY <1>3, <2>1, <3>1
  <2>4. CASE ~(l <= Cardinality(Spoke(i, m)))
    <3>1. m \in Spoke(i, m + 1) /\ l = Cardinality(Spoke(i, m)) + 1
      BY <2>1, <2>4
    <3> QED BY <2>1, <3>1
  <2> QED BY <2>3, <2>4
<1> HIDE DEF Ranked, Bad
<1>4. Bad = {}
  <2> SUFFICES ASSUME Bad # {} PROVE FALSE
    OBVIOUS
  <2>1. Bad \in SUBSET Nat
    BY DEF Bad
  <2>2. PICK m \in Bad : \A l \in Bad : m <= l
    BY <2>1, LeastExists
  <2>3. m \in Nat /\ m # 0 /\ ~Ranked(m)
    BY <1>1, <1>2, <2>1, <2>2
  <2>4. m - 1 \in Nat /\ m - 1 \notin Bad /\ (m - 1) + 1 = m
    BY <2>2, <2>3
  <2> QED BY <1>1, <1>3, <2>3, <2>4
<1>5. Ranked(n)
  BY <1>1, <1>4
<1> QED BY <1>5 DEF Ranked

\* The round that the k-th response told is from.
LEMMA RankIsOne ==
  ASSUME NEW i, NEW n \in Nat, NEW r \in Spoke(i, n)
  PROVE  (CHOOSE q \in Spoke(i, n) :
            Cardinality(Spoke(i, q)) = Cardinality(Spoke(i, r))) = r
<1> DEFINE x == CHOOSE q \in Spoke(i, n) :
                  Cardinality(Spoke(i, q)) = Cardinality(Spoke(i, r))
<1>1. x \in Spoke(i, n) /\ Cardinality(Spoke(i, x)) = Cardinality(Spoke(i, r))
  OBVIOUS
<1> HIDE DEF x
<1>2. /\ x \in 0 .. n - 1 /\ r \in 0 .. n - 1
      /\ Cardinality(Spoke(i, x)) \in Nat /\ Cardinality(Spoke(i, r)) \in Nat
  <2>1. x \in 0 .. n - 1 /\ r \in 0 .. n - 1
    BY <1>1, SpokeStep
  <2>2. x \in Nat /\ r \in Nat
    BY <2>1
  <2> QED BY <2>1, <2>2, SpokeStep
<1>3. ~(x < r) /\ ~(r < x)
  BY <1>1, <1>2, SpokeRanks
<1>4. x = r
  BY <1>2, <1>3
<1> QED BY <1>4 DEF x

\* One more round adds its response to those told, if it has one.
LEMMA ResponsesStep ==
  ASSUME NEW i, analysts[i] \in AnalystRecord, NEW n \in Nat
  PROVE  /\ ResponsesBefore(i, 0) = <<>>
         /\ ResponsesBefore(i, n) \in Seq(Response)
         /\ ResponsesBefore(i, n + 1) =
              IF get_response(analysts[i], n).len > 0
                THEN Append(ResponsesBefore(i, n), get_response(analysts[i], n))
                ELSE ResponsesBefore(i, n)
<1> DEFINE Chosen(m, k) == CHOOSE r \in Spoke(i, m) : Cardinality(Spoke(i, r)) = k - 1
<1>1. \A m \in Nat : get_response(analysts[i], m) \in Response
  <2>1. analysts[i].responses \in Seq(Response)
    BY DEF AnalystRecord
  <2>2. \A m \in Nat : m < Len(analysts[i].responses) =>
                        analysts[i].responses[m + 1] \in Response
    BY <2>1
  <2> QED BY <2>2 DEF get_response, NoResponse, Response
<1>2. ASSUME NEW m \in Nat
      PROVE  /\ Cardinality(Spoke(i, m)) \in Nat
             /\ \A k \in 1 .. Cardinality(Spoke(i, m)) :
                  /\ Chosen(m, k) \in Spoke(i, m)
                  /\ Cardinality(Spoke(i, Chosen(m, k))) = k - 1
  <2>1. Cardinality(Spoke(i, m)) \in Nat
    BY SpokeStep
  <2>2. ASSUME NEW k \in 1 .. Cardinality(Spoke(i, m))
        PROVE  /\ Chosen(m, k) \in Spoke(i, m)
               /\ Cardinality(Spoke(i, Chosen(m, k))) = k - 1
    <3>1. \E r \in Spoke(i, m) : Cardinality(Spoke(i, r)) = k - 1
      BY EveryRank
    <3> QED BY <3>1
  <2> QED BY <2>1, <2>2
<1>3. ASSUME NEW m \in Nat
      PROVE  /\ ResponsesBefore(i, m) \in [1 .. Cardinality(Spoke(i, m)) -> Response]
             /\ ResponsesBefore(i, m) =
                  [k \in 1 .. Cardinality(Spoke(i, m)) |-> get_response(analysts[i], Chosen(m, k))]
  <2>1. Spoke(i, m) \subseteq Nat
    BY DEF Spoke
  <2>2. ResponsesBefore(i, m) =
          [k \in 1 .. Cardinality(Spoke(i, m)) |-> get_response(analysts[i], Chosen(m, k))]
    BY DEF ResponsesBefore
  <2> HIDE DEF Chosen
  <2> QED BY <1>1, <1>2, <2>1, <2>2
<1>4. ASSUME NEW m \in Nat
      PROVE  /\ ResponsesBefore(i, m) \in Seq(Response)
             /\ Len(ResponsesBefore(i, m)) = Cardinality(Spoke(i, m))
  <2>1. Cardinality(Spoke(i, m)) \in Nat
    BY SpokeStep
  <2>2. ResponsesBefore(i, m) \in [1 .. Cardinality(Spoke(i, m)) -> Response]
    BY <1>3
  <2>3. ResponsesBefore(i, m) \in Seq(Response)
    BY <2>1, <2>2, SeqDef
  <2>4. Len(ResponsesBefore(i, m)) = Cardinality(Spoke(i, m))
    BY <2>1, <2>2, <2>3, LenProperties
  <2> QED BY <2>3, <2>4
<1>5. ResponsesBefore(i, 0) = <<>>
  <2>0. Spoke(i, 0) = {} /\ Cardinality({}) = 0
    BY SpokeStep, FS_EmptySet
  <2>1. Cardinality(Spoke(i, 0)) = 0
    BY <2>0
  <2>2. ResponsesBefore(i, 0) \in Seq(Response) /\ Len(ResponsesBefore(i, 0)) = 0
    BY <1>4, <2>1
  <2> QED BY <2>2, EmptySeq
<1>6. CASE ~(get_response(analysts[i], n).len > 0)
  <2>1. Spoke(i, n + 1) = Spoke(i, n)
    BY <1>6, SpokeStep
  <2> DEFINE Told(S) ==
        [k \in 1 .. Cardinality(S) |->
           get_response(analysts[i], CHOOSE r \in S : Cardinality(Spoke(i, r)) = k - 1)]
  <2>2. /\ ResponsesBefore(i, n + 1) = Told(Spoke(i, n + 1))
        /\ ResponsesBefore(i, n) = Told(Spoke(i, n))
    BY DEF ResponsesBefore
  <2> HIDE DEF Told
  <2>3. ResponsesBefore(i, n + 1) = ResponsesBefore(i, n)
    BY <2>1, <2>2
  <2> QED BY <1>4, <1>5, <1>6, <2>3
<1>7. CASE get_response(analysts[i], n).len > 0
  <2> DEFINE c == Cardinality(Spoke(i, n))
             new == Append(ResponsesBefore(i, n), get_response(analysts[i], n))
  <2>1. /\ Spoke(i, n + 1) = Spoke(i, n) \cup {n} /\ n \in Spoke(i, n + 1)
        /\ Cardinality(Spoke(i, n + 1)) = c + 1 /\ c \in Nat
    BY <1>7, SpokeStep
  <2>2. ASSUME NEW k \in 1 .. c PROVE Chosen(n + 1, k) = Chosen(n, k)
    <3>1. Chosen(n, k) \in Spoke(i, n + 1) /\ Cardinality(Spoke(i, Chosen(n, k))) = k - 1
      BY <1>2, <2>1
    <3> HIDE DEF Chosen
    <3>2. (CHOOSE q \in Spoke(i, n + 1) : Cardinality(Spoke(i, q)) = k - 1) = Chosen(n, k)
      BY <3>1, RankIsOne
    <3> QED BY <3>2 DEF Chosen
  <2>3. Chosen(n + 1, c + 1) = n
    <3>1. (CHOOSE q \in Spoke(i, n + 1) : Cardinality(Spoke(i, q)) = c) = n
      BY <2>1, RankIsOne
    <3>2. c = (c + 1) - 1
      BY <2>1
    <3> QED BY <3>1, <3>2
  <2> HIDE DEF Chosen
  <2>4. /\ new \in Seq(Response) /\ Len(new) = c + 1
        /\ \A k \in 1 .. c : new[k] = ResponsesBefore(i, n)[k]
        /\ new[c + 1] = get_response(analysts[i], n)
    <3>1. /\ ResponsesBefore(i, n) \in Seq(Response) /\ Len(ResponsesBefore(i, n)) = c
          /\ get_response(analysts[i], n) \in Response
      BY <1>1, <1>4
    <3> QED BY <2>1, <3>1, AppendProperties
  <2>5. /\ ResponsesBefore(i, n + 1) \in Seq(Response)
        /\ Len(ResponsesBefore(i, n + 1)) = c + 1
    BY <1>4, <2>1
  <2>6. ASSUME NEW k \in 1 .. c + 1 PROVE ResponsesBefore(i, n + 1)[k] = new[k]
    <3>1. ResponsesBefore(i, n + 1)[k] = get_response(analysts[i], Chosen(n + 1, k))
      BY <1>3, <2>1
    <3>2. CASE k \in 1 .. c
      <4>1. ResponsesBefore(i, n)[k] = get_response(analysts[i], Chosen(n, k))
        BY <1>3, <3>2
      <4> QED BY <2>2, <2>4, <3>1, <3>2, <4>1
    <3>3. CASE k = c + 1
      BY <2>3, <2>4, <3>1, <3>3
    <3>4. k \in 1 .. c \/ k = c + 1
      BY <2>1
    <3> QED BY <3>2, <3>3, <3>4
  <2>7. ResponsesBefore(i, n + 1) = new
    BY <2>4, <2>5, <2>6, SeqEqual
  <2> QED BY <1>4, <1>5, <1>7, <2>7
<1> QED BY <1>6, <1>7

-----------------------------------------------------------------------------
(* The invariant of the loops. *)

Electing == {"voters", "votees", "tally", "scores", "prune"}
Finishing == {"totals", "responses"}

\* Threads run within rounds only, and loops between them.
ControlOK ==
  /\ loop \in {"none"} \cup Electing \cup Finishing
  /\ loop \in Electing => stage = "elect"
  /\ loop \in Finishing => stage = "finalize"
  /\ caller # "outside" => stage = "rounds" /\ round < num_rounds /\ loop = "none"
  /\ round \in Nat /\ num_rounds \in Nat
  /\ outer \in Nat /\ inner \in Nat /\ best \in [id : Nat, max : Int]

\* What a loop finds when it begins.
LocalsOK ==
  /\ loop = "none" => round_votes = <<>>
  /\ loop \in {"none", "voters", "votees"} => score_map = <<>>
  /\ loop \in {"none", "totals"} => winner_responses = <<>>

\* b is the first of those in S with the greatest value above least, if any.
IsBest(S, value, least, b) ==
  IF b.id = NoOne
    THEN b.max = least /\ \A k \in S : value[k] <= least
    ELSE /\ b.id \in S /\ b.max = value[b.id] /\ b.max > least
         /\ \A k \in S : /\ value[k] <= b.max
                         /\ value[k] = b.max => b.id <= k

\* The votes of the analysts before a voter.
VotesBefore(voter) == {v \in generate_votes(round) : v.voter_id < voter}

\* A list has all of some votes, and each once.
ListsOnce(list, votes) ==
  /\ list \in Seq(Vote)
  /\ ToSet(list) = votes
  /\ \A j, k \in DOMAIN list : list[j] = list[k] => j = k

VotesOK ==
  /\ loop \in {"voters", "votees"} =>
       outer \in 1 .. Len(analysts) + 1 /\ ListsOnce(round_votes, VotesBefore(outer))
  /\ loop \in {"tally", "scores"} => ListsOnce(round_votes, generate_votes(round))

LengthsTold == [i \in Index |-> AnswerLength(i, round)]

VoteeOK ==
  loop = "votees" =>
    /\ outer \in Active /\ inner \in 1 .. Len(analysts) + 1
    /\ IsBest({i \in Active \ {outer} : i < inner}, LengthsTold, 0, best)

\* scores has the first n votes of a list.
Tallied(scores, list, n) ==
  /\ DOMAIN scores = {list[k].votee_id : k \in 1 .. n}
  /\ \A id \in DOMAIN scores :
       scores[id] = VoteScore * Cardinality({k \in 1 .. n : list[k].votee_id = id})

TallyOK ==
  loop = "tally" => outer \in 1 .. Len(round_votes) + 1 /\ Tallied(score_map, round_votes, outer - 1)

ScoresOK ==
  loop = "scores" =>
    /\ Tallied(score_map, round_votes, Len(round_votes))
    /\ IsBest({id \in DOMAIN score_map : id <= outer}, score_map, 0, best)

PruneOK ==
  loop = "prune" =>
    outer > BaseCount /\ \A i \in Index : i < outer => ~ShouldPrune(i)

Totals == [i \in Index |-> analysts[i].score]

TotalsOK ==
  loop = "totals" =>
    outer \in 1 .. Len(analysts) + 1 /\ IsBest(1 .. outer - 1, Totals, -1, best)

ResponsesOK ==
  loop = "responses" =>
    /\ best.id = FinalWinner
    /\ IF best.id = NoOne
         THEN winner_responses = <<>>
         ELSE /\ outer <= ConfigRounds
              /\ winner_responses = ResponsesBefore(best.id, outer)

LoopsOK ==
  /\ LocalsOK /\ VotesOK /\ VoteeOK /\ TallyOK /\ ScoresOK
  /\ PruneOK /\ TotalsOK /\ ResponsesOK

DebateInv == IInv /\ ControlOK /\ LoopsOK

-----------------------------------------------------------------------------
(* A scan for the first of the greatest. *)

LEMMA ScanBegins ==
  ASSUME NEW value, NEW least \in Int
  PROVE  IsBest({}, value, least, Nobody(least))
BY DEF IsBest, Nobody, NoOne

LEMMA NobodyType ==
  ASSUME NEW least \in Int
  PROVE  Nobody(least) \in [id : Nat, max : Int]
BY DEF Nobody, NoOne

\* The next candidate in order is the best so far, or the best stays.
LEMMA ScanGoesOn ==
  ASSUME NEW S \in SUBSET Nat, NEW x \in Nat, x # NoOne, \A k \in S : k < x,
         NEW value, \A k \in S \cup {x} : value[k] \in Int, NEW least \in Int,
         best \in [id : Nat, max : Int], IsBest(S, value, least, best)
  PROVE  /\ IsBest(S \cup {x}, value, least, Better(x, value[x]))
         /\ Better(x, value[x]) \in [id : Nat, max : Int]
<1>1. /\ best.id \in Nat /\ best.max \in Int /\ best.max >= least
      /\ \A k \in S : value[k] <= best.max
      /\ value[x] \in Int
  BY DEF IsBest
<1>2. CASE value[x] > best.max
  <2>1. Better(x, value[x]) = [id |-> x, max |-> value[x]]
    BY <1>2 DEF Better
  <2>2. \A k \in S : value[k] \in Int /\ value[k] < value[x]
    BY <1>1, <1>2
  <2> QED BY <1>1, <1>2, <2>1, <2>2 DEF IsBest
<1>3. CASE ~(value[x] > best.max)
  <2>1. Better(x, value[x]) = best /\ value[x] <= best.max
    BY <1>1, <1>3 DEF Better
  <2>2. CASE best.id = NoOne
    BY <2>1, <2>2 DEF IsBest
  <2>3. CASE best.id # NoOne
    <3>1. best.id \in S /\ best.id <= x
      BY <2>3 DEF IsBest
    <3> QED BY <2>1, <2>3, <3>1 DEF IsBest
  <2> QED BY <2>2, <2>3
<1> QED BY <1>2, <1>3

\* Who has the greatest of the values, when that is more than the least.
Leaders(S, value, least) ==
  {i \in S : value[i] > least /\ \A j \in S : value[j] <= value[i]}

\* When a scan is over, its best is the first of the leaders.
LEMMA ScanEnds ==
  ASSUME NEW S \in SUBSET Nat, NEW value, \A k \in S : value[k] \in Int,
         NEW least \in Int, NEW b \in [id : Nat, max : Int], IsBest(S, value, least, b)
  PROVE  b.id = IF Leaders(S, value, least) = {} THEN NoOne
                ELSE Min(Leaders(S, value, least))
<1> DEFINE leaders == Leaders(S, value, least)
<1>0. leaders = {i \in S : value[i] > least /\ \A j \in S : value[j] <= value[i]}
  BY DEF Leaders
<1> HIDE DEF leaders
<1> SUFFICES b.id = IF leaders = {} THEN NoOne ELSE Min(leaders)
  BY DEF leaders
<1>1. CASE b.id = NoOne
  <2>1. ASSUME NEW i \in leaders PROVE FALSE
    <3>1. value[i] > least /\ value[i] <= least /\ value[i] \in Int
      BY <1>0, <1>1 DEF IsBest
    <3> QED BY <3>1
  <2> QED BY <1>1, <2>1
<1>2. CASE b.id # NoOne
  <2>1. b.id \in leaders /\ \A i \in leaders : b.id <= i
    <3>1. b.id \in leaders
      BY <1>0, <1>2 DEF IsBest
    <3>2. ASSUME NEW i \in leaders PROVE b.id <= i
      <4>1. value[i] <= b.max /\ b.max <= value[i] /\ value[i] \in Int /\ b.max \in Int
        BY <1>0, <1>2 DEF IsBest
      <4>2. value[i] = b.max
        BY <4>1
      <4> QED BY <1>0, <1>2, <4>2 DEF IsBest
    <3> QED BY <3>1, <3>2
  <2>2. leaders \in SUBSET Nat
    BY <1>0
  <2>3. Min(leaders) \in leaders /\ Min(leaders) <= b.id
    BY <2>1, <2>2, MinIsIn
  <2>4. Min(leaders) = b.id
    <3>1. Min(leaders) \in Nat /\ b.id \in Nat /\ b.id <= Min(leaders)
      BY <2>1, <2>2, <2>3
    <3> QED BY <2>3, <3>1
  <2>5. leaders # {}
    BY <2>1
  <2> QED BY <2>4, <2>5
<1> QED BY <1>1, <1>2

-----------------------------------------------------------------------------
(* The votes, as they are cast. *)

LEMMA LengthsToldType ==
  ASSUME ListOK, round \in Nat
  PROVE  \A i \in Index : LengthsTold[i] = AnswerLength(i, round) /\ LengthsTold[i] \in Nat
BY AnswerLengthType DEF LengthsTold

\* When the scan for a voter is over, its best is whom the voter votes for.
LEMMA VoteeFound ==
  ASSUME ListOK, round \in Nat, NEW voter \in Index, NEW b \in [id : Nat, max : Int],
         IsBest(Active \ {voter}, LengthsTold, 0, b)
  PROVE  IF b.id = NoOne
           THEN Candidates(voter, round) = {}
           ELSE Candidates(voter, round) # {} /\ FirstLongest(Candidates(voter, round), round) = b.id
<1> DEFINE C == Candidates(voter, round)
<1>1. /\ Active \ {voter} \subseteq Index /\ Index \subseteq Nat
      /\ \A i \in C : i \in Active \ {voter} /\ AnswerLength(i, round) > 0
      /\ \A i \in Active \ {voter} : AnswerLength(i, round) > 0 => i \in C
  BY ActiveIndex DEF Candidates, ListOK, Index
<1>2. \A i \in Index : LengthsTold[i] = AnswerLength(i, round) /\ AnswerLength(i, round) \in Nat
  BY LengthsToldType
<1>3. CASE b.id = NoOne
  <2>1. ASSUME NEW i \in C PROVE FALSE
    <3>1. LengthsTold[i] <= 0 /\ LengthsTold[i] > 0 /\ LengthsTold[i] \in Nat
      BY <1>1, <1>2, <1>3 DEF IsBest
    <3> QED BY <3>1
  <2> QED BY <1>3, <2>1
<1>4. CASE b.id # NoOne
  <2>1. /\ b.id \in C /\ b.max = AnswerLength(b.id, round)
        /\ \A i \in C : /\ AnswerLength(i, round) <= AnswerLength(b.id, round)
                        /\ AnswerLength(i, round) = AnswerLength(b.id, round) => b.id <= i
    BY <1>1, <1>2, <1>4 DEF IsBest
  <2>2. C \in SUBSET Index /\ C # {}
    BY <1>1, <2>1
  <2> DEFINE x == FirstLongest(C, round)
  <2>3. /\ x \in C
        /\ \A k \in C : AnswerLength(k, round) <= AnswerLength(x, round)
        /\ \A j \in C : (\A k \in C : AnswerLength(k, round) <= AnswerLength(j, round)) => x <= j
    BY <2>2, FirstLongestIsFirst
  <2> HIDE DEF x, C
  <2>4. x <= b.id
    BY <2>1, <2>3
  <2>5. AnswerLength(x, round) = AnswerLength(b.id, round)
    <3>1. AnswerLength(x, round) \in Nat /\ AnswerLength(b.id, round) \in Nat
      BY <1>2, <2>1, <2>2, <2>3
    <3> QED BY <2>1, <2>3, <3>1
  <2>6. b.id <= x /\ x \in Nat
    BY <1>1, <2>1, <2>2, <2>3, <2>5
  <2>7. x = b.id
    BY <2>4, <2>6
  <2> QED BY <1>4, <2>2, <2>7 DEF x, C
<1> QED BY <1>3, <1>4

VoteOf(voter) ==
  [voter_id |-> voter, votee_id |-> FirstLongest(Candidates(voter, round), round),
   score |-> VoteScore]

\* A voter adds its vote to those before it, if it has one.
LEMMA VotesGrow ==
  ASSUME ListOK, round \in Nat, NEW voter \in Index
  PROVE  /\ VotesBefore(voter + 1) =
              IF voter \in Active /\ Candidates(voter, round) # {}
                THEN VotesBefore(voter) \cup {VoteOf(voter)}
                ELSE VotesBefore(voter)
         /\ VoteOf(voter) \notin VotesBefore(voter)
         /\ voter \in Active /\ Candidates(voter, round) # {} => VoteOf(voter) \in Vote
<1>1. /\ \A v \in generate_votes(round) :
           /\ v.voter_id \in Active /\ Candidates(v.voter_id, round) # {}
           /\ v = VoteOf(v.voter_id)
      /\ \A i \in Active : Candidates(i, round) # {} => VoteOf(i) \in generate_votes(round)
  BY DEF generate_votes, VoteOf
<1>2. VoteOf(voter).voter_id = voter
  BY DEF VoteOf
<1>3. voter \in Nat /\ \A v \in generate_votes(round) : v.voter_id \in Nat /\ v \in Vote
  BY VotesOfActive DEF ListOK, Index, Vote
<1>4. \A v \in generate_votes(round) : v.voter_id < voter + 1 <=> v.voter_id < voter \/ v.voter_id = voter
  BY <1>3
<1>5. VoteOf(voter) \notin VotesBefore(voter)
  BY <1>2, <1>3 DEF VotesBefore
<1>6. CASE voter \in Active /\ Candidates(voter, round) # {}
  <2>1. VoteOf(voter) \in generate_votes(round) /\ VoteOf(voter).voter_id < voter + 1
    BY <1>1, <1>2, <1>3, <1>6
  <2>2. \A v \in generate_votes(round) : v.voter_id = voter => v = VoteOf(voter)
    BY <1>1
  <2>3. VotesBefore(voter + 1) = VotesBefore(voter) \cup {VoteOf(voter)}
    BY <1>4, <2>1, <2>2 DEF VotesBefore
  <2> QED BY <1>3, <1>5, <1>6, <2>1, <2>3
<1>7. CASE ~(voter \in Active /\ Candidates(voter, round) # {})
  <2>1. \A v \in generate_votes(round) : v.voter_id # voter
    BY <1>1, <1>7
  <2>2. VotesBefore(voter + 1) = VotesBefore(voter)
    BY <1>4, <2>1 DEF VotesBefore
  <2> QED BY <1>5, <1>7, <2>2
<1> QED BY <1>6, <1>7

LEMMA VotesBeginAndEnd ==
  ASSUME ListOK, round \in Nat
  PROVE  VotesBefore(1) = {} /\ VotesBefore(Len(analysts) + 1) = generate_votes(round)
<1>1. \A v \in generate_votes(round) : v.voter_id \in 1 .. Len(analysts)
  BY VotesOfActive, ActiveIndex DEF Index
<1>2. Len(analysts) \in Nat
  BY DEF ListOK
<1>3. \A v \in generate_votes(round) : ~(v.voter_id < 1) /\ v.voter_id < Len(analysts) + 1
  BY <1>1, <1>2
<1> QED BY <1>3 DEF VotesBefore

LEMMA ListGrows ==
  ASSUME NEW list, NEW votes, ListsOnce(list, votes), NEW v \in Vote, v \notin votes
  PROVE  ListsOnce(Append(list, v), votes \cup {v})
<1> DEFINE new == Append(list, v)
<1>1. /\ list \in Seq(Vote) /\ Len(list) \in Nat /\ DOMAIN list = 1 .. Len(list)
      /\ \A k \in DOMAIN list : list[k] \in votes
      /\ \A u \in votes : \E k \in DOMAIN list : u = list[k]
  BY LenProperties DEF ListsOnce, ToSet
<1>2. /\ new \in Seq(Vote) /\ DOMAIN new = DOMAIN list \cup {Len(list) + 1}
      /\ \A k \in DOMAIN list : new[k] = list[k]
      /\ new[Len(list) + 1] = v /\ Len(list) + 1 \notin DOMAIN list
  BY <1>1, AppendProperties
<1> HIDE DEF new
<1>3. ToSet(new) = votes \cup {v}
  BY <1>1, <1>2 DEF ToSet
<1>4. \A j, k \in DOMAIN new : new[j] = new[k] => j = k
  BY <1>1, <1>2 DEF ListsOnce
<1> QED BY <1>2, <1>3, <1>4 DEF ListsOnce, new

-----------------------------------------------------------------------------
(* The tally. *)

PlacesOf(list, n, id) == {k \in 1 .. n : list[k].votee_id = id}

LEMMA PlacesCounted ==
  ASSUME NEW list, NEW n \in Nat, NEW id
  PROVE  /\ IsFiniteSet(PlacesOf(list, n, id)) /\ Cardinality(PlacesOf(list, n, id)) \in Nat
         /\ Cardinality(PlacesOf(list, n + 1, id)) =
              Cardinality(PlacesOf(list, n, id)) + (IF list[n + 1].votee_id = id THEN 1 ELSE 0)
<1>1. \A m \in Nat : IsFiniteSet(PlacesOf(list, m, id))
  <2> SUFFICES ASSUME NEW m \in Nat PROVE IsFiniteSet(PlacesOf(list, m, id))
    OBVIOUS
  <2>1. IsFiniteSet(1 .. m)
    BY FS_Interval
  <2>2. PlacesOf(list, m, id) \subseteq 1 .. m
    BY DEF PlacesOf
  <2> QED BY <2>1, <2>2, FS_Subset
<1>2. Cardinality(PlacesOf(list, n, id)) \in Nat
  BY <1>1, FS_CardinalityType
<1>3. CASE list[n + 1].votee_id = id
  <2>1. PlacesOf(list, n + 1, id) = PlacesOf(list, n, id) \cup {n + 1}
    BY <1>3 DEF PlacesOf
  <2>2. n + 1 \notin PlacesOf(list, n, id)
    BY DEF PlacesOf
  <2>3. Cardinality(PlacesOf(list, n, id) \cup {n + 1}) = Cardinality(PlacesOf(list, n, id)) + 1
    BY <1>1, <2>2, FS_AddElement
  <2> QED BY <1>1, <1>2, <1>3, <2>1, <2>3
<1>4. CASE list[n + 1].votee_id # id
  <2>1. PlacesOf(list, n + 1, id) = PlacesOf(list, n, id)
    BY <1>4 DEF PlacesOf
  <2> QED BY <1>1, <1>2, <1>4, <2>1
<1> QED BY <1>3, <1>4

LEMMA TallyBegins ==
  ASSUME NEW list
  PROVE  Tallied(<<>>, list, 0)
BY DEF Tallied

LEMMA TallyGrows ==
  ASSUME NEW scores, NEW list, NEW n \in Nat, Tallied(scores, list, n),
         NEW vote, vote = list[n + 1], vote.score = VoteScore,
         NEW new,
         new = [id \in DOMAIN scores \cup {vote.votee_id} |->
                  (IF id \in DOMAIN scores THEN scores[id] ELSE 0)
                  + (IF id = vote.votee_id THEN vote.score ELSE 0)]
  PROVE  Tallied(new, list, n + 1)
<1>1. /\ DOMAIN scores = {list[k].votee_id : k \in 1 .. n}
      /\ \A id \in DOMAIN scores : scores[id] = 5 * Cardinality(PlacesOf(list, n, id))
  BY DEF Tallied, PlacesOf, VoteScore
<1>2. DOMAIN new = {list[k].votee_id : k \in 1 .. n + 1}
  <2>1. DOMAIN new = DOMAIN scores \cup {list[n + 1].votee_id}
    OBVIOUS
  <2>2. 1 .. n + 1 = (1 .. n) \cup {n + 1}
    OBVIOUS
  <2> QED BY <1>1, <2>1, <2>2
<1>3. ASSUME NEW id \in DOMAIN new
      PROVE  new[id] = 5 * Cardinality(PlacesOf(list, n + 1, id))
  <2>1. new[id] = (IF id \in DOMAIN scores THEN scores[id] ELSE 0)
                  + (IF id = list[n + 1].votee_id THEN 5 ELSE 0)
    BY <1>3 DEF VoteScore
  <2>2. (IF id \in DOMAIN scores THEN scores[id] ELSE 0)
          = 5 * Cardinality(PlacesOf(list, n, id))
    <3>1. CASE id \in DOMAIN scores
      BY <1>1, <3>1
    <3>2. CASE id \notin DOMAIN scores
      <4>1. PlacesOf(list, n, id) = {}
        BY <1>1, <3>2 DEF PlacesOf
      <4>2. Cardinality(PlacesOf(list, n, id)) = 0
        BY <4>1, FS_EmptySet
      <4> QED BY <3>2, <4>2
    <3> QED BY <3>1, <3>2
  <2> QED BY <2>1, <2>2, PlacesCounted
<1>4. n + 1 \in Nat
  OBVIOUS
<1> QED BY <1>2, <1>3 DEF Tallied, PlacesOf, VoteScore

\* Every vote is in one place of the list: to count places is to count votes.
LEMMA TallyEnds ==
  ASSUME NEW list, NEW votes, ListsOnce(list, votes),
         NEW scores, Tallied(scores, list, Len(list))
  PROVE  /\ DOMAIN scores = DOMAIN tally_votes(votes)
         /\ \A id \in DOMAIN scores : /\ scores[id] = tally_votes(votes)[id]
                                      /\ scores[id] \in Nat
<1>1. /\ list \in Seq(Vote) /\ Len(list) \in Nat /\ DOMAIN list = 1 .. Len(list)
      /\ votes = {list[k] : k \in 1 .. Len(list)}
      /\ \A j, k \in 1 .. Len(list) : list[j] = list[k] => j = k
  BY LenProperties DEF ListsOnce, ToSet
<1>2. /\ DOMAIN scores = {list[k].votee_id : k \in 1 .. Len(list)}
      /\ \A id \in DOMAIN scores : scores[id] = 5 * Cardinality(PlacesOf(list, Len(list), id))
  BY <1>1 DEF Tallied, PlacesOf, VoteScore
<1>3. DOMAIN tally_votes(votes) = {v.votee_id : v \in votes}
  BY DEF tally_votes
<1>4. {v.votee_id : v \in votes} = {list[k].votee_id : k \in 1 .. Len(list)}
  BY <1>1
<1>5. ASSUME NEW id
      PROVE  Cardinality({v \in votes : v.votee_id = id}) = Cardinality(PlacesOf(list, Len(list), id))
  <2> DEFINE P == PlacesOf(list, Len(list), id)
             For == {v \in votes : v.votee_id = id}
             f == [k \in P |-> list[k]]
  <2>1. /\ \A k \in P : k \in 1 .. Len(list) /\ list[k] \in For
        /\ \A v \in For : \E k \in P : list[k] = v
    BY <1>1 DEF PlacesOf
  <2>2. f \in Bijection(P, For)
    <3>1. f \in [P -> For]
      BY <2>1
    <3>2. \A j, k \in P : f[j] = f[k] => j = k
      BY <1>1, <2>1
    <3>3. \A v \in For : \E k \in P : f[k] = v
      BY <2>1
    <3> QED BY <3>1, <3>2, <3>3 DEF Bijection, Injection, IsInjective, Surjection
  <2>3. IsFiniteSet(P)
    BY <1>1, PlacesCounted
  <2> HIDE DEF P, For, f
  <2>4. Cardinality(For) = Cardinality(P)
    BY <2>2, <2>3, FS_Bijection DEF ExistsBijection
  <2> QED BY <2>4 DEF P, For
<1>6. ASSUME NEW id \in DOMAIN scores
      PROVE  scores[id] = tally_votes(votes)[id] /\ scores[id] \in Nat
  <2>1. Cardinality(PlacesOf(list, Len(list), id)) \in Nat
    BY <1>1, PlacesCounted
  <2>2. tally_votes(votes)[id] = 5 * Cardinality({v \in votes : v.votee_id = id})
    BY <1>2, <1>4, <1>6 DEF tally_votes, VoteScore
  <2> QED BY <1>2, <1>5, <1>6, <2>1, <2>2
<1> QED BY <1>2, <1>3, <1>4, <1>6

\* The best of a scan of the scores is the winner of the votes.
LEMMA WinnerFound ==
  ASSUME NEW list, NEW votes \in SUBSET Vote, ListsOnce(list, votes),
         NEW scores, Tallied(scores, list, Len(list)),
         NEW b \in [id : Nat, max : Int], IsBest(DOMAIN scores, scores, 0, b)
  PROVE  b.id = select_winner(tally_votes(votes))
<1>1. /\ DOMAIN scores = DOMAIN tally_votes(votes)
      /\ \A id \in DOMAIN scores : scores[id] = tally_votes(votes)[id] /\ scores[id] \in Nat
  BY TallyEnds
<1>2. DOMAIN scores \in SUBSET Nat
  BY <1>1 DEF tally_votes, Vote
<1> DEFINE leaders == Leaders(DOMAIN scores, scores, 0)
<1>3. b.id = IF leaders = {} THEN NoOne ELSE Min(leaders)
  BY <1>1, <1>2, ScanEnds
<1>4. leaders = {i \in DOMAIN tally_votes(votes) :
                   /\ tally_votes(votes)[i] > 0
                   /\ \A j \in DOMAIN tally_votes(votes) :
                        tally_votes(votes)[j] <= tally_votes(votes)[i]}
  BY <1>1 DEF Leaders
<1> HIDE DEF leaders
<1>5. select_winner(tally_votes(votes)) = IF leaders = {} THEN NoOne ELSE Min(leaders)
  BY <1>4 DEF select_winner
<1> QED BY <1>3, <1>5

-----------------------------------------------------------------------------
(* The result. *)

LEMMA FinalWinnerType ==
  ASSUME ListOK
  PROVE  FinalWinner \in Nat /\ (FinalWinner # NoOne => FinalWinner \in Index)
<1> DEFINE leaders == {i \in Index : \A j \in Index : analysts[j].score <= analysts[i].score}
<1>1. leaders \subseteq Index /\ Index \subseteq Nat
  BY DEF ListOK, Index
<1>2. FinalWinner = IF leaders = {} THEN NoOne ELSE Min(leaders)
  BY DEF FinalWinner
<1> HIDE DEF leaders
<1>3. leaders # {} => Min(leaders) \in leaders
  BY <1>1, MinIsIn
<1> QED BY <1>1, <1>2, <1>3 DEF NoOne

\* The result of a debate is of its type.
LEMMA ResultTyped ==
  ASSUME ListOK, finalize_results
  PROVE  result' \in Result
<1> DEFINE told == IF FinalWinner = NoOne THEN <<>> ELSE WinnerResponses(FinalWinner)
           gone == {i \in Index : analysts[i].pruned}
<1>1. told \in Seq(Response)
  <2>1. CASE FinalWinner = NoOne
    BY <2>1, EmptySeq
  <2>2. CASE FinalWinner # NoOne
    <3>1. analysts[FinalWinner] \in AnalystRecord
      BY <2>2, FinalWinnerType DEF ListOK, Index
    <3>2. ResponsesBefore(FinalWinner, ConfigRounds) \in Seq(Response)
      BY <3>1, ResponsesStep
    <3> QED BY <2>2, <3>2 DEF WinnerResponses
  <2> QED BY <2>1, <2>2
<1>2. Cardinality(gone) \in Nat
  <2>1. IsFiniteSet(1 .. Len(analysts))
    BY FS_Interval DEF ListOK
  <2>2. gone \subseteq 1 .. Len(analysts)
    BY DEF Index
  <2> QED BY <2>1, <2>2, FS_Subset, FS_CardinalityType
<1>3. result' = [final_winner |-> FinalWinner, winner_responses |-> told,
                 rounds_completed |-> 0, analysts_pruned |-> Cardinality(gone)]
  BY DEF finalize_results, EmptyResult
<1> HIDE DEF told, gone
<1> QED BY <1>1, <1>2, <1>3, FinalWinnerType DEF Result

\* The state of the council is of its type in every execution.
THEOREM CouncilTypeCorrect == CouncilSpec => []CouncilTypeOK
<1>1. EmptyResult \in Result
  BY EmptySeq DEF EmptyResult, Result, NoOne
<1>2. CouncilInit => result \in Result
  BY <1>1 DEF CouncilInit
<1>3. CouncilInv /\ result \in Result /\ [CouncilNext]_allVars => (result \in Result)'
  <2> SUFFICES ASSUME CouncilInv, result \in Result, [CouncilNext]_allVars
               PROVE  result' \in Result
    OBVIOUS
  <2>1. \/ finalize_results
        \/ result' \in {result, EmptyResult}
    BY DEF CouncilNext, DebateStep, initialize_analysts, OwnerWorks, run_debate,
       RefuseDebate, RunRound, DebateThrows, HoldElection, LastRoundDone, allVars, councilVars
  <2> QED BY <1>1, <2>1, ResultTyped DEF CouncilInv
<1>4. CouncilInv /\ result \in Result => CouncilTypeOK
  BY DEF CouncilInv, ListOK, CountersOK, CouncilTypeOK
<1> QED BY <1>2, <1>3, <1>4, CouncilInvariant, PTL DEF CouncilSpec

\* The best of a scan of the totals is the winner of the debate.
LEMMA FinalWinnerFound ==
  ASSUME ListOK, NEW b \in [id : Nat, max : Int], IsBest(Index, Totals, -1, b)
  PROVE  b.id = FinalWinner
<1> DEFINE leaders == {i \in Index : \A j \in Index : analysts[j].score <= analysts[i].score}
<1>1. Index \in SUBSET Nat
  BY DEF ListOK, Index
<1>2. \A i \in Index : Totals[i] = analysts[i].score /\ Totals[i] \in Nat
  <2>1. \A i \in Index : analysts[i] \in AnalystRecord
    BY DEF ListOK, Index
  <2> QED BY <2>1 DEF Totals, AnalystRecord
<1>3. leaders = Leaders(Index, Totals, -1)
  BY <1>2 DEF Leaders
<1>4. FinalWinner = IF leaders = {} THEN NoOne ELSE Min(leaders)
  BY DEF FinalWinner
<1> HIDE DEF leaders
<1>5. -1 \in Int /\ \A i \in Index : Totals[i] \in Int
  BY <1>2
<1>6. b.id = IF leaders = {} THEN NoOne ELSE Min(leaders)
  BY <1>1, <1>3, <1>5, ScanEnds
<1> QED BY <1>4, <1>6

-----------------------------------------------------------------------------
(* Every step preserves the invariant: first those outside of the loops. *)

LEMMA BetweenRounds ==
  ASSUME IInv, caller = "outside"
  PROVE  ListOK /\ \A i \in Slot : thread[i] \notin Running
BY DEF IInv, PoolTypeOK, ThreadsFollowCaller, ListOK

\* Between rounds the list may change without a word about threads.
LEMMA BetweenRoundsIInv ==
  ASSUME IInv, caller = "outside", UNCHANGED <<clock, roundVars>>,
         ListOK', success_count' \in Nat
  PROVE  IInv'
<1> USE DEF roundVars
<1>1. PoolTypeOK' /\ BaseInFront'
  BY DEF IInv, PoolTypeOK, ListOK
<1>2. ThreadsFollowCaller'
  BY DEF IInv, ThreadsFollowCaller, ListOK
<1>3. CountBounded' /\ RoundSoFar'
  BY DEF IInv, CountBounded, RoundSoFar, Succeeded
<1> QED BY <1>1, <1>2, <1>3 DEF IInv

LEMMA BetweenLoops ==
  ASSUME loop' = "none", round_votes' = <<>>, score_map' = <<>>, winner_responses' = <<>>
  PROVE  LoopsOK'
BY DEF LoopsOK, LocalsOK, VotesOK, VoteeOK, TallyOK, ScoresOK, PruneOK, TotalsOK, ResponsesOK

LEMMA DebateBegins == DebateInit => DebateInv
<1> SUFFICES ASSUME DebateInit PROVE DebateInv
  OBVIOUS
<1>1. analysts = <<>> /\ analysts \in Seq(AnalystRecord) /\ Len(analysts) = 0
  BY EmptySeq DEF DebateInit, CouncilInit
<1>2. ListOK
  BY <1>1 DEF ListOK, BaseInFront, Index
<1>3. PoolTypeOK
  BY <1>2, EmptySeq DEF DebateInit, CouncilInit, NoRound, ListOK, PoolTypeOK, ThreadState, Slot
<1>4. ThreadsFollowCaller
  BY <1>1 DEF DebateInit, CouncilInit, NoRound, ThreadsFollowCaller, Running, Slot
<1>5. CountBounded /\ RoundSoFar
  BY DEF DebateInit, NoRound, CountBounded, RoundSoFar
<1>6. ControlOK
  BY DEF DebateInit, CouncilInit, NoRound, NoLoop, ControlOK, Electing, Finishing, NoOne
<1>7. LoopsOK
  BY DEF DebateInit, NoLoop, LoopsOK, LocalsOK, VotesOK, VoteeOK, TallyOK, ScoresOK,
         PruneOK, TotalsOK, ResponsesOK
<1> QED BY <1>2, <1>3, <1>4, <1>5, <1>6, <1>7 DEF DebateInv, IInv, ListOK

LEMMA OutsideStepDebateInv == DebateInv /\ OutsideStep => DebateInv'
<1> SUFFICES ASSUME DebateInv, OutsideStep PROVE DebateInv'
  OBVIOUS
<1>1. /\ caller = "outside" /\ loop = "none" /\ UNCHANGED <<roundVars, loopVars>>
      /\ IInv /\ ControlOK /\ LoopsOK /\ ListOK
  BY BetweenRounds DEF OutsideStep, Outside, DebateInv
<1>2. /\ ListOK' /\ success_count' \in Nat /\ clock' = clock
      /\ round' \in Nat /\ num_rounds' \in Nat
  <2>0. success_count \in Nat /\ round \in Nat /\ num_rounds \in Nat
    BY <1>1 DEF IInv, PoolTypeOK, ControlOK
  <2>1. CASE initialize_analysts
    <3>1. PICK models \in 1 .. NumModels : analysts' = NewPool(models)
      BY <2>1 DEF initialize_analysts
    <3>2. models \in 0 .. NumModels
      BY <3>1
    <3>3. ListOK'
      BY <3>1, <3>2, NewPoolKeepsList
    <3> QED BY <2>0, <2>1, <3>3 DEF initialize_analysts
  <2>2. CASE OwnerWorks
    BY <1>1, <2>0, <2>2, OwnerKeepsList DEF OwnerWorks, Owner, councilVars
  <2>3. ASSUME NEW n \in DebateRounds, run_debate(n)
        PROVE  /\ ListOK' /\ success_count' \in Nat /\ clock' = clock
               /\ round' \in Nat /\ num_rounds' \in Nat
    BY <1>1, <2>0, <2>3 DEF run_debate, ListOK, BaseInFront, Index
  <2>4. CASE RefuseDebate \/ LastRoundDone
    BY <1>1, <2>0, <2>4 DEF RefuseDebate, LastRoundDone, ListOK, BaseInFront, Index
  <2> QED BY <2>1, <2>2, <2>3, <2>4 DEF OutsideStep
<1>3. IInv'
  BY <1>1, <1>2, BetweenRoundsIInv
<1>4. ControlOK'
  BY <1>1, <1>2 DEF ControlOK, roundVars, loopVars, Electing, Finishing
<1>5. LoopsOK'
  BY <1>1, BetweenLoops DEF LoopsOK, LocalsOK, loopVars
<1> QED BY <1>3, <1>4, <1>5 DEF DebateInv

LEMMA RoundStepDebateInv == DebateInv /\ RoundStep => DebateInv'
<1> SUFFICES ASSUME DebateInv, RoundStep PROVE DebateInv'
  OBVIOUS
<1>1. IInv /\ ControlOK /\ LoopsOK
  BY DEF DebateInv
<1>2. /\ PoolNext
      /\ UNCHANGED <<round, num_rounds, loopVars>>
      /\ caller # "outside" \/ (loop = "none" /\ stage = "rounds" /\ round < num_rounds)
      /\ caller' # "outside" => stage' = stage
  <2>1. CASE CallRound
    BY <2>1 DEF CallRound, Outside, Call, councilVars, PoolNext, CallerStep
  <2>2. CASE CallerInRound
    BY <2>2 DEF CallerInRound, Start, StartTerminates, ThreadRefused, AllStarted, Join,
       councilVars, PoolNext, CallerStep
  <2>3. CASE RoundReturned \/ RoundThrew
    BY <2>3 DEF RoundReturned, Return, RoundThrew, StartThrows, ThreadRefused, PoolNext,
       CallerStep
  <2>4. ASSUME NEW i \in Slot, ThreadInRound(i)
        PROVE  /\ PoolNext /\ UNCHANGED <<stage, round, num_rounds, loopVars>>
               /\ caller # "outside"
    <3>1. Thread(i) /\ thread[i] \in Running
      BY <2>4 DEF ThreadInRound, Thread, QuerySucceeds, QueryFails, LoadCount, StoreCount, Running
    <3>2. caller # "outside"
      BY <1>1, <3>1, BetweenRounds
    <3> QED BY <2>4, <3>1, <3>2 DEF ThreadInRound, councilVars, PoolNext
  <2> QED BY <2>1, <2>2, <2>3, <2>4 DEF RoundStep
<1>3. IInv'
  BY <1>1, <1>2, NextIInv
<1>4. /\ stage = "rounds" /\ round < num_rounds /\ loop = "none"
      /\ UNCHANGED <<loop, outer, inner, best, round_votes, score_map, winner_responses>>
  BY <1>1, <1>2 DEF ControlOK, loopVars
<1>5. ControlOK'
  BY <1>1, <1>2, <1>4 DEF ControlOK, Electing, Finishing
<1>6. LoopsOK'
  BY <1>1, <1>4, BetweenLoops DEF LoopsOK, LocalsOK
<1> QED BY <1>3, <1>5, <1>6 DEF DebateInv

-----------------------------------------------------------------------------
(* The steps of an election. *)

LEMMA LoopOutside ==
  ASSUME DebateInv, loop # "none" \/ stage # "rounds"
  PROVE  /\ caller = "outside" /\ ListOK /\ Len(analysts) \in Nat
         /\ round \in Nat /\ outer \in Nat /\ inner \in Nat
         /\ best \in [id : Nat, max : Int]
<1>1. caller = "outside"
  BY DEF DebateInv, ControlOK
<1> QED BY <1>1, BetweenRounds DEF DebateInv, ControlOK, ListOK

\* A step that changes local variables alone.
LEMMA LocalStep ==
  ASSUME DebateInv, caller = "outside", NothingElse
  PROVE  /\ IInv'
         /\ UNCHANGED <<analysts, caller, stage, round, num_rounds>>
         /\ Index' = Index /\ Active' = Active
         /\ generate_votes(round)' = generate_votes(round)
         /\ LengthsTold' = LengthsTold
<1>1. UNCHANGED <<vars, analysts, caller, stage, round, num_rounds>>
  BY DEF NothingElse, allVars, roundVars, vars
<1>2. IInv'
  BY <1>1, NextIInv DEF DebateInv
<1>3. Index' = Index /\ Active' = Active
  BY <1>1 DEF Index, Active
<1>4. \A i, r : AnswerLength(i, r)' = AnswerLength(i, r)
  BY <1>1 DEF AnswerLength
<1>5. generate_votes(round)' = generate_votes(round)
  BY <1>1 DEF generate_votes, Candidates, FirstLongest, AnswerLength, Active, Index
<1>6. LengthsTold' = LengthsTold
  BY <1>1 DEF LengthsTold, AnswerLength, Index
<1> QED BY <1>1, <1>2, <1>3, <1>5, <1>6

LEMMA ListBegins == ListsOnce(<<>>, {})
<1>1. <<>> \in Seq(Vote) /\ DOMAIN <<>> = {}
  BY EmptySeq
<1> QED BY <1>1 DEF ListsOnce, ToSet

LEMMA BeginVotesDebateInv == DebateInv /\ BeginVotes => DebateInv'
<1> SUFFICES ASSUME DebateInv, BeginVotes PROVE DebateInv'
  OBVIOUS
<1>1. /\ stage = "elect" /\ loop = "none" /\ loop' = "voters" /\ outer' = 1 /\ NothingElse
      /\ UNCHANGED <<inner, best, round_votes, score_map, winner_responses>>
  BY DEF BeginVotes, Goto
<1>2. ListOK /\ Len(analysts) \in Nat /\ round \in Nat /\ caller = "outside"
  BY <1>1, LoopOutside
<1>3. /\ IInv' /\ UNCHANGED <<analysts, caller, stage, round, num_rounds>>
      /\ generate_votes(round)' = generate_votes(round)
  BY <1>1, <1>2, LocalStep
<1>4. round_votes' = <<>> /\ score_map' = <<>>
  BY <1>1 DEF DebateInv, LoopsOK, LocalsOK
<1>5. VotesOK'
  <2>1. ListsOnce(<<>>, VotesBefore(1))
    BY <1>2, VotesBeginAndEnd, ListBegins
  <2>2. ListsOnce(round_votes', {v \in generate_votes(round)' : v.voter_id < outer'})
    BY <1>1, <1>3, <1>4, <2>1 DEF VotesBefore
  <2> QED BY <1>1, <1>2, <1>3, <2>2 DEF VotesOK, VotesBefore
<1>6. LoopsOK'
  BY <1>1, <1>4, <1>5 DEF LoopsOK, LocalsOK, VoteeOK, TallyOK, ScoresOK, PruneOK,
                          TotalsOK, ResponsesOK
<1>7. ControlOK'
  BY <1>1, <1>2, <1>3 DEF DebateInv, ControlOK, Electing, Finishing
<1> QED BY <1>3, <1>6, <1>7 DEF DebateInv

LEMMA LookAtVoterDebateInv == DebateInv /\ LookAtVoter => DebateInv'
<1> SUFFICES ASSUME DebateInv, LookAtVoter PROVE DebateInv'
  OBVIOUS
<1>1. /\ loop = "voters" /\ outer \in Index /\ NothingElse
      /\ UNCHANGED <<round_votes, score_map, winner_responses>>
      /\ \/ /\ is_active(analysts[outer]) /\ loop' = "votees" /\ inner' = 1
            /\ best' = Nobody(0) /\ outer' = outer
         \/ /\ ~is_active(analysts[outer]) /\ outer' = outer + 1
            /\ UNCHANGED <<loop, inner, best>>
  BY DEF LookAtVoter, Goto
<1>2. ListOK /\ Len(analysts) \in Nat /\ round \in Nat /\ caller = "outside"
  BY <1>1, LoopOutside
<1>3. /\ IInv' /\ UNCHANGED <<analysts, caller, stage, round, num_rounds>>
      /\ generate_votes(round)' = generate_votes(round)
      /\ Active' = Active /\ LengthsTold' = LengthsTold
  BY <1>1, <1>2, LocalStep
<1>4. score_map' = <<>>
  BY <1>1 DEF DebateInv, LoopsOK, LocalsOK
<1>5. /\ outer \in 1 .. Len(analysts) + 1 /\ outer + 1 \in 1 .. Len(analysts) + 1
      /\ ListsOnce(round_votes, VotesBefore(outer))
  BY <1>1, <1>2 DEF DebateInv, LoopsOK, VotesOK, Index
<1>6. VotesOK'
  <2>1. ListsOnce(round_votes, VotesBefore(outer'))
    <3>1. CASE outer' = outer
      BY <1>5, <3>1
    <3>2. CASE ~is_active(analysts[outer]) /\ outer' = outer + 1
      <4>1. VotesBefore(outer + 1) = VotesBefore(outer)
        BY <1>1, <1>2, <3>2, VotesGrow DEF Active
      <4> QED BY <1>5, <3>2, <4>1
    <3> QED BY <1>1, <3>1, <3>2
  <2>2. ListsOnce(round_votes', {v \in generate_votes(round)' : v.voter_id < outer'})
    BY <1>1, <1>3, <2>1 DEF VotesBefore
  <2> QED BY <1>1, <1>3, <1>5, <2>2 DEF VotesOK, VotesBefore
<1>7. VoteeOK'
  <2> SUFFICES ASSUME loop' = "votees" PROVE VoteeOK'
    BY DEF VoteeOK
  <2>1. /\ outer' \in Active /\ inner' = 1 /\ best' = Nobody(0)
    BY <1>1 DEF Active
  <2>2. \A i \in Active : ~(i < 1)
    BY <1>2, ActiveIndex DEF Index
  <2>3. {i \in Active' \ {outer'} : i < inner'} = {}
    BY <1>3, <2>1, <2>2
  <2>4. IsBest({}, LengthsTold', 0, best')
    BY <2>1, ScanBegins
  <2>5. outer' \in Active' /\ inner' \in 1 .. Len(analysts') + 1
    BY <1>2, <1>3, <2>1
  <2> QED BY <2>3, <2>4, <2>5 DEF VoteeOK
<1>8. LoopsOK'
  BY <1>1, <1>4, <1>6, <1>7 DEF LoopsOK, LocalsOK, TallyOK, ScoresOK, PruneOK,
                                TotalsOK, ResponsesOK
<1>9. ControlOK'
  <2>1. /\ loop' \in {"voters", "votees"} /\ outer' \in Nat /\ inner' \in Nat
        /\ best' \in [id : Nat, max : Int]
    <3>1. /\ outer \in Nat /\ inner \in Nat /\ best \in [id : Nat, max : Int]
          /\ Nobody(0) \in [id : Nat, max : Int]
      BY <1>1, LoopOutside, NobodyType
    <3> QED BY <1>1, <3>1
  <2> QED BY <1>1, <1>2, <1>3, <2>1 DEF DebateInv, ControlOK, Electing, Finishing
<1> QED BY <1>3, <1>8, <1>9 DEF DebateInv

LEMMA LookAtVoteeDebateInv == DebateInv /\ LookAtVotee => DebateInv'
<1> SUFFICES ASSUME DebateInv, LookAtVotee PROVE DebateInv'
  OBVIOUS
<1>1. /\ loop = "votees" /\ inner \in Index /\ inner' = inner + 1 /\ NothingElse
      /\ best' = IF inner # outer /\ is_active(analysts[inner])
                   THEN Better(inner, AnswerLength(inner, round))
                   ELSE best
      /\ UNCHANGED <<loop, outer, round_votes, score_map, winner_responses>>
  BY DEF LookAtVotee
<1>2. /\ ListOK /\ Len(analysts) \in Nat /\ round \in Nat /\ caller = "outside"
      /\ outer \in Nat /\ inner \in Nat /\ best \in [id : Nat, max : Int]
  BY <1>1, LoopOutside
<1>3. /\ IInv' /\ UNCHANGED <<analysts, caller, stage, round, num_rounds>>
      /\ generate_votes(round)' = generate_votes(round)
      /\ Active' = Active /\ LengthsTold' = LengthsTold
  BY <1>1, <1>2, LocalStep
<1>4. score_map' = <<>>
  BY <1>1 DEF DebateInv, LoopsOK, LocalsOK
<1>5. VotesOK'
  BY <1>1, <1>3 DEF DebateInv, LoopsOK, VotesOK, VotesBefore
<1> DEFINE seen == {i \in Active \ {outer} : i < inner}
<1>6. outer \in Active /\ IsBest(seen, LengthsTold, 0, best)
  BY <1>1 DEF DebateInv, LoopsOK, VoteeOK
<1>7. /\ Active \subseteq Index /\ Index \subseteq Nat
      /\ inner \in 1 .. Len(analysts) /\ inner + 1 \in 1 .. Len(analysts) + 1
  BY <1>1, <1>2, ActiveIndex DEF Index
<1>8. \A i \in Active : i < inner + 1 <=> i < inner \/ i = inner
  BY <1>7
<1>9. /\ IsBest({i \in Active \ {outer} : i < inner + 1}, LengthsTold, 0, best')
      /\ best' \in [id : Nat, max : Int]
  <2>1. CASE inner # outer /\ is_active(analysts[inner])
    <3>1. inner \in Active
      BY <1>1, <2>1 DEF Active
    <3>2. {i \in Active \ {outer} : i < inner + 1} = seen \cup {inner}
      BY <1>8, <2>1, <3>1
    <3>3. /\ \A i \in Index : LengthsTold[i] \in Int
          /\ LengthsTold[inner] = AnswerLength(inner, round)
      BY <1>1, <1>2, LengthsToldType
    <3>4. /\ seen \in SUBSET Nat /\ \A k \in seen : k < inner
          /\ seen \cup {inner} \subseteq Index
      BY <1>1, <1>7
    <3> HIDE DEF seen
    <3>5. inner # NoOne /\ 0 \in Int /\ \A k \in seen \cup {inner} : LengthsTold[k] \in Int
      BY <1>7, <3>3, <3>4 DEF NoOne
    <3>6. /\ IsBest(seen \cup {inner}, LengthsTold, 0, Better(inner, LengthsTold[inner]))
          /\ Better(inner, LengthsTold[inner]) \in [id : Nat, max : Int]
      BY <1>2, <1>6, <3>4, <3>5, ScanGoesOn
    <3> QED BY <1>1, <2>1, <3>2, <3>3, <3>6
  <2>2. CASE ~(inner # outer /\ is_active(analysts[inner]))
    <3>1. inner \notin Active \ {outer}
      BY <2>2 DEF Active
    <3>2. {i \in Active \ {outer} : i < inner + 1} = seen
      BY <1>8, <3>1
    <3> QED BY <1>1, <1>2, <1>6, <2>2, <3>2
  <2> QED BY <2>1, <2>2
<1>10. VoteeOK'
  <2>1. IsBest({i \in Active' \ {outer'} : i < inner'}, LengthsTold', 0, best')
    BY <1>1, <1>3, <1>9
  <2> QED BY <1>1, <1>3, <1>6, <1>7, <2>1 DEF VoteeOK
<1>11. LoopsOK'
  BY <1>1, <1>4, <1>5, <1>10 DEF LoopsOK, LocalsOK, TallyOK, ScoresOK, PruneOK,
                                TotalsOK, ResponsesOK
<1>12. ControlOK'
  BY <1>1, <1>2, <1>3, <1>9 DEF DebateInv, ControlOK, Electing, Finishing
<1> QED BY <1>3, <1>11, <1>12 DEF DebateInv

LEMMA CastVoteDebateInv == DebateInv /\ CastVote => DebateInv'
<1> SUFFICES ASSUME DebateInv, CastVote PROVE DebateInv'
  OBVIOUS
<1>1. /\ loop = "votees" /\ inner \notin Index /\ loop' = "voters" /\ outer' = outer + 1
      /\ NothingElse
      /\ round_votes' =
           IF best.id = NoOne THEN round_votes
           ELSE Append(round_votes,
                  [voter_id |-> outer, votee_id |-> best.id, score |-> VoteScore])
      /\ UNCHANGED <<inner, best, score_map, winner_responses>>
  BY DEF CastVote, Goto
<1>2. /\ ListOK /\ Len(analysts) \in Nat /\ round \in Nat /\ caller = "outside"
      /\ outer \in Nat /\ inner \in Nat /\ best \in [id : Nat, max : Int]
  BY <1>1, LoopOutside
<1>3. /\ IInv' /\ UNCHANGED <<analysts, caller, stage, round, num_rounds>>
      /\ generate_votes(round)' = generate_votes(round)
  BY <1>1, <1>2, LocalStep
<1>4. score_map' = <<>>
  BY <1>1 DEF DebateInv, LoopsOK, LocalsOK
<1>5. /\ outer \in Active /\ inner \in 1 .. Len(analysts) + 1
      /\ IsBest({i \in Active \ {outer} : i < inner}, LengthsTold, 0, best)
      /\ ListsOnce(round_votes, VotesBefore(outer))
  BY <1>1 DEF DebateInv, LoopsOK, VoteeOK, VotesOK
<1>6. outer \in Index /\ outer + 1 \in 1 .. Len(analysts) + 1
  BY <1>2, <1>5, ActiveIndex DEF Index
<1>7. IsBest(Active \ {outer}, LengthsTold, 0, best)
  <2>1. inner = Len(analysts) + 1
    BY <1>1, <1>2, <1>5 DEF Index
  <2>2. \A i \in Active : i < inner
    BY <1>2, <2>1, ActiveIndex DEF Index
  <2>3. {i \in Active \ {outer} : i < inner} = Active \ {outer}
    BY <2>2
  <2> QED BY <1>5, <2>3
<1>8. ListsOnce(round_votes', VotesBefore(outer + 1))
  <2>1. CASE best.id = NoOne
    <3>1. Candidates(outer, round) = {}
      BY <1>2, <1>6, <1>7, <2>1, VoteeFound
    <3>2. VotesBefore(outer + 1) = VotesBefore(outer)
      BY <1>2, <1>6, <3>1, VotesGrow
    <3> QED BY <1>1, <1>5, <2>1, <3>2
  <2>2. CASE best.id # NoOne
    <3>1. /\ Candidates(outer, round) # {}
          /\ FirstLongest(Candidates(outer, round), round) = best.id
      BY <1>2, <1>6, <1>7, <2>2, VoteeFound
    <3>2. round_votes' = Append(round_votes, VoteOf(outer))
      BY <1>1, <2>2, <3>1 DEF VoteOf
    <3>3. /\ VotesBefore(outer + 1) = VotesBefore(outer) \cup {VoteOf(outer)}
          /\ VoteOf(outer) \notin VotesBefore(outer) /\ VoteOf(outer) \in Vote
      BY <1>2, <1>5, <1>6, <3>1, VotesGrow
    <3> QED BY <1>5, <3>2, <3>3, ListGrows
  <2> QED BY <2>1, <2>2
<1>9. VotesOK'
  <2>1. ListsOnce(round_votes', {v \in generate_votes(round)' : v.voter_id < outer'})
    BY <1>1, <1>3, <1>8 DEF VotesBefore
  <2> QED BY <1>1, <1>3, <1>6, <2>1 DEF VotesOK, VotesBefore
<1>10. LoopsOK'
  BY <1>1, <1>4, <1>9 DEF LoopsOK, LocalsOK, VoteeOK, TallyOK, ScoresOK, PruneOK,
                                TotalsOK, ResponsesOK
<1>11. ControlOK'
  BY <1>1, <1>2, <1>3 DEF DebateInv, ControlOK, Electing, Finishing
<1> QED BY <1>3, <1>10, <1>11 DEF DebateInv

LEMMA BeginTallyDebateInv == DebateInv /\ BeginTally => DebateInv'
<1> SUFFICES ASSUME DebateInv, BeginTally PROVE DebateInv'
  OBVIOUS
<1>1. /\ loop = "voters" /\ outer \notin Index /\ loop' = "tally" /\ outer' = 1 /\ NothingElse
      /\ UNCHANGED <<inner, best, round_votes, score_map, winner_responses>>
  BY DEF BeginTally, Goto
<1>2. /\ ListOK /\ Len(analysts) \in Nat /\ round \in Nat /\ caller = "outside"
      /\ outer \in Nat /\ inner \in Nat /\ best \in [id : Nat, max : Int]
  BY <1>1, LoopOutside
<1>3. /\ IInv' /\ UNCHANGED <<analysts, caller, stage, round, num_rounds>>
      /\ generate_votes(round)' = generate_votes(round)
  BY <1>1, <1>2, LocalStep
<1>4. /\ score_map' = <<>> /\ outer \in 1 .. Len(analysts) + 1
      /\ ListsOnce(round_votes, VotesBefore(outer))
  BY <1>1 DEF DebateInv, LoopsOK, LocalsOK, VotesOK
<1>5. VotesBefore(outer) = generate_votes(round)
  <2>1. outer = Len(analysts) + 1
    BY <1>1, <1>2, <1>4 DEF Index
  <2> QED BY <1>2, <2>1, VotesBeginAndEnd
<1>6. VotesOK'
  BY <1>1, <1>3, <1>4, <1>5 DEF VotesOK
<1>7. TallyOK'
  <2>1. Len(round_votes) \in Nat
    BY <1>4 DEF ListsOnce
  <2>2. Tallied(score_map', round_votes', outer' - 1)
    BY <1>1, <1>4, TallyBegins
  <2> QED BY <1>1, <2>1, <2>2 DEF TallyOK
<1>8. LoopsOK'
  BY <1>1, <1>6, <1>7 DEF LoopsOK, LocalsOK, VoteeOK, ScoresOK, PruneOK, TotalsOK, ResponsesOK
<1>9. ControlOK'
  BY <1>1, <1>2, <1>3 DEF DebateInv, ControlOK, Electing, Finishing
<1> QED BY <1>3, <1>8, <1>9 DEF DebateInv

LEMMA TallyVoteDebateInv == DebateInv /\ TallyVote => DebateInv'
<1> SUFFICES ASSUME DebateInv, TallyVote PROVE DebateInv'
  OBVIOUS
<1> DEFINE vote == round_votes[outer]
<1>1. /\ loop = "tally" /\ outer \in DOMAIN round_votes /\ outer' = outer + 1 /\ NothingElse
      /\ score_map' = [id \in DOMAIN score_map \cup {vote.votee_id} |->
           (IF id \in DOMAIN score_map THEN score_map[id] ELSE 0)
           + (IF id = vote.votee_id THEN vote.score ELSE 0)]
      /\ UNCHANGED <<loop, inner, best, round_votes, winner_responses>>
  BY DEF TallyVote
<1>2. /\ ListOK /\ Len(analysts) \in Nat /\ round \in Nat /\ caller = "outside"
      /\ outer \in Nat /\ inner \in Nat /\ best \in [id : Nat, max : Int]
  BY <1>1, LoopOutside
<1>3. /\ IInv' /\ UNCHANGED <<analysts, caller, stage, round, num_rounds>>
      /\ generate_votes(round)' = generate_votes(round)
  BY <1>1, <1>2, LocalStep
<1>4. /\ Tallied(score_map, round_votes, outer - 1)
      /\ ListsOnce(round_votes, generate_votes(round))
  BY <1>1 DEF DebateInv, LoopsOK, VotesOK, TallyOK
<1>5. /\ Len(round_votes) \in Nat /\ outer \in 1 .. Len(round_votes)
      /\ vote \in generate_votes(round)
  BY <1>1, <1>4 DEF ListsOnce, ToSet
<1>6. vote.score = VoteScore
  BY <1>5 DEF generate_votes
<1>7. Tallied(score_map', round_votes, outer)
  <2>1. outer - 1 \in Nat /\ (outer - 1) + 1 = outer
    BY <1>5
  <2> HIDE DEF vote
  <2>2. Tallied(score_map', round_votes, (outer - 1) + 1)
    BY <1>1, <1>4, <1>6, <2>1, TallyGrows DEF vote
  <2> QED BY <2>1, <2>2
<1>8. VotesOK'
  BY <1>1, <1>3, <1>4 DEF VotesOK
<1>9. TallyOK'
  <2>1. outer' - 1 = outer /\ outer' \in 1 .. Len(round_votes) + 1
    BY <1>1, <1>5
  <2> QED BY <1>1, <1>7, <2>1 DEF TallyOK
<1>10. LoopsOK'
  BY <1>1, <1>8, <1>9 DEF LoopsOK, LocalsOK, VoteeOK, ScoresOK, PruneOK, TotalsOK, ResponsesOK
<1>11. ControlOK'
  BY <1>1, <1>2, <1>3 DEF DebateInv, ControlOK, Electing, Finishing
<1> QED BY <1>3, <1>10, <1>11 DEF DebateInv

\* The keys of score_map are analysts, and its values numbers.
LEMMA ScoresTyped ==
  ASSUME ListOK, round \in Nat, NEW list, ListsOnce(list, generate_votes(round)),
         NEW scores, Tallied(scores, list, Len(list))
  PROVE  /\ DOMAIN scores \in SUBSET Nat /\ NoOne \notin DOMAIN scores
         /\ \A id \in DOMAIN scores : scores[id] \in Nat
<1>1. DOMAIN scores = {v.votee_id : v \in generate_votes(round)}
  BY TallyEnds DEF tally_votes
<1>2. \A v \in generate_votes(round) : v.votee_id \in 1 .. Len(analysts)
  BY VotesOfActive, ActiveIndex DEF Index
<1>3. \A id \in DOMAIN scores : id \in 1 .. Len(analysts)
  BY <1>1, <1>2
<1>4. \A id \in DOMAIN scores : scores[id] \in Nat
  BY TallyEnds
<1> QED BY <1>3, <1>4 DEF NoOne

LEMMA BeginSelectionDebateInv == DebateInv /\ BeginSelection => DebateInv'
<1> SUFFICES ASSUME DebateInv, BeginSelection PROVE DebateInv'
  OBVIOUS
<1>1. /\ loop = "tally" /\ outer \notin DOMAIN round_votes /\ loop' = "scores"
      /\ outer' = 0 /\ best' = Nobody(0) /\ NothingElse
      /\ UNCHANGED <<inner, round_votes, score_map, winner_responses>>
  BY DEF BeginSelection, Goto
<1>2. /\ ListOK /\ Len(analysts) \in Nat /\ round \in Nat /\ caller = "outside"
      /\ outer \in Nat /\ inner \in Nat /\ best \in [id : Nat, max : Int]
  BY <1>1, LoopOutside
<1>3. /\ IInv' /\ UNCHANGED <<analysts, caller, stage, round, num_rounds>>
      /\ generate_votes(round)' = generate_votes(round)
  BY <1>1, <1>2, LocalStep
<1>4. /\ outer \in 1 .. Len(round_votes) + 1
      /\ Tallied(score_map, round_votes, outer - 1)
      /\ ListsOnce(round_votes, generate_votes(round))
  BY <1>1 DEF DebateInv, LoopsOK, VotesOK, TallyOK
<1>5. Tallied(score_map, round_votes, Len(round_votes))
  <2>1. outer - 1 = Len(round_votes)
    BY <1>1, <1>2, <1>4 DEF ListsOnce
  <2> QED BY <1>4, <2>1
<1>6. VotesOK'
  BY <1>1, <1>3, <1>4 DEF VotesOK
<1>7. ScoresOK'
  <2>1. DOMAIN score_map \in SUBSET Nat /\ NoOne \notin DOMAIN score_map
    BY <1>2, <1>4, <1>5, ScoresTyped
  <2>2. \A id \in DOMAIN score_map : ~(id <= 0)
    BY <2>1 DEF NoOne
  <2>3. {id \in DOMAIN score_map' : id <= outer'} = {}
    BY <1>1, <2>2
  <2>4. IsBest({}, score_map', 0, best')
    BY <1>1, ScanBegins
  <2> QED BY <1>1, <1>5, <2>3, <2>4 DEF ScoresOK
<1>8. LoopsOK'
  BY <1>1, <1>6, <1>7 DEF LoopsOK, LocalsOK, VoteeOK, TallyOK, PruneOK, TotalsOK, ResponsesOK
<1>9. ControlOK'
  <2>1. best' \in [id : Nat, max : Int]
    BY <1>1, NobodyType
  <2> QED BY <1>1, <1>2, <1>3, <2>1 DEF DebateInv, ControlOK, Electing, Finishing
<1> QED BY <1>3, <1>8, <1>9 DEF DebateInv

LEMMA LookAtScoreDebateInv == DebateInv /\ LookAtScore => DebateInv'
<1> SUFFICES ASSUME DebateInv, LookAtScore PROVE DebateInv'
  OBVIOUS
<1> DEFINE next == Min(Later)
           seen == {id \in DOMAIN score_map : id <= outer}
<1>1. /\ loop = "scores" /\ Later # {} /\ outer' = next /\ NothingElse
      /\ best' = Better(next, score_map[next])
      /\ UNCHANGED <<loop, inner, round_votes, score_map, winner_responses>>
  BY DEF LookAtScore
<1>2. /\ ListOK /\ Len(analysts) \in Nat /\ round \in Nat /\ caller = "outside"
      /\ outer \in Nat /\ inner \in Nat /\ best \in [id : Nat, max : Int]
  BY <1>1, LoopOutside
<1>3. /\ IInv' /\ UNCHANGED <<analysts, caller, stage, round, num_rounds>>
      /\ generate_votes(round)' = generate_votes(round)
  BY <1>1, <1>2, LocalStep
<1>4. /\ Tallied(score_map, round_votes, Len(round_votes))
      /\ ListsOnce(round_votes, generate_votes(round))
      /\ IsBest(seen, score_map, 0, best)
  BY <1>1 DEF DebateInv, LoopsOK, VotesOK, ScoresOK
<1>5. /\ DOMAIN score_map \in SUBSET Nat /\ NoOne \notin DOMAIN score_map
      /\ \A id \in DOMAIN score_map : score_map[id] \in Nat
  BY <1>2, <1>4, ScoresTyped
<1>6. /\ next \in DOMAIN score_map /\ next > outer
      /\ \A id \in DOMAIN score_map : id > outer => next <= id
  <2>1. Later \in SUBSET Nat
    BY <1>5 DEF Later
  <2>2. Min(Later) \in Later /\ \A id \in Later : Min(Later) <= id
    BY <1>1, <2>1, MinIsIn
  <2> QED BY <2>2 DEF Later
<1> HIDE DEF next
<1>7. {id \in DOMAIN score_map : id <= next} = seen \cup {next}
  <2>1. \A id \in DOMAIN score_map : id <= next <=> id <= outer \/ id = next
    BY <1>2, <1>5, <1>6
  <2> QED BY <1>6, <2>1
<1>8. /\ seen \in SUBSET Nat /\ next \in Nat /\ next # NoOne
      /\ \A k \in seen : k < next
      /\ \A k \in seen \cup {next} : score_map[k] \in Int
  <2>1. \A k \in seen : k \in Nat /\ k < next
    BY <1>2, <1>5, <1>6
  <2> QED BY <1>5, <1>6, <2>1
<1> HIDE DEF seen
<1>9. IsBest(seen \cup {next}, score_map, 0, best') /\ best' \in [id : Nat, max : Int]
  <2>1. 0 \in Int
    OBVIOUS
  <2>2. /\ IsBest(seen \cup {next}, score_map, 0, Better(next, score_map[next]))
        /\ Better(next, score_map[next]) \in [id : Nat, max : Int]
    BY <1>2, <1>4, <1>8, <2>1, ScanGoesOn
  <2> QED BY <1>1, <2>2
<1>10. VotesOK'
  BY <1>1, <1>3, <1>4 DEF VotesOK
<1>11. ScoresOK'
  <2>1. IsBest({id \in DOMAIN score_map' : id <= outer'}, score_map', 0, best')
    BY <1>1, <1>7, <1>9
  <2> QED BY <1>1, <1>4, <2>1 DEF ScoresOK
<1>12. LoopsOK'
  BY <1>1, <1>10, <1>11 DEF LoopsOK, LocalsOK, VoteeOK, TallyOK, PruneOK, TotalsOK, ResponsesOK
<1>13. ControlOK'
  BY <1>1, <1>2, <1>3, <1>8, <1>9 DEF DebateInv, ControlOK, Electing, Finishing
<1> QED BY <1>3, <1>12, <1>13 DEF DebateInv

\* When the pruning begins, the votes and the winner are those of Election.
LEMMA SelectionIsOver ==
  ASSUME DebateInv, BeginPruning
  PROVE  /\ ToSet(round_votes) = generate_votes(round)
         /\ best.id = select_winner(tally_votes(generate_votes(round)))
<1>1. loop = "scores" /\ Later = {}
  BY DEF BeginPruning
<1>2. /\ ListOK /\ round \in Nat /\ outer \in Nat /\ best \in [id : Nat, max : Int]
  BY <1>1, LoopOutside
<1>3. /\ Tallied(score_map, round_votes, Len(round_votes))
      /\ ListsOnce(round_votes, generate_votes(round))
      /\ IsBest({id \in DOMAIN score_map : id <= outer}, score_map, 0, best)
  BY <1>1 DEF DebateInv, LoopsOK, VotesOK, ScoresOK
<1>4. DOMAIN score_map \in SUBSET Nat
  BY <1>2, <1>3, ScoresTyped
<1>5. {id \in DOMAIN score_map : id <= outer} = DOMAIN score_map
  <2>1. \A id \in DOMAIN score_map : id <= outer
    BY <1>1, <1>2, <1>4 DEF Later
  <2> QED BY <2>1
<1>6. generate_votes(round) \in SUBSET Vote
  BY <1>2, VotesOfActive
<1>7. best.id = select_winner(tally_votes(generate_votes(round)))
  BY <1>2, <1>3, <1>5, <1>6, WinnerFound
<1> QED BY <1>3, <1>7 DEF ListsOnce

LEMMA BeginPruningDebateInv == DebateInv /\ BeginPruning => DebateInv'
<1> SUFFICES ASSUME DebateInv, BeginPruning PROVE DebateInv'
  OBVIOUS
<1>1. /\ loop = "scores" /\ loop' = "prune" /\ outer' = BaseCount + 1 /\ NothingElse
      /\ UNCHANGED <<inner, best, round_votes, score_map, winner_responses>>
  BY DEF BeginPruning, Goto
<1>2. /\ ListOK /\ Len(analysts) \in Nat /\ round \in Nat /\ caller = "outside"
      /\ outer \in Nat /\ inner \in Nat /\ best \in [id : Nat, max : Int]
  BY <1>1, LoopOutside
<1>3. IInv' /\ UNCHANGED <<analysts, caller, stage, round, num_rounds>> /\ Index' = Index
  BY <1>1, <1>2, LocalStep
<1>4. PruneOK'
  <2>1. \A i \in Index : i \in Nat
    BY <1>2 DEF Index
  <2>2. \A i \in Index : i < BaseCount + 1 => ~(i > BaseCount)
    BY <2>1
  <2> QED BY <1>1, <1>3, <2>2 DEF PruneOK, ShouldPrune
<1>5. LoopsOK'
  BY <1>1, <1>4 DEF LoopsOK, LocalsOK, VotesOK, VoteeOK, TallyOK, ScoresOK, TotalsOK, ResponsesOK
<1>6. ControlOK'
  BY <1>1, <1>2, <1>3 DEF DebateInv, ControlOK, Electing, Finishing
<1> QED BY <1>3, <1>5, <1>6 DEF DebateInv

\* An iteration of the pruning loop brings the list nearer to what the loop
\* leaves, and does not change what that will be.
LEMMA PruneOne ==
  ASSUME ListOK, outer \in Index,
         analysts' = IF ShouldPrune(outer)
                       THEN [analysts EXCEPT ![outer] = mark_pruned(@)]
                       ELSE analysts
  PROVE  /\ ListOK' /\ Index' = Index /\ AfterPruning' = AfterPruning
         /\ \A i \in Index : i = outer \/ ~ShouldPrune(i) => ~ShouldPrune(i)'
<1>1. /\ Index = 1 .. Len(analysts) /\ analysts \in Seq(AnalystRecord)
      /\ analysts[outer] \in AnalystRecord
  BY DEF ListOK, Index
<1>2. CASE ShouldPrune(outer)
  <2> DEFINE b == mark_pruned(analysts[outer])
  <2>1. /\ b \in AnalystRecord /\ b.base = analysts[outer].base /\ ~is_active(b)
    BY <1>1 DEF mark_pruned, is_active, AnalystRecord
  <2>2. analysts' = [analysts EXCEPT ![outer] = b]
    BY <1>2
  <2> HIDE DEF b
  <2>3. ListOK'
    BY <2>1, <2>2, ReplaceKeepsList
  <2>4. /\ Index' = Index /\ analysts'[outer] = b
        /\ \A i \in Index : i # outer => analysts'[i] = analysts[i]
    BY <1>1, <2>2 DEF Index
  <2>5. /\ \A i \in Index : i = outer => ~ShouldPrune(i)'
        /\ \A i \in Index : i # outer => (ShouldPrune(i)' <=> ShouldPrune(i))
    BY <2>1, <2>4 DEF ShouldPrune
  <2>6. \A i \in Index : (IF ShouldPrune(i)' THEN mark_pruned(analysts'[i]) ELSE analysts'[i])
                       = (IF ShouldPrune(i) THEN mark_pruned(analysts[i]) ELSE analysts[i])
    BY <1>2, <2>4, <2>5 DEF b
  <2>7. AfterPruning' = AfterPruning
    BY <2>4, <2>6 DEF AfterPruning
  <2> QED BY <2>3, <2>4, <2>5, <2>7
<1>3. CASE ~ShouldPrune(outer)
  <2>1. analysts' = analysts /\ Index' = Index
    BY <1>3 DEF Index
  <2>2. \A i : ShouldPrune(i)' <=> ShouldPrune(i)
    BY <2>1 DEF ShouldPrune
  <2>3. AfterPruning' = AfterPruning
    BY <2>1, <2>2 DEF AfterPruning
  <2>4. ListOK'
    BY <2>1 DEF ListOK, BaseInFront, Index
  <2> QED BY <1>3, <2>1, <2>2, <2>3, <2>4
<1> QED BY <1>2, <1>3

LEMMA LookAtAnalystDebateInv == DebateInv /\ LookAtAnalyst => DebateInv'
<1> SUFFICES ASSUME DebateInv, LookAtAnalyst PROVE DebateInv'
  OBVIOUS
<1>1. /\ loop = "prune" /\ outer \in Index /\ outer' = outer + 1
      /\ analysts' = IF ShouldPrune(outer)
                       THEN [analysts EXCEPT ![outer] = mark_pruned(@)]
                       ELSE analysts
      /\ UNCHANGED <<clock, success_count, roundVars, caller, stage, round, num_rounds,
                     loop, inner, best, round_votes, score_map, winner_responses>>
  BY DEF LookAtAnalyst, councilVars, roundVars
<1>2. /\ ListOK /\ Len(analysts) \in Nat /\ round \in Nat /\ caller = "outside"
      /\ outer \in Nat /\ inner \in Nat /\ best \in [id : Nat, max : Int]
  BY <1>1, LoopOutside
<1>3. /\ ListOK' /\ Index' = Index
      /\ \A i \in Index : i = outer \/ ~ShouldPrune(i) => ~ShouldPrune(i)'
  BY <1>1, <1>2, PruneOne
<1>4. IInv'
  <2>1. success_count \in Nat
    BY DEF DebateInv, IInv, PoolTypeOK
  <2> QED BY <1>1, <1>2, <1>3, <2>1, BetweenRoundsIInv DEF DebateInv
<1>5. PruneOK'
  <2>1. outer > BaseCount /\ \A i \in Index : i < outer => ~ShouldPrune(i)
    BY <1>1 DEF DebateInv, LoopsOK, PruneOK
  <2>2. \A i \in Index : i \in Nat
    BY <1>2 DEF Index
  <2>3. \A i \in Index : i < outer + 1 => i < outer \/ i = outer
    BY <1>2, <2>2
  <2>4. \A i \in Index : i < outer + 1 => ~ShouldPrune(i)'
    BY <1>3, <2>1, <2>3
  <2>5. outer + 1 > BaseCount
    BY <1>2, <2>1
  <2> QED BY <1>1, <1>3, <2>4, <2>5 DEF PruneOK
<1>6. LoopsOK'
  BY <1>1, <1>5 DEF LoopsOK, LocalsOK, VotesOK, VoteeOK, TallyOK, ScoresOK, TotalsOK, ResponsesOK
<1>7. ControlOK'
  BY <1>1, <1>2 DEF DebateInv, ControlOK, Electing, Finishing
<1> QED BY <1>4, <1>6, <1>7 DEF DebateInv

\* A step that ends a debate's election or the debate itself.
LEMMA LocalsGoneDebateInv ==
  ASSUME DebateInv, caller = "outside", LocalsGone,
         UNCHANGED <<analysts, clock, success_count, num_rounds, roundVars>>,
         round' \in Nat, stage' \in {"rounds", "idle"}
  PROVE  DebateInv'
<1>1. /\ loop' = "none" /\ outer' = 0 /\ inner' = 0 /\ best' = Nobody(0)
      /\ round_votes' = <<>> /\ score_map' = <<>> /\ winner_responses' = <<>>
      /\ caller' = "outside"
  BY DEF LocalsGone, Goto, roundVars
<1>2. ListOK' /\ success_count' \in Nat
  <2>1. ListOK /\ success_count \in Nat
    BY BetweenRounds DEF DebateInv, IInv, PoolTypeOK
  <2> QED BY <2>1 DEF ListOK, BaseInFront, Index
<1>3. IInv'
  BY <1>2, BetweenRoundsIInv DEF DebateInv
<1>4. LoopsOK'
  BY <1>1, BetweenLoops
<1>5. best' \in [id : Nat, max : Int]
  BY <1>1, NobodyType
<1>6. ControlOK'
  BY <1>1, <1>5 DEF DebateInv, ControlOK, Electing, Finishing
<1> QED BY <1>3, <1>4, <1>6 DEF DebateInv

LEMMA EndsDebateInv == DebateInv /\ (EndElection \/ EndDebate) => DebateInv'
<1> SUFFICES ASSUME DebateInv, EndElection \/ EndDebate PROVE DebateInv'
  OBVIOUS
<1>1. /\ loop # "none" /\ LocalsGone
      /\ UNCHANGED <<analysts, clock, success_count, num_rounds, roundVars>>
      /\ round' \in {round, round + 1} /\ stage' \in {"rounds", "idle"}
  BY DEF EndElection, EndDebate
<1>2. caller = "outside" /\ round \in Nat
  BY <1>1, LoopOutside
<1> QED BY <1>1, <1>2, LocalsGoneDebateInv

-----------------------------------------------------------------------------
(* The steps of finalize_results. *)

LEMMA TotalsTyped ==
  ASSUME ListOK
  PROVE  \A i \in Index : Totals[i] = analysts[i].score /\ Totals[i] \in Nat
<1>1. \A i \in Index : analysts[i] \in AnalystRecord
  BY DEF ListOK, Index
<1> QED BY <1>1 DEF Totals, AnalystRecord

LEMMA BeginFinalDebateInv == DebateInv /\ BeginFinal => DebateInv'
<1> SUFFICES ASSUME DebateInv, BeginFinal PROVE DebateInv'
  OBVIOUS
<1>1. /\ stage = "finalize" /\ loop = "none" /\ loop' = "totals" /\ outer' = 1
      /\ best' = Nobody(-1) /\ NothingElse
      /\ UNCHANGED <<inner, round_votes, score_map, winner_responses>>
  BY DEF BeginFinal, Goto
<1>2. /\ ListOK /\ Len(analysts) \in Nat /\ round \in Nat /\ caller = "outside"
      /\ inner \in Nat
  BY <1>1, LoopOutside
<1>3. IInv' /\ UNCHANGED <<analysts, caller, stage, round, num_rounds>>
  BY <1>1, <1>2, LocalStep
<1>4. winner_responses' = <<>>
  BY <1>1 DEF DebateInv, LoopsOK, LocalsOK
<1>5. TotalsOK'
  <2>1. -1 \in Int /\ 1 .. 1 - 1 = {}
    OBVIOUS
  <2>2. IsBest(1 .. outer' - 1, Totals', -1, best')
    BY <1>1, <2>1, ScanBegins
  <2> QED BY <1>1, <1>2, <1>3, <2>2 DEF TotalsOK
<1>6. LoopsOK'
  BY <1>1, <1>4, <1>5 DEF LoopsOK, LocalsOK, VotesOK, VoteeOK, TallyOK, ScoresOK, PruneOK, ResponsesOK
<1>7. ControlOK'
  <2>1. -1 \in Int
    OBVIOUS
  <2>2. best' \in [id : Nat, max : Int]
    BY <1>1, <2>1, NobodyType
  <2> QED BY <1>1, <1>2, <1>3, <2>2 DEF DebateInv, ControlOK, Electing, Finishing
<1> QED BY <1>3, <1>6, <1>7 DEF DebateInv

LEMMA LookAtTotalDebateInv == DebateInv /\ LookAtTotal => DebateInv'
<1> SUFFICES ASSUME DebateInv, LookAtTotal PROVE DebateInv'
  OBVIOUS
<1>1. /\ loop = "totals" /\ outer \in Index /\ outer' = outer + 1 /\ NothingElse
      /\ best' = Better(outer, analysts[outer].score)
      /\ UNCHANGED <<loop, inner, round_votes, score_map, winner_responses>>
  BY DEF LookAtTotal
<1>2. /\ ListOK /\ Len(analysts) \in Nat /\ round \in Nat /\ caller = "outside"
      /\ inner \in Nat /\ best \in [id : Nat, max : Int]
  BY <1>1, LoopOutside
<1>3. IInv' /\ UNCHANGED <<analysts, caller, stage, round, num_rounds>> /\ Index' = Index
  BY <1>1, <1>2, LocalStep
<1>4. IsBest(1 .. outer - 1, Totals, -1, best) /\ winner_responses' = <<>>
  BY <1>1 DEF DebateInv, LoopsOK, TotalsOK, LocalsOK
<1>5. /\ outer \in 1 .. Len(analysts) /\ Index = 1 .. Len(analysts)
      /\ \A i \in Index : Totals[i] = analysts[i].score /\ Totals[i] \in Nat
  BY <1>1, <1>2, TotalsTyped DEF Index
<1> DEFINE seen == 1 .. outer - 1
<1>6. /\ seen \in SUBSET Nat /\ seen \cup {outer} = 1 .. outer /\ outer # NoOne
      /\ seen \cup {outer} \subseteq Index /\ \A k \in seen : k < outer
      /\ outer \in Nat /\ -1 \in Int
  BY <1>5 DEF NoOne
<1>7. \A k \in seen \cup {outer} : Totals[k] \in Int
  BY <1>5, <1>6
<1> HIDE DEF seen
<1>8. /\ IsBest(1 .. outer, Totals, -1, best')
      /\ best' \in [id : Nat, max : Int]
  <2>1. IsBest(seen, Totals, -1, best)
    BY <1>4 DEF seen
  <2>2. /\ IsBest(seen \cup {outer}, Totals, -1, Better(outer, Totals[outer]))
        /\ Better(outer, Totals[outer]) \in [id : Nat, max : Int]
    BY <1>2, <1>6, <1>7, <2>1, ScanGoesOn
  <2> QED BY <1>1, <1>5, <1>6, <2>2
<1>9. TotalsOK'
  <2>1. Totals' = Totals
    BY <1>3 DEF Totals
  <2>2. 1 .. outer' - 1 = 1 .. outer /\ outer' \in 1 .. Len(analysts) + 1
    BY <1>1, <1>2, <1>5
  <2>3. IsBest(1 .. outer' - 1, Totals', -1, best')
    BY <1>8, <2>1, <2>2
  <2> QED BY <1>3, <2>2, <2>3 DEF TotalsOK
<1>10. LoopsOK'
  BY <1>1, <1>4, <1>9 DEF LoopsOK, LocalsOK, VotesOK, VoteeOK, TallyOK, ScoresOK, PruneOK, ResponsesOK
<1>11. ControlOK'
  BY <1>1, <1>2, <1>3, <1>6, <1>8 DEF DebateInv, ControlOK, Electing, Finishing
<1> QED BY <1>3, <1>10, <1>11 DEF DebateInv

LEMMA BeginResponsesDebateInv == DebateInv /\ BeginResponses => DebateInv'
<1> SUFFICES ASSUME DebateInv, BeginResponses PROVE DebateInv'
  OBVIOUS
<1>1. /\ loop = "totals" /\ outer \notin Index /\ loop' = "responses" /\ outer' = 0
      /\ NothingElse
      /\ UNCHANGED <<inner, best, round_votes, score_map, winner_responses>>
  BY DEF BeginResponses, Goto
<1>2. /\ ListOK /\ Len(analysts) \in Nat /\ round \in Nat /\ caller = "outside"
      /\ inner \in Nat /\ outer \in Nat /\ best \in [id : Nat, max : Int]
  BY <1>1, LoopOutside
<1>3. IInv' /\ UNCHANGED <<analysts, caller, stage, round, num_rounds>> /\ Index' = Index
  BY <1>1, <1>2, LocalStep
<1>4. /\ outer \in 1 .. Len(analysts) + 1
      /\ IsBest(1 .. outer - 1, Totals, -1, best) /\ winner_responses = <<>>
  BY <1>1 DEF DebateInv, LoopsOK, TotalsOK, LocalsOK
<1>5. best.id = FinalWinner
  <2>1. 1 .. outer - 1 = Index
    BY <1>1, <1>2, <1>4 DEF Index
  <2>2. IsBest(Index, Totals, -1, best)
    BY <1>4, <2>1
  <2> QED BY <1>2, <2>2, FinalWinnerFound
<1>6. ResponsesOK'
  <2>1. FinalWinner' = FinalWinner
    BY <1>3 DEF FinalWinner
  <2>2. best.id # NoOne => ResponsesBefore(best.id, 0) = <<>>
    <3> SUFFICES ASSUME best.id # NoOne PROVE ResponsesBefore(best.id, 0) = <<>>
      OBVIOUS
    <3>1. analysts[best.id] \in AnalystRecord
      BY <1>2, <1>5, FinalWinnerType DEF ListOK, Index
    <3> QED BY <3>1, ResponsesStep
  <2>3. ResponsesBefore(best.id, 0)' = ResponsesBefore(best.id, 0)
    BY <1>1, <1>3 DEF ResponsesBefore, Spoke
  <2>4. best' = best /\ best'.id = FinalWinner'
    BY <1>1, <1>5, <2>1
  <2> QED BY <1>1, <1>4, <2>2, <2>3, <2>4 DEF ResponsesOK
<1>7. LoopsOK'
  BY <1>1, <1>6 DEF LoopsOK, LocalsOK, VotesOK, VoteeOK, TallyOK, ScoresOK, PruneOK, TotalsOK
<1>8. ControlOK'
  BY <1>1, <1>2, <1>3 DEF DebateInv, ControlOK, Electing, Finishing
<1> QED BY <1>3, <1>7, <1>8 DEF DebateInv

LEMMA LookAtResponseDebateInv == DebateInv /\ LookAtResponse => DebateInv'
<1> SUFFICES ASSUME DebateInv, LookAtResponse PROVE DebateInv'
  OBVIOUS
<1> DEFINE response == get_response(analysts[best.id], outer)
<1>1. /\ loop = "responses" /\ best.id # NoOne /\ outer < ConfigRounds /\ outer' = outer + 1
      /\ winner_responses' = IF response.len > 0 THEN Append(winner_responses, response)
                                                  ELSE winner_responses
      /\ NothingElse /\ UNCHANGED <<loop, inner, best, round_votes, score_map>>
  BY DEF LookAtResponse
<1>2. /\ ListOK /\ Len(analysts) \in Nat /\ round \in Nat /\ caller = "outside"
      /\ inner \in Nat /\ outer \in Nat /\ best \in [id : Nat, max : Int]
  BY <1>1, LoopOutside
<1>3. IInv' /\ UNCHANGED <<analysts, caller, stage, round, num_rounds>> /\ Index' = Index
  BY <1>1, <1>2, LocalStep
<1>4. best.id = FinalWinner /\ winner_responses = ResponsesBefore(best.id, outer)
  BY <1>1 DEF DebateInv, LoopsOK, ResponsesOK
<1>5. winner_responses' = ResponsesBefore(best.id, outer + 1)
  <2>1. analysts[best.id] \in AnalystRecord
    BY <1>1, <1>2, <1>4, FinalWinnerType DEF ListOK, Index
  <2> QED BY <1>1, <1>2, <1>4, <2>1, ResponsesStep
<1>6. ResponsesOK'
  <2>1. FinalWinner' = FinalWinner
    BY <1>3 DEF FinalWinner
  <2>2. \A i, n : ResponsesBefore(i, n)' = ResponsesBefore(i, n)
    BY <1>3 DEF ResponsesBefore, Spoke
  <2>3. best' = best /\ outer' <= ConfigRounds
    BY <1>1, <1>2
  <2>4. winner_responses' = ResponsesBefore(best.id, outer)'
    BY <1>1, <1>5, <2>2
  <2> QED BY <1>1, <1>4, <2>1, <2>3, <2>4 DEF ResponsesOK
<1>7. LoopsOK'
  BY <1>1, <1>6 DEF LoopsOK, LocalsOK, VotesOK, VoteeOK, TallyOK, ScoresOK, PruneOK, TotalsOK
<1>8. ControlOK'
  BY <1>1, <1>2, <1>3 DEF DebateInv, ControlOK, Electing, Finishing
<1> QED BY <1>3, <1>7, <1>8 DEF DebateInv

LEMMA NextDebateInv == DebateInv /\ [DebateNext]_debateVars => DebateInv'
<1> SUFFICES ASSUME DebateInv, [DebateNext]_debateVars PROVE DebateInv'
  OBVIOUS
<1>1. CASE ElectionStep
  BY <1>1, BeginVotesDebateInv, LookAtVoterDebateInv, LookAtVoteeDebateInv,
     CastVoteDebateInv, BeginTallyDebateInv, TallyVoteDebateInv,
     BeginSelectionDebateInv, LookAtScoreDebateInv, BeginPruningDebateInv,
     LookAtAnalystDebateInv, EndsDebateInv DEF ElectionStep
<1>2. CASE FinalStep
  BY <1>2, BeginFinalDebateInv, LookAtTotalDebateInv, BeginResponsesDebateInv,
     LookAtResponseDebateInv, EndsDebateInv DEF FinalStep
<1>3. CASE UNCHANGED debateVars
  <2>1. UNCHANGED <<allVars, roundVars, loopVars, vars>>
    BY <1>3 DEF debateVars, allVars, roundVars, vars
  <2>2. IInv'
    BY <2>1, NextIInv DEF DebateInv
  <2>3. ControlOK'
    BY <2>1 DEF DebateInv, ControlOK, allVars, roundVars, loopVars, Electing, Finishing
  <2>4. LoopsOK'
    <3>1. UNCHANGED <<analysts, round, loop, outer, inner, best, round_votes, score_map,
                      winner_responses>>
      BY <2>1 DEF allVars, loopVars
    <3>2. Index' = Index /\ Active' = Active /\ LengthsTold' = LengthsTold
      BY <3>1 DEF Index, Active, LengthsTold, AnswerLength
    <3>3. generate_votes(round)' = generate_votes(round)
      BY <3>1 DEF generate_votes, Candidates, FirstLongest, AnswerLength, Active, Index
    <3>4. LocalsOK' /\ VotesOK' /\ VoteeOK' /\ TallyOK' /\ ScoresOK'
      BY <3>1, <3>2, <3>3
      DEF DebateInv, LoopsOK, LocalsOK, VotesOK, VotesBefore, VoteeOK, TallyOK, ScoresOK
    <3>5. PruneOK'
      BY <3>1, <3>2 DEF DebateInv, LoopsOK, PruneOK, ShouldPrune
    <3>6. Totals' = Totals /\ FinalWinner' = FinalWinner
      BY <3>1, <3>2 DEF Totals, FinalWinner
    <3>7. \A i, n : ResponsesBefore(i, n)' = ResponsesBefore(i, n)
      BY <3>1 DEF ResponsesBefore, Spoke
    <3>8. TotalsOK' /\ ResponsesOK'
      BY <3>1, <3>6, <3>7 DEF DebateInv, LoopsOK, TotalsOK, ResponsesOK
    <3> QED BY <3>4, <3>5, <3>8 DEF LoopsOK
  <2> QED BY <2>2, <2>3, <2>4 DEF DebateInv
<1> QED BY <1>1, <1>2, <1>3, OutsideStepDebateInv, RoundStepDebateInv DEF DebateNext

\* What each loop of a debate has done so far holds in every state of it.
THEOREM DebateInvariant == DebateSpec => []DebateInv
BY DebateBegins, NextDebateInv, PTL DEF DebateSpec

\* In the rounds of a debate, between which elections prune analysts, the pool
\* stays well typed, the racy count decides as it should, each active analyst
\* is asked once, and no thread is left when the election begins.
THEOREM DebateRoundsHold ==
  DebateSpec => [](PoolTypeOK /\ CountDecides /\ AskedOnce /\ NoThreadOutlivesRound)
<1>1. DebateInv => IInv
  BY DEF DebateInv
<1>2. IInv => PoolTypeOK /\ CountDecides /\ AskedOnce /\ NoThreadOutlivesRound
  BY RoundAsksOnce
  DEF IInv, CountBounded, CountDecides, ThreadsFollowCaller, NoThreadOutlivesRound
<1> QED BY <1>1, <1>2, DebateInvariant, PTL

-----------------------------------------------------------------------------
(* Threads and loops implement the debates of Council. *)

\* Operators without variables mean the same in the instance as here.
LEMMA SameInOneStep ==
  /\ \A n : OneStep!NewPool(n) = NewPool(n)
  /\ \A b : OneStep!NewAnalyst(b) = NewAnalyst(b)
  /\ \A s, i : OneStep!RemoveAt(s, i) = RemoveAt(s, i)
  /\ \A S : OneStep!Cardinality(S) = Cardinality(S) /\ OneStep!Min(S) = Min(S)
  /\ OneStep!QueryFailed = QueryFailed /\ OneStep!Outcome = Outcome
  /\ OneStep!NoOne = NoOne /\ OneStep!EmptyResult = EmptyResult
  /\ OneStep!VoteScore = VoteScore
  /\ \A a : /\ OneStep!is_active(a) = is_active(a)
            /\ OneStep!record_proposal_adopted(a) = record_proposal_adopted(a)
            /\ OneStep!record_challenge_won(a) = record_challenge_won(a)
            /\ OneStep!mark_pruned(a) = mark_pruned(a)
            /\ OneStep!mark_complete(a) = mark_complete(a)
            /\ \A r : OneStep!get_response(a, r) = get_response(a, r)
  /\ \A a, o, n : OneStep!Asked(a, o, n) = Asked(a, o, n)
<1>1. \A a, o, n : OneStep!Asked(a, o, n) = Asked(a, o, n)
  BY DEF OneStep!Asked, Asked, OneStep!Answered, Answered, OneStep!Failed, Failed,
         OneStep!record_round_activity, record_round_activity,
         OneStep!push_response, push_response, OneStep!QueryFailed, QueryFailed
<1>2. \A n : OneStep!NewPool(n) = NewPool(n)
  BY DEF OneStep!NewPool, NewPool, OneStep!BaseSize, BaseSize,
         OneStep!NewAnalyst, NewAnalyst
<1>3. \A s, i : OneStep!RemoveAt(s, i) = RemoveAt(s, i)
  BY DEF OneStep!RemoveAt, RemoveAt
<1>4. \A a : /\ OneStep!is_active(a) = is_active(a)
            /\ OneStep!record_proposal_adopted(a) = record_proposal_adopted(a)
            /\ OneStep!record_challenge_won(a) = record_challenge_won(a)
            /\ OneStep!mark_pruned(a) = mark_pruned(a)
            /\ OneStep!mark_complete(a) = mark_complete(a)
            /\ \A r : OneStep!get_response(a, r) = get_response(a, r)
  BY DEF OneStep!is_active, is_active,
         OneStep!record_proposal_adopted, record_proposal_adopted,
         OneStep!record_challenge_won, record_challenge_won,
         OneStep!ScoreAdopted, ScoreAdopted,
         OneStep!ScoreChallengeWon, ScoreChallengeWon,
         OneStep!mark_pruned, mark_pruned, OneStep!mark_complete, mark_complete,
         OneStep!get_response, get_response, OneStep!NoResponse, NoResponse
<1>5. \A S : OneStep!Cardinality(S) = Cardinality(S) /\ OneStep!Min(S) = Min(S)
  BY DEF OneStep!Cardinality, Cardinality, OneStep!Min, Min
<1>6. OneStep!NoOne = NoOne /\ OneStep!EmptyResult = EmptyResult
  BY DEF OneStep!NoOne, NoOne, OneStep!EmptyResult, EmptyResult
<1> QED
  BY <1>1, <1>2, <1>3, <1>4, <1>5, <1>6
  DEF OneStep!NewAnalyst, NewAnalyst, OneStep!QueryFailed, QueryFailed,
      OneStep!Outcome, Outcome, OneStep!VoteScore, VoteScore

AnalystsSeen ==
  IF caller # "outside" THEN before ELSE IF Pruning THEN AfterPruning ELSE analysts

ClockSeen == IF caller # "outside" THEN clock - 1 ELSE clock

HistorySeen ==
  IF Pruning
    THEN Append(election_history,
           [Elected EXCEPT !.pruned = {i \in Index : AfterPruning[i].pruned}])
    ELSE election_history

StageSeen == IF Pruning THEN "rounds" ELSE stage
RoundSeen == IF Pruning THEN round + 1 ELSE round
CompletedSeen == IF Pruning THEN rounds_completed + 1 ELSE rounds_completed

\* What Council sees, outside of rounds and prunings, is what there is.
LEMMA SeenAsIs ==
  ASSUME caller = "outside", loop # "prune"
  PROVE  /\ AnalystsSeen = analysts /\ ClockSeen = clock /\ HistorySeen = election_history
         /\ StageSeen = stage /\ RoundSeen = round /\ CompletedSeen = rounds_completed
BY DEF AnalystsSeen, ClockSeen, HistorySeen, StageSeen, RoundSeen, CompletedSeen, Pruning

LEMMA SeenAsIsNext ==
  ASSUME caller' = "outside", loop' # "prune"
  PROVE  /\ AnalystsSeen' = analysts' /\ ClockSeen' = clock'
         /\ HistorySeen' = election_history' /\ StageSeen' = stage'
         /\ RoundSeen' = round' /\ CompletedSeen' = rounds_completed'
BY DEF AnalystsSeen, ClockSeen, HistorySeen, StageSeen, RoundSeen, CompletedSeen, Pruning

LEMMA OutsideIsOneStep ==
  ASSUME DebateInv, OutsideStep
  PROVE  OneStep!CouncilNext
<1> USE DEF AnalystsSeen, ClockSeen, HistorySeen, StageSeen, RoundSeen, CompletedSeen
<1>1. caller = "outside" /\ loop = "none" /\ caller' = "outside" /\ loop' = "none"
  BY DEF OutsideStep, Outside, roundVars, loopVars
<1>2. /\ AnalystsSeen = analysts /\ ClockSeen = clock /\ HistorySeen = election_history
      /\ StageSeen = stage /\ RoundSeen = round /\ CompletedSeen = rounds_completed
      /\ AnalystsSeen' = analysts' /\ ClockSeen' = clock'
      /\ HistorySeen' = election_history' /\ StageSeen' = stage'
      /\ RoundSeen' = round' /\ CompletedSeen' = rounds_completed'
  <2>1. loop # "prune" /\ loop' # "prune"
    BY <1>1
  <2> QED BY <1>1, <2>1, SeenAsIs, SeenAsIsNext
<1>3. CASE initialize_analysts
  <2>1. OneStep!initialize_analysts
    BY <1>2, <1>3, SameInOneStep DEF initialize_analysts, OneStep!initialize_analysts
  <2> QED BY <2>1 DEF OneStep!CouncilNext
<1>4. CASE OwnerWorks
  <2>1. OneStep!Index = Index
    BY <1>2 DEF OneStep!Index, Index
  <2>2. add_analyst => OneStep!add_analyst
    BY <1>2, SameInOneStep DEF add_analyst, OneStep!add_analyst
  <2>3. \A i \in Index :
          /\ remove_analyst(i) => OneStep!remove_analyst(i)
          /\ ProposalAdopted(i) => OneStep!ProposalAdopted(i)
          /\ ChallengeWon(i) => OneStep!ChallengeWon(i)
          /\ MarkPruned(i) => OneStep!MarkPruned(i)
          /\ MarkComplete(i) => OneStep!MarkComplete(i)
    BY <1>2, SameInOneStep
    DEF remove_analyst, ProposalAdopted, ChallengeWon, MarkPruned,
        MarkComplete, OneStep!remove_analyst, OneStep!ProposalAdopted,
        OneStep!ChallengeWon, OneStep!MarkPruned, OneStep!MarkComplete
  <2>4. OneStep!Owner
    BY <1>2, <1>4, <2>1, <2>2, <2>3 DEF OwnerWorks, Owner, OneStep!Owner
  <2>5. OneStep!OwnerWorks
    BY <1>2, <1>4, <2>4 DEF OwnerWorks, OneStep!OwnerWorks, councilVars, OneStep!councilVars
  <2> QED BY <2>5 DEF OneStep!CouncilNext
<1>5. ASSUME NEW n \in DebateRounds, run_debate(n) PROVE OneStep!CouncilNext
  <2>1. OneStep!run_debate(n)
    BY <1>2, <1>5 DEF run_debate, OneStep!run_debate
  <2> QED BY <2>1 DEF OneStep!CouncilNext
<1>6. CASE RefuseDebate
  <2>1. OneStep!RefuseDebate
    BY <1>2, <1>6, SameInOneStep DEF RefuseDebate, OneStep!RefuseDebate
  <2> QED BY <2>1 DEF OneStep!CouncilNext
<1>7. CASE LastRoundDone
  <2>1. OneStep!LastRoundDone
    BY <1>2, <1>7 DEF LastRoundDone, OneStep!LastRoundDone
  <2> QED BY <2>1 DEF OneStep!CouncilNext, OneStep!DebateStep
<1> QED BY <1>3, <1>4, <1>5, <1>6, <1>7 DEF OutsideStep

\* A round that returns is a round of Council: it is one of AtomicPool.
LEMMA RoundIsOneStep ==
  ASSUME DebateInv, RoundReturned
  PROVE  OneStep!CouncilNext
<1> USE DEF AnalystsSeen, ClockSeen, HistorySeen, StageSeen, RoundSeen, CompletedSeen
<1>1. /\ Return /\ caller = "join" /\ caller' = "outside" /\ analysts' = analysts /\ clock' = clock
      /\ stage' = IF success_count' <= 0 THEN "finalize" ELSE "elect"
      /\ UNCHANGED <<election_history, initialized, round, num_rounds,
                     rounds_completed, result, debates, edits, loop>>
  BY DEF RoundReturned, Return, loopVars
<1>2. loop = "none" /\ stage = "rounds" /\ round < num_rounds
  BY <1>1 DEF DebateInv, ControlOK
<1>3. /\ AnalystsSeen = before /\ ClockSeen = clock - 1 /\ HistorySeen = election_history
      /\ StageSeen = stage /\ RoundSeen = round /\ CompletedSeen = rounds_completed
      /\ AnalystsSeen' = analysts /\ ClockSeen' = clock
      /\ HistorySeen' = election_history /\ StageSeen' = stage'
      /\ RoundSeen' = round /\ CompletedSeen' = rounds_completed
  <2>1. loop # "prune" /\ loop' # "prune" /\ caller # "outside"
    BY <1>1, <1>2
  <2> QED BY <1>1, <2>1, SeenAsIsNext DEF Pruning
<1>4. Atomic!ExecuteRound
  BY <1>1, ReturnIsARound DEF DebateInv
<1>5. /\ (IF caller = "outside" THEN analysts ELSE before) = before
      /\ (IF caller = "outside" THEN analysts ELSE before)' = analysts
      /\ (IF caller = "outside" THEN clock ELSE clock - 1) = clock - 1
      /\ (IF caller = "outside" THEN clock ELSE clock - 1)' = clock
  BY <1>1
<1>6. PICK outcome \in [Atomic!Active -> Atomic!Outcome] :
        /\ clock - 1 < RoundBound
        /\ clock = (clock - 1) + 1
        /\ analysts = [i \in Atomic!Index |->
             IF i \in Atomic!Active
               THEN Atomic!Asked(before[i], outcome[i], (clock - 1) + 1)
               ELSE before[i]]
        /\ success_count' \in
             0 .. Atomic!Cardinality({i \in Atomic!Active : outcome[i] # Atomic!QueryFailed})
        /\ success_count' = 0 <=> {i \in Atomic!Active : outcome[i] # Atomic!QueryFailed} = {}
  BY <1>4, <1>5 DEF Atomic!ExecuteRound
<1>7. /\ Atomic!Index = OneStep!Index
      /\ Atomic!Active = OneStep!Active
  <2>1. Atomic!Index = OneStep!Index
    BY <1>3, <1>5 DEF Atomic!Index, OneStep!Index
  <2>2. Atomic!Active = {i \in Atomic!Index : is_active(before[i])}
    BY <1>5, SameOperators DEF Atomic!Active
  <2>3. OneStep!Active = {i \in OneStep!Index : is_active(before[i])}
    BY <1>3, SameInOneStep DEF OneStep!Active
  <2> QED BY <2>1, <2>2, <2>3
<1>8. outcome \in [OneStep!Active -> OneStep!Outcome]
  BY <1>6, <1>7, SameOperators, SameInOneStep
<1>9. {i \in Atomic!Active : outcome[i] # Atomic!QueryFailed}
        = {i \in OneStep!Active : outcome[i] # OneStep!QueryFailed}
  BY <1>7, SameOperators, SameInOneStep
<1>10. /\ success_count' \in
            0 .. OneStep!Cardinality({i \in OneStep!Active : outcome[i] # OneStep!QueryFailed})
       /\ success_count' = 0 <=> {i \in OneStep!Active : outcome[i] # OneStep!QueryFailed} = {}
  BY <1>6, <1>9, SameOperators, SameInOneStep
<1>11. analysts = [i \in OneStep!Index |->
             IF i \in OneStep!Active
               THEN OneStep!Asked(before[i], outcome[i], (clock - 1) + 1)
               ELSE before[i]]
  BY <1>6, <1>7, SameOperators, SameInOneStep
<1>12. OneStep!ExecuteRound
  BY <1>1, <1>3, <1>6, <1>8, <1>10, <1>11 DEF OneStep!ExecuteRound
<1>13. OneStep!RunRound
  BY <1>1, <1>2, <1>3, <1>12 DEF OneStep!RunRound
<1> QED BY <1>13 DEF OneStep!CouncilNext, OneStep!DebateStep

\* What Election and Council define says the same in the instance of a list
\* that is as it is.
LEMMA SameDefinitions ==
  ASSUME AnalystsSeen = analysts
  PROVE  /\ OneStep!Index = Index /\ OneStep!AfterPruning = AfterPruning
         /\ \A r : OneStep!generate_votes(r) = generate_votes(r)
         /\ \A votes : OneStep!select_winner(OneStep!tally_votes(votes))
                         = select_winner(tally_votes(votes))
         /\ OneStep!FinalWinner = FinalWinner
         /\ \A i : OneStep!WinnerResponses(i) = WinnerResponses(i)
<1> USE DEF AnalystsSeen
<1>1. OneStep!Index = Index
  BY DEF OneStep!Index, Index
<1>2. OneStep!Active = Active
  BY <1>1, SameInOneStep DEF OneStep!Active, Active
<1>3. \A i, r : OneStep!AnswerLength(i, r) = AnswerLength(i, r)
  BY SameInOneStep DEF OneStep!AnswerLength, AnswerLength
<1>4. \A i, r : OneStep!Candidates(i, r) = Candidates(i, r)
  BY <1>2, <1>3 DEF OneStep!Candidates, Candidates
<1>5. \A S, r : OneStep!FirstLongest(S, r) = FirstLongest(S, r)
  <2> SUFFICES ASSUME NEW S, NEW r PROVE OneStep!FirstLongest(S, r) = FirstLongest(S, r)
    OBVIOUS
  <2>1. {j \in S : \A k \in S : OneStep!AnswerLength(k, r) <= OneStep!AnswerLength(j, r)}
          = {j \in S : \A k \in S : AnswerLength(k, r) <= AnswerLength(j, r)}
    BY <1>3
  <2> QED BY <2>1, SameInOneStep DEF OneStep!FirstLongest, FirstLongest
<1>6. \A r : OneStep!generate_votes(r) = generate_votes(r)
  BY <1>2, <1>4, <1>5, SameInOneStep DEF OneStep!generate_votes, generate_votes
<1>7. \A votes : OneStep!tally_votes(votes) = tally_votes(votes)
  BY SameInOneStep DEF OneStep!tally_votes, tally_votes
<1>8. \A scores : OneStep!select_winner(scores) = select_winner(scores)
  BY SameInOneStep DEF OneStep!select_winner, select_winner
<1>9. \A i : OneStep!ShouldPrune(i) <=> ShouldPrune(i)
  BY SameInOneStep DEF OneStep!ShouldPrune, ShouldPrune
<1>10. OneStep!AfterPruning = AfterPruning
  BY <1>1, <1>9, SameInOneStep DEF OneStep!AfterPruning, AfterPruning
<1>11. OneStep!FinalWinner = FinalWinner
  BY <1>1, SameInOneStep DEF OneStep!FinalWinner, FinalWinner
<1>12. \A i, n : OneStep!Spoke(i, n) = Spoke(i, n)
  BY SameInOneStep DEF OneStep!Spoke, Spoke
<1>13. \A i : OneStep!WinnerResponses(i) = WinnerResponses(i)
  <2> SUFFICES ASSUME NEW i PROVE OneStep!WinnerResponses(i) = WinnerResponses(i)
    OBVIOUS
  <2> DEFINE n == ConfigRounds
             ours(k) == CHOOSE r \in Spoke(i, n) : Cardinality(Spoke(i, r)) = k - 1
             theirs(k) == CHOOSE r \in OneStep!Spoke(i, n) :
                            OneStep!Cardinality(OneStep!Spoke(i, r)) = k - 1
  <2>1. OneStep!WinnerResponses(i) =
          [k \in 1 .. Cardinality(Spoke(i, n)) |-> get_response(analysts[i], theirs(k))]
    BY <1>12, SameInOneStep DEF OneStep!WinnerResponses, OneStep!ResponsesBefore
  <2>2. WinnerResponses(i) =
          [k \in 1 .. Cardinality(Spoke(i, n)) |-> get_response(analysts[i], ours(k))]
    BY DEF WinnerResponses, ResponsesBefore
  <2>3. ASSUME NEW k \in 1 .. Cardinality(Spoke(i, n)) PROVE theirs(k) = ours(k)
    <3>1. \E r \in Spoke(i, n) : Cardinality(Spoke(i, r)) = k - 1
      BY EveryRank
    <3>2. \E r \in OneStep!Spoke(i, n) : OneStep!Cardinality(OneStep!Spoke(i, r)) = k - 1
      BY <1>12, <3>1, SameInOneStep
    <3>3. /\ theirs(k) \in OneStep!Spoke(i, n)
          /\ OneStep!Cardinality(OneStep!Spoke(i, theirs(k))) = k - 1
      BY <3>2
    <3> HIDE DEF theirs
    <3>4. theirs(k) \in Spoke(i, n) /\ Cardinality(Spoke(i, theirs(k))) = k - 1
      BY <1>12, <3>3, SameInOneStep
    <3> QED BY <3>4, RankIsOne
  <2> HIDE DEF n, ours, theirs
  <2> QED BY <2>1, <2>2, <2>3
<1> QED BY <1>1, <1>6, <1>7, <1>8, <1>10, <1>11, <1>13

\* The pruning that begins is an election of Council.
LEMMA ElectionIsOneStep ==
  ASSUME DebateInv, BeginPruning
  PROVE  OneStep!CouncilNext
<1> USE DEF AnalystsSeen, ClockSeen, HistorySeen, StageSeen, RoundSeen, CompletedSeen
<1>1. /\ loop = "scores" /\ loop' = "prune" /\ NothingElse
      /\ UNCHANGED <<inner, best, round_votes, score_map, winner_responses>>
  BY DEF BeginPruning, Goto
<1>2. /\ caller = "outside" /\ stage = "elect"
      /\ caller' = "outside"
      /\ UNCHANGED <<analysts, clock, success_count, edits, election_history, initialized,
                     stage, round, num_rounds, rounds_completed, result, debates>>
  BY <1>1, LoopOutside DEF DebateInv, ControlOK, Electing, NothingElse, allVars, roundVars
<1>3. /\ AnalystsSeen = analysts /\ ClockSeen = clock /\ HistorySeen = election_history
      /\ StageSeen = stage /\ RoundSeen = round /\ CompletedSeen = rounds_completed
  <2>1. loop # "prune"
    BY <1>1
  <2> QED BY <1>2, <2>1, SeenAsIs
<1> DEFINE votes == generate_votes(round)
           gone == {i \in Index : AfterPruning[i].pruned}
           election == [round_number |-> round, votes |-> votes,
                        winner_id |-> select_winner(tally_votes(votes)), pruned |-> gone]
<1>4. Elected' = [round_number |-> round, votes |-> votes,
                  winner_id |-> select_winner(tally_votes(votes)),
                  pruned |-> {i \in Index' : analysts'[i].pruned}]
  BY <1>1, <1>2, SelectionIsOver DEF Elected
<1>5. Index' = Index /\ AfterPruning' = AfterPruning
  BY <1>2 DEF AfterPruning, ShouldPrune, Index
<1>6. [Elected' EXCEPT !.pruned = gone] = election
  <2> HIDE DEF votes, gone
  <2> QED BY <1>4
<1>7. /\ AnalystsSeen' = AfterPruning /\ ClockSeen' = clock
      /\ HistorySeen' = Append(election_history, election)
      /\ StageSeen' = "rounds" /\ RoundSeen' = round + 1
      /\ CompletedSeen' = rounds_completed + 1
  BY <1>1, <1>2, <1>5, <1>6 DEF Pruning
<1>8. /\ OneStep!Index = Index /\ OneStep!AfterPruning = AfterPruning
      /\ OneStep!generate_votes(round) = votes
      /\ OneStep!select_winner(OneStep!tally_votes(votes)) = select_winner(tally_votes(votes))
  BY <1>3, SameDefinitions
<1> HIDE DEF votes
<1>9. OneStep!HoldElection
  BY <1>2, <1>3, <1>7, <1>8 DEF OneStep!HoldElection, OneStep!run_election_round
<1> QED BY <1>9 DEF OneStep!CouncilNext, OneStep!DebateStep

\* The end of the last loop of finalize_results is that of Council.
LEMMA ResultIsOneStep ==
  ASSUME DebateInv, EndDebate
  PROVE  OneStep!CouncilNext
<1> USE DEF AnalystsSeen, ClockSeen, HistorySeen, StageSeen, RoundSeen, CompletedSeen
<1>1. /\ loop = "responses" /\ (best.id = NoOne \/ outer >= ConfigRounds)
      /\ result' = [EmptyResult EXCEPT
           !.final_winner = best.id,
           !.winner_responses = winner_responses,
           !.analysts_pruned = Cardinality({i \in Index : analysts[i].pruned})]
      /\ stage' = "idle" /\ loop' = "none"
      /\ UNCHANGED <<analysts, clock, success_count, edits, election_history,
                     initialized, round, num_rounds, rounds_completed, debates, caller>>
  BY DEF EndDebate, LocalsGone, Goto, roundVars
<1>2. caller = "outside" /\ caller' = "outside" /\ stage = "finalize" /\ outer \in Nat
  BY <1>1, LoopOutside DEF DebateInv, ControlOK, Finishing
<1>3. /\ AnalystsSeen = analysts /\ ClockSeen = clock /\ HistorySeen = election_history
      /\ StageSeen = stage /\ RoundSeen = round /\ CompletedSeen = rounds_completed
      /\ AnalystsSeen' = analysts' /\ ClockSeen' = clock'
      /\ HistorySeen' = election_history' /\ StageSeen' = stage'
      /\ RoundSeen' = round' /\ CompletedSeen' = rounds_completed'
  <2>1. loop # "prune" /\ loop' # "prune"
    BY <1>1
  <2> QED BY <1>2, <2>1, SeenAsIs, SeenAsIsNext
<1>4. /\ best.id = FinalWinner
      /\ winner_responses = IF FinalWinner = NoOne THEN <<>> ELSE WinnerResponses(FinalWinner)
  <2>1. /\ best.id = FinalWinner
        /\ IF best.id = NoOne
             THEN winner_responses = <<>>
             ELSE /\ outer <= ConfigRounds
                  /\ winner_responses = ResponsesBefore(best.id, outer)
    BY <1>1 DEF DebateInv, LoopsOK, ResponsesOK
  <2>2. best.id # NoOne => outer = ConfigRounds
    BY <1>1, <1>2, <2>1
  <2> QED BY <2>1, <2>2 DEF WinnerResponses
<1>5. /\ OneStep!Index = Index /\ OneStep!FinalWinner = FinalWinner
      /\ \A i : OneStep!WinnerResponses(i) = WinnerResponses(i)
  BY <1>3, SameDefinitions
<1>6. /\ OneStep!NoOne = NoOne /\ OneStep!EmptyResult = EmptyResult
      /\ \A S : OneStep!Cardinality(S) = Cardinality(S)
  BY SameInOneStep
<1>7. OneStep!finalize_results
  <2>1. {i \in OneStep!Index : AnalystsSeen[i].pruned} = {i \in Index : analysts[i].pruned}
    BY <1>3, <1>5
  <2>2. result' =
          [OneStep!EmptyResult EXCEPT
             !.final_winner = OneStep!FinalWinner,
             !.winner_responses =
                IF OneStep!FinalWinner = OneStep!NoOne THEN <<>>
                ELSE OneStep!WinnerResponses(OneStep!FinalWinner),
             !.analysts_pruned =
                OneStep!Cardinality({i \in OneStep!Index : AnalystsSeen[i].pruned})]
    BY <1>1, <1>4, <1>5, <1>6, <2>1
  <2> QED BY <1>1, <1>2, <1>3, <2>2 DEF OneStep!finalize_results
<1> QED BY <1>7 DEF OneStep!CouncilNext, OneStep!DebateStep

\* A round that throws ends the debate of Council, which has lost nothing.
LEMMA ThrowIsOneStep ==
  ASSUME DebateInv, RoundThrew
  PROVE  OneStep!CouncilNext
<1> USE DEF AnalystsSeen, ClockSeen, HistorySeen, StageSeen, RoundSeen, CompletedSeen
<1>1. /\ caller = "start" /\ caller' = "outside" /\ analysts' = analysts
      /\ clock' = clock - 1 /\ stage' = "idle"
      /\ cursor \in Index /\ is_active(analysts[cursor])
      /\ UNCHANGED <<success_count, edits, election_history, initialized, round, num_rounds,
                     rounds_completed, result, debates, loop>>
  BY DEF RoundThrew, StartThrows, ThreadRefused, loopVars
<1>2. loop = "none" /\ stage = "rounds" /\ round < num_rounds
  BY <1>1 DEF DebateInv, ControlOK
<1>3. before = analysts
  BY NothingStarted DEF DebateInv, RoundThrew, StartThrows, ThreadRefused
<1>4. /\ AnalystsSeen = analysts /\ ClockSeen = clock - 1 /\ HistorySeen = election_history
      /\ StageSeen = stage /\ RoundSeen = round /\ CompletedSeen = rounds_completed
  BY <1>1, <1>2, <1>3 DEF Pruning
<1>5. /\ AnalystsSeen' = analysts' /\ ClockSeen' = clock'
      /\ HistorySeen' = election_history' /\ StageSeen' = stage'
      /\ RoundSeen' = round' /\ CompletedSeen' = rounds_completed'
  BY <1>1, <1>2, SeenAsIsNext
<1>6. OneStep!Active # {}
  BY <1>1, <1>4, SameInOneStep DEF OneStep!Active, OneStep!Index, Index
<1>7. OneStep!DebateThrows
  BY <1>1, <1>2, <1>4, <1>5, <1>6 DEF OneStep!DebateThrows
<1> QED BY <1>7 DEF OneStep!CouncilNext, OneStep!DebateStep

-----------------------------------------------------------------------------
(* The other steps are not seen. *)

LEMMA UnseenStep ==
  ASSUME UNCHANGED <<AnalystsSeen, ClockSeen, HistorySeen, StageSeen, RoundSeen,
                     CompletedSeen, success_count, edits, initialized, num_rounds,
                     result, debates>>
  PROVE  UNCHANGED OneStep!allVars
BY DEF AnalystsSeen, ClockSeen, HistorySeen, StageSeen, RoundSeen, CompletedSeen,
       OneStep!allVars

\* The steps of a round before it returns.
LEMMA InRoundUnseen ==
  ASSUME DebateInv,
         \/ CallRound \/ CallerInRound
         \/ \E i \in Slot : ThreadInRound(i)
  PROVE  UNCHANGED OneStep!allVars
<1>1. UNCHANGED <<success_count, edits, election_history, councilVars, loopVars>>
  BY DEF CallRound, Call, CallerInRound, Start, StartTerminates, AllStarted, Join,
         ThreadInRound, Thread,
         QuerySucceeds, QueryFails, LoadCount, StoreCount
<1>2. loop = "none"
  <2>1. CASE CallRound
    BY <2>1 DEF CallRound, Outside
  <2>2. CASE CallerInRound
    BY <2>2 DEF CallerInRound, Start, StartTerminates, ThreadRefused, AllStarted, Join,
       DebateInv, ControlOK
  <2>3. ASSUME NEW i \in Slot, ThreadInRound(i) PROVE caller # "outside"
    <3>1. thread[i] \in Running
      BY <2>3 DEF ThreadInRound, Thread, QuerySucceeds, QueryFails, LoadCount, StoreCount, Running
    <3> QED BY <3>1, BetweenRounds DEF DebateInv
  <2> QED BY <2>1, <2>2, <2>3 DEF DebateInv, ControlOK
<1>3. loop # "prune" /\ loop' # "prune" /\ loop' = loop
  BY <1>1, <1>2 DEF loopVars
<1>4. UNCHANGED <<AnalystsSeen, ClockSeen>>
  <2>1. CASE CallRound
    <3>1. /\ caller = "outside" /\ caller' # "outside" /\ before' = analysts
          /\ clock' = clock + 1 /\ clock \in Nat
      BY <2>1 DEF CallRound, Call, DebateInv, IInv, PoolTypeOK
    <3>2. AnalystsSeen = analysts /\ ClockSeen = clock
      BY <1>3, <3>1, SeenAsIs
    <3>3. AnalystsSeen' = before' /\ ClockSeen' = clock' - 1
      BY <3>1 DEF AnalystsSeen, ClockSeen
    <3> QED BY <3>1, <3>2, <3>3
  <2>2. CASE CallerInRound
    BY <2>2 DEF CallerInRound, Start, StartTerminates, ThreadRefused, AllStarted, Join,
       AnalystsSeen, ClockSeen
  <2>3. ASSUME NEW i \in Slot, ThreadInRound(i) PROVE UNCHANGED <<AnalystsSeen, ClockSeen>>
    <3>1. thread[i] \in Running /\ UNCHANGED <<caller, before, clock>>
      BY <2>3 DEF ThreadInRound, Thread, QuerySucceeds, QueryFails, LoadCount, StoreCount, Running
    <3>2. caller # "outside"
      BY <3>1, BetweenRounds DEF DebateInv
    <3> QED BY <3>1, <3>2 DEF AnalystsSeen, ClockSeen
  <2> QED BY <2>1, <2>2, <2>3
<1>5. UNCHANGED <<HistorySeen, StageSeen, RoundSeen, CompletedSeen>>
  BY <1>1, <1>3 DEF HistorySeen, StageSeen, RoundSeen, CompletedSeen, Pruning, councilVars
<1> QED BY <1>1, <1>4, <1>5, UnseenStep DEF councilVars

\* An iteration of a loop, its begin, and the end of the scans.
LEMMA IterationUnseen ==
  ASSUME DebateInv, NothingElse, caller = "outside", loop # "prune", loop' # "prune"
  PROVE  UNCHANGED OneStep!allVars
<1>1. /\ UNCHANGED <<analysts, clock, success_count, edits, election_history, initialized,
                     stage, round, num_rounds, rounds_completed, result, debates>>
      /\ caller' = "outside"
  BY DEF NothingElse, allVars, roundVars
<1>2. UNCHANGED <<AnalystsSeen, ClockSeen, HistorySeen, StageSeen, RoundSeen, CompletedSeen>>
  BY <1>1, SeenAsIs, SeenAsIsNext
<1> QED BY <1>1, <1>2, UnseenStep

LEMMA PruneOneUnseen ==
  ASSUME DebateInv, LookAtAnalyst
  PROVE  UNCHANGED OneStep!allVars
<1>1. /\ loop = "prune" /\ outer \in Index
      /\ analysts' = IF ShouldPrune(outer)
                       THEN [analysts EXCEPT ![outer] = mark_pruned(@)]
                       ELSE analysts
      /\ UNCHANGED <<clock, success_count, edits, election_history, initialized, stage, round,
                     num_rounds, rounds_completed, result, debates, caller, loop, best,
                     round_votes>>
  BY DEF LookAtAnalyst, councilVars, roundVars
<1>2. caller = "outside" /\ ListOK
  BY <1>1, LoopOutside
<1>3. Index' = Index /\ AfterPruning' = AfterPruning
  BY <1>1, <1>2, PruneOne
<1> DEFINE gone == {i \in Index : AfterPruning[i].pruned}
           seen == [round_number |-> round, votes |-> ToSet(round_votes),
                    winner_id |-> best.id, pruned |-> gone]
<1>4. gone' = gone
  BY <1>3
<1>5. [Elected EXCEPT !.pruned = gone] = seen /\ [Elected' EXCEPT !.pruned = gone] = seen
  <2>1. /\ Elected = [round_number |-> round, votes |-> ToSet(round_votes),
                      winner_id |-> best.id, pruned |-> {i \in Index : analysts[i].pruned}]
        /\ Elected' = [round_number |-> round, votes |-> ToSet(round_votes),
                       winner_id |-> best.id, pruned |-> {i \in Index' : analysts'[i].pruned}]
    BY <1>1 DEF Elected
  <2> HIDE DEF gone
  <2> QED BY <2>1
<1>6. HistorySeen' = HistorySeen
  <2>1. /\ HistorySeen = Append(election_history, [Elected EXCEPT !.pruned = gone])
        /\ HistorySeen' = Append(election_history', [Elected' EXCEPT !.pruned = gone'])
    BY <1>1 DEF HistorySeen, Pruning
  <2> HIDE DEF gone, seen
  <2> QED BY <1>1, <1>4, <1>5, <2>1
<1>7. UNCHANGED <<AnalystsSeen, ClockSeen, StageSeen, RoundSeen, CompletedSeen>>
  BY <1>1, <1>2, <1>3 DEF AnalystsSeen, ClockSeen, StageSeen, RoundSeen, CompletedSeen, Pruning
<1> QED BY <1>1, <1>6, <1>7, UnseenStep

\* The pruning loop leaves what it was seen to leave when it began.
LEMMA EndElectionUnseen ==
  ASSUME DebateInv, EndElection
  PROVE  UNCHANGED OneStep!allVars
<1>1. /\ loop = "prune" /\ outer \notin Index /\ loop' = "none" /\ stage' = "rounds"
      /\ election_history' = Append(election_history, Elected)
      /\ round' = round + 1 /\ rounds_completed' = rounds_completed + 1
      /\ UNCHANGED <<analysts, clock, success_count, edits, initialized, num_rounds,
                     result, debates, caller>>
  BY DEF EndElection, LocalsGone, Goto, roundVars
<1>2. /\ caller = "outside" /\ ListOK /\ Len(analysts) \in Nat /\ outer \in Nat
      /\ Index = 1 .. Len(analysts)
  BY <1>1, LoopOutside DEF Index
<1>3. outer > BaseCount /\ \A i \in Index : i < outer => ~ShouldPrune(i)
  BY <1>1 DEF DebateInv, LoopsOK, PruneOK
<1>4. \A i \in Index : i < outer
  BY <1>1, <1>2, <1>3
<1>5. AfterPruning = analysts
  <2>1. AfterPruning = [i \in 1 .. Len(analysts) |-> analysts[i]]
    BY <1>2, <1>3, <1>4 DEF AfterPruning
  <2>2. analysts = [i \in 1 .. Len(analysts) |-> analysts[i]]
    BY <1>2 DEF ListOK
  <2> QED BY <2>1, <2>2
<1>6. /\ AnalystsSeen = AfterPruning /\ ClockSeen = clock
      /\ HistorySeen = Append(election_history,
           [Elected EXCEPT !.pruned = {i \in Index : AfterPruning[i].pruned}])
      /\ StageSeen = "rounds" /\ RoundSeen = round + 1
      /\ CompletedSeen = rounds_completed + 1
  BY <1>1, <1>2
  DEF AnalystsSeen, ClockSeen, HistorySeen, StageSeen, RoundSeen, CompletedSeen, Pruning
<1>7. [Elected EXCEPT !.pruned = {i \in Index : AfterPruning[i].pruned}] = Elected
  BY <1>5 DEF Elected
<1>8. /\ AnalystsSeen' = analysts' /\ ClockSeen' = clock'
      /\ HistorySeen' = election_history' /\ StageSeen' = stage'
      /\ RoundSeen' = round' /\ CompletedSeen' = rounds_completed'
  BY <1>1, <1>2, SeenAsIsNext
<1>9. UNCHANGED <<AnalystsSeen, ClockSeen, HistorySeen, StageSeen, RoundSeen, CompletedSeen>>
  BY <1>1, <1>5, <1>6, <1>7, <1>8
<1> QED BY <1>1, <1>9, UnseenStep

\* Every execution of the code's threads and loops, however they interleave
\* and whatever ties there are, is one of Council: what is proved of its
\* elections, its history and its results is true of them.
THEOREM DebateImplementsCouncil == DebateSpec => ImplementsCouncil
<1>1. DebateInit => OneStep!CouncilInit
  <2> SUFFICES ASSUME DebateInit PROVE OneStep!CouncilInit
    OBVIOUS
  <2>1. CouncilInit /\ caller = "outside" /\ loop # "prune"
    BY DEF DebateInit, NoRound, NoLoop
  <2>2. /\ AnalystsSeen = analysts /\ ClockSeen = clock /\ HistorySeen = election_history
        /\ StageSeen = stage /\ RoundSeen = round /\ CompletedSeen = rounds_completed
    BY <2>1, SeenAsIs
  <2> QED
    BY <2>1, <2>2, SameInOneStep
    DEF CouncilInit, OneStep!CouncilInit, AnalystsSeen, ClockSeen, HistorySeen, StageSeen,
        RoundSeen, CompletedSeen
<1>2. DebateInv /\ [DebateNext]_debateVars => [OneStep!CouncilNext]_(OneStep!allVars)
  <2> SUFFICES ASSUME DebateInv, [DebateNext]_debateVars
               PROVE  OneStep!CouncilNext \/ UNCHANGED OneStep!allVars
    OBVIOUS
  <2>1. CASE OutsideStep
    BY <2>1, OutsideIsOneStep
  <2>2. CASE RoundStep
    BY <2>2, RoundIsOneStep, ThrowIsOneStep, InRoundUnseen DEF RoundStep
  <2>3. CASE BeginPruning
    BY <2>3, ElectionIsOneStep
  <2>4. CASE LookAtAnalyst \/ EndElection
    BY <2>4, PruneOneUnseen, EndElectionUnseen
  <2>5. CASE EndDebate
    BY <2>5, ResultIsOneStep
  <2>6. CASE \/ BeginVotes \/ LookAtVoter \/ LookAtVotee \/ CastVote \/ BeginTally
             \/ TallyVote \/ BeginSelection \/ LookAtScore
             \/ BeginFinal \/ LookAtTotal \/ BeginResponses \/ LookAtResponse
    <3>1. /\ NothingElse /\ loop # "prune" /\ loop' # "prune"
          /\ loop # "none" \/ stage # "rounds"
      BY <2>6 DEF BeginVotes, LookAtVoter, LookAtVotee, CastVote, BeginTally, TallyVote,
         BeginSelection, LookAtScore, BeginFinal, LookAtTotal, BeginResponses,
         LookAtResponse, Goto
    <3> QED BY <3>1, LoopOutside, IterationUnseen
  <2>7. CASE UNCHANGED debateVars
    <3>1. UNCHANGED <<analysts, clock, success_count, edits, election_history, initialized,
                      stage, round, num_rounds, rounds_completed, result, debates, caller,
                      before, loop, best, round_votes>>
      BY <2>7 DEF debateVars, allVars, roundVars, loopVars
    <3>2. /\ Index' = Index /\ AfterPruning' = AfterPruning /\ Elected' = Elected
      BY <3>1 DEF Index, AfterPruning, ShouldPrune, Elected
    <3>3. UNCHANGED <<AnalystsSeen, ClockSeen, HistorySeen, StageSeen, RoundSeen, CompletedSeen>>
      BY <3>1, <3>2 DEF AnalystsSeen, ClockSeen, HistorySeen, StageSeen, RoundSeen,
         CompletedSeen, Pruning
    <3> QED BY <3>1, <3>3, UnseenStep
  <2> QED BY <2>1, <2>2, <2>3, <2>4, <2>5, <2>6, <2>7 DEF DebateNext, ElectionStep, FinalStep
<1> QED
  BY <1>1, <1>2, DebateInvariant, PTL
  DEF DebateSpec, ImplementsCouncil, OneStep!CouncilSpec
=============================================================================
