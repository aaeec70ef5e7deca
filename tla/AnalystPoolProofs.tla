-------------------------- MODULE AnalystPoolProofs --------------------------
(***************************************************************************)
(* Proofs about the pool of analysts, for every number of analysts,        *)
(* models, rounds and operations of the owner: first what the operations   *)
(* on one analyst and on the list keep, on which the proofs about debates  *)
(* rest too, then the parallel round.                                      *)
(***************************************************************************)
EXTENDS AnalystPool, TLAPS, FiniteSetTheorems, SequenceTheorems

USE LengthsAssumption, PoolAssumption DEF LengthsAssumption, PoolAssumption

-----------------------------------------------------------------------------
(* The operators on one analyst. *)

LEMMA NewAnalystType ==
  ASSUME NEW base \in BOOLEAN
  PROVE  NewAnalyst(base) \in AnalystRecord
  BY DEF NewAnalyst, AnalystRecord

LEMMA PushResponseType ==
  ASSUME NEW a \in AnalystRecord, NEW len \in Nat, NEW now \in Nat
  PROVE  /\ push_response(a, len, now) \in AnalystRecord
         /\ push_response(a, len, now).base = a.base
<1> DEFINE longer == Append(a.responses, [len |-> len, at |-> now])
<1>1. longer \in Seq(Response)
  BY DEF AnalystRecord, Response
<1>2. push_response(a, len, now) = [a EXCEPT !.responses = longer]
  BY DEF push_response
<1> HIDE DEF longer
<1> QED BY <1>1, <1>2 DEF AnalystRecord

LEMMA RoundActivityType ==
  ASSUME NEW a \in AnalystRecord, NEW had_response \in BOOLEAN
  PROVE  /\ record_round_activity(a, had_response) \in AnalystRecord
         /\ record_round_activity(a, had_response).base = a.base
  BY DEF record_round_activity, AnalystRecord

LEMMA AnsweredType ==
  ASSUME NEW a \in AnalystRecord, NEW len \in Lengths, NEW now \in Nat
  PROVE  /\ Answered(a, len, now) \in AnalystRecord
         /\ Answered(a, len, now).base = a.base
<1>1. len \in Nat /\ (len > 0) \in BOOLEAN
  OBVIOUS
<1> QED BY <1>1, PushResponseType, RoundActivityType DEF Answered

LEMMA FailedType ==
  ASSUME NEW a \in AnalystRecord, NEW now \in Nat
  PROVE  /\ Failed(a, now) \in AnalystRecord
         /\ Failed(a, now).base = a.base
  BY PushResponseType DEF Failed

LEMMA ScoredType ==
  ASSUME NEW a \in AnalystRecord, NEW n \in Nat
  PROVE  /\ [a EXCEPT !.score = n, !.idle = 0] \in AnalystRecord
         /\ [a EXCEPT !.score = n, !.idle = 0].base = a.base
<1> DEFINE b == [a EXCEPT !.score = n]
<1>1. b \in AnalystRecord /\ b.base = a.base
  BY DEF AnalystRecord
<1> HIDE DEF b
<1>2. [b EXCEPT !.idle = 0] \in AnalystRecord /\ [b EXCEPT !.idle = 0].base = b.base
  BY <1>1 DEF AnalystRecord
<1> QED BY <1>1, <1>2 DEF b

\* Whatever the owner does to an analyst leaves its role alone.
LEMMA OwnerOpsType ==
  ASSUME NEW a \in AnalystRecord
  PROVE  /\ record_proposal_adopted(a) \in AnalystRecord
         /\ record_challenge_won(a) \in AnalystRecord
         /\ mark_pruned(a) \in AnalystRecord
         /\ mark_complete(a) \in AnalystRecord
         /\ record_proposal_adopted(a).base = a.base
         /\ record_challenge_won(a).base = a.base
         /\ mark_pruned(a).base = a.base
         /\ mark_complete(a).base = a.base
<1>1. a.score + ScoreAdopted \in Nat /\ a.score + ScoreChallengeWon \in Nat
  BY DEF AnalystRecord, ScoreAdopted, ScoreChallengeWon
<1>2. /\ record_proposal_adopted(a) \in AnalystRecord
      /\ record_challenge_won(a) \in AnalystRecord
      /\ record_proposal_adopted(a).base = a.base
      /\ record_challenge_won(a).base = a.base
  BY <1>1, ScoredType DEF record_proposal_adopted, record_challenge_won
<1>3. /\ mark_pruned(a) \in AnalystRecord /\ mark_pruned(a).base = a.base
      /\ mark_complete(a) \in AnalystRecord /\ mark_complete(a).base = a.base
  BY DEF mark_pruned, mark_complete, AnalystRecord
<1> QED BY <1>2, <1>3

-----------------------------------------------------------------------------
(* The list of analysts between rounds. *)

ListOK ==
  /\ analysts \in Seq(AnalystRecord)
  /\ Len(analysts) <= MaxModels
  /\ BaseInFront

LEMMA RemoveAtProperties ==
  ASSUME NEW S, NEW s \in Seq(S), NEW i \in 1 .. Len(s)
  PROVE  /\ RemoveAt(s, i) \in Seq(S)
         /\ Len(RemoveAt(s, i)) = Len(s) - 1
         /\ \A j \in 1 .. Len(s) - 1 :
              RemoveAt(s, i)[j] = IF j < i THEN s[j] ELSE s[j + 1]
<1> DEFINE front == SubSeq(s, 1, i - 1)
           back == SubSeq(s, i + 1, Len(s))
<1>1. /\ front \in Seq(S) /\ Len(front) = i - 1
      /\ \A j \in 1 .. i - 1 : front[j] = s[j]
  <2>1. \A j \in 1 .. i - 1 : s[j] \in S
    OBVIOUS
  <2> QED BY <2>1, SubSeqProperties
<1>2. /\ back \in Seq(S) /\ Len(back) = Len(s) - i
      /\ \A j \in 1 .. Len(s) - i : back[j] = s[i + j]
  <2>1. \A j \in i + 1 .. Len(s) : s[j] \in S
    OBVIOUS
  <2> QED BY <2>1, SubSeqProperties
<1> HIDE DEF front, back
<1>3. /\ front \o back \in Seq(S)
      /\ Len(front \o back) = Len(front) + Len(back)
      /\ \A j \in 1 .. Len(front) + Len(back) :
           (front \o back)[j] = IF j <= Len(front) THEN front[j]
                                                  ELSE back[j - Len(front)]
  BY <1>1, <1>2, ConcatProperties
<1>4. \A j \in 1 .. Len(s) - 1 :
        (front \o back)[j] = IF j < i THEN s[j] ELSE s[j + 1]
  BY <1>1, <1>2, <1>3
<1>5. RemoveAt(s, i) = front \o back
  BY DEF RemoveAt, front, back
<1>6. Len(front \o back) = Len(s) - 1
  BY <1>1, <1>2, <1>3
<1> QED BY <1>3, <1>4, <1>5, <1>6

LEMMA ReplaceKeepsList ==
  ASSUME ListOK, NEW i \in Index, NEW b \in AnalystRecord,
         b.base = analysts[i].base,
         analysts' = [analysts EXCEPT ![i] = b]
  PROVE  ListOK'
<1>1. analysts' \in Seq(AnalystRecord) /\ Len(analysts') = Len(analysts)
  BY DEF ListOK, Index
<1>2. \A j \in Index : analysts'[j].base = analysts[j].base
  BY DEF ListOK, Index
<1> QED BY <1>1, <1>2 DEF ListOK, BaseInFront, Index

LEMMA OwnerKeepsList == ListOK /\ Owner => ListOK'
<1> SUFFICES ASSUME ListOK, Owner PROVE ListOK'
  OBVIOUS
<1>1. CASE add_analyst
  <2> DEFINE new == NewAnalyst(FALSE)
  <2>1. new \in AnalystRecord /\ ~new.base
    BY NewAnalystType DEF NewAnalyst
  <2> HIDE DEF new
  <2>2. /\ analysts' \in Seq(AnalystRecord)
        /\ Len(analysts') = Len(analysts) + 1
        /\ \A j \in 1 .. Len(analysts) : analysts'[j] = analysts[j]
        /\ analysts'[Len(analysts) + 1] = new
    <3>1. analysts' = Append(analysts, new)
      BY <1>1 DEF add_analyst, new
    <3> QED BY <2>1, <3>1, AppendProperties DEF ListOK
  <2>3. ASSUME NEW k \in Index', NEW j \in Index', analysts'[j].base
        PROVE  j <= BaseCount /\ (k < j => analysts'[k].base)
    <3>1. j \in Index
      BY <2>1, <2>2, <2>3 DEF ListOK, Index
    <3> QED BY <2>2, <2>3, <3>1 DEF ListOK, BaseInFront, Index
  <2>4. BaseInFront'
    BY <2>3 DEF BaseInFront
  <2>5. Len(analysts') <= MaxModels
    BY <1>1, <2>2 DEF add_analyst, ListOK
  <2> QED BY <2>2, <2>4, <2>5 DEF ListOK
<1>2. ASSUME NEW i \in Index, remove_analyst(i) PROVE ListOK'
  <2>1. /\ analysts' \in Seq(AnalystRecord)
        /\ Len(analysts') = Len(analysts) - 1
        /\ \A j \in 1 .. Len(analysts) - 1 :
             analysts'[j] = IF j < i THEN analysts[j] ELSE analysts[j + 1]
    BY <1>2, RemoveAtProperties DEF remove_analyst, ListOK, Index
  <2> QED BY <2>1 DEF ListOK, BaseInFront, Index
<1>3. ASSUME NEW i \in Index,
             \/ ProposalAdopted(i) \/ ChallengeWon(i)
             \/ MarkPruned(i) \/ MarkComplete(i)
      PROVE ListOK'
  <2>1. analysts[i] \in AnalystRecord
    BY DEF ListOK, Index
  <2> QED BY <1>3, <2>1, OwnerOpsType, ReplaceKeepsList
         DEF ProposalAdopted, ChallengeWon, MarkPruned, MarkComplete
<1> QED BY <1>1, <1>2, <1>3 DEF Owner

\* A new pool has analysts of the static roles, which have said nothing.
LEMMA NewPoolTyped ==
  ASSUME NEW models \in 0 .. NumModels
  PROVE  /\ NewPool(models) \in Seq(AnalystRecord)
         /\ Len(NewPool(models)) <= BaseCount
         /\ \A i \in 1 .. Len(NewPool(models)) :
              NewPool(models)[i].base /\ NewPool(models)[i].responses = <<>>
<1> DEFINE n == BaseSize(models)
           pool == [i \in 1 .. n |-> NewAnalyst(TRUE)]
<1>1. n \in Nat /\ n <= BaseCount
  BY DEF BaseSize
<1>2. /\ NewAnalyst(TRUE) \in AnalystRecord
      /\ NewAnalyst(TRUE).base /\ NewAnalyst(TRUE).responses = <<>>
  BY NewAnalystType DEF NewAnalyst
<1> HIDE DEF n
<1>3. pool \in [1 .. n -> AnalystRecord]
  BY <1>2
<1>4. pool \in Seq(AnalystRecord)
  BY <1>1, <1>3, SeqDef
<1>5. Len(pool) = n
  BY <1>1, <1>3, <1>4, LenProperties
<1>6. pool = NewPool(models)
  BY DEF NewPool, n
<1> QED BY <1>1, <1>2, <1>4, <1>5, <1>6

LEMMA NewPoolList ==
  ASSUME NEW models \in 0 .. NumModels, analysts = NewPool(models)
  PROVE  ListOK
<1>1. /\ analysts \in Seq(AnalystRecord) /\ Len(analysts) <= BaseCount
      /\ \A i \in Index : analysts[i].base
  BY NewPoolTyped DEF Index
<1> QED BY <1>1 DEF ListOK, BaseInFront, Index

\* A pool created in a step.
LEMMA NewPoolKeepsList ==
  ASSUME NEW models \in 0 .. NumModels, analysts' = NewPool(models)
  PROVE  ListOK' /\ \A i \in Index' : analysts'[i].responses = <<>>
<1>1. /\ analysts' \in Seq(AnalystRecord) /\ Len(analysts') <= BaseCount
      /\ \A i \in Index' : analysts'[i].base /\ analysts'[i].responses = <<>>
  BY NewPoolTyped DEF Index
<1> QED BY <1>1 DEF ListOK, BaseInFront, Index

\* The owner lets nobody speak.
LEMMA OwnerKeepsSilence ==
  ASSUME ListOK, Owner, \A i \in Index : analysts[i].responses = <<>>
  PROVE  \A i \in Index' : analysts'[i].responses = <<>>
<1>1. CASE add_analyst
  <2>1. analysts' = Append(analysts, NewAnalyst(FALSE)) /\ NewAnalyst(FALSE).responses = <<>>
    BY <1>1 DEF add_analyst, NewAnalyst
  <2>2. NewAnalyst(FALSE) \in AnalystRecord
    BY NewAnalystType
  <2> DEFINE new == NewAnalyst(FALSE)
  <2> HIDE DEF new
  <2>3. analysts' = Append(analysts, new) /\ new \in AnalystRecord /\ new.responses = <<>>
    BY <2>1, <2>2 DEF new
  <2>4. /\ Len(analysts') = Len(analysts) + 1
        /\ \A j \in 1 .. Len(analysts) : analysts'[j] = analysts[j]
        /\ analysts'[Len(analysts) + 1] = new
    BY <2>3, AppendProperties DEF ListOK
  <2> QED BY <2>3, <2>4 DEF ListOK, Index
<1>2. ASSUME NEW i \in Index, remove_analyst(i)
      PROVE  \A j \in Index' : analysts'[j].responses = <<>>
  <2>1. /\ Len(analysts') = Len(analysts) - 1
        /\ \A j \in 1 .. Len(analysts) - 1 :
             analysts'[j] = IF j < i THEN analysts[j] ELSE analysts[j + 1]
    BY <1>2, RemoveAtProperties DEF remove_analyst, ListOK, Index
  <2> QED BY <2>1 DEF ListOK, Index
<1>3. ASSUME NEW i \in Index,
             \/ ProposalAdopted(i) \/ ChallengeWon(i)
             \/ MarkPruned(i) \/ MarkComplete(i)
      PROVE  \A j \in Index' : analysts'[j].responses = <<>>
  <2>1. PICK b : /\ analysts' = [analysts EXCEPT ![i] = b]
                 /\ b.responses = analysts[i].responses
    <3>1. analysts[i] \in AnalystRecord
      BY DEF ListOK, Index
    <3> QED BY <1>3, <3>1 DEF ProposalAdopted, ChallengeWon, MarkPruned, MarkComplete,
            record_proposal_adopted, record_challenge_won, mark_pruned, mark_complete,
            AnalystRecord
  <2> QED BY <2>1 DEF ListOK, Index
<1> QED BY <1>1, <1>2, <1>3 DEF Owner

-----------------------------------------------------------------------------
(* One round. *)

LEMMA AskedResponses ==
  ASSUME NEW a \in AnalystRecord, NEW len \in Nat, NEW now \in Nat,
         NEW b \in {Answered(a, len, now), push_response(a, len, now)}
  PROVE  b.responses = Append(a.responses, [len |-> len, at |-> now])
  BY DEF Answered, push_response, record_round_activity, AnalystRecord

\* A list of responses that has grown by one is what AskedOnce asks for.
LEMMA OneMoreResponse ==
  ASSUME NEW a \in AnalystRecord, NEW b, NEW len \in Nat, NEW now \in Nat,
         b.responses = Append(a.responses, [len |-> len, at |-> now])
  PROVE  /\ SubSeq(b.responses, 1, Len(a.responses)) = a.responses
         /\ Len(b.responses) = Len(a.responses) + 1
         /\ get_response(b, Len(a.responses)).at = now
<1> DEFINE r == [len |-> len, at |-> now]
           old == a.responses
<1>1. r \in Response /\ r.at = now /\ old \in Seq(Response)
  BY DEF Response, AnalystRecord
<1>2. b.responses = Append(old, r)
  OBVIOUS
<1> HIDE DEF r, old
<1>3. /\ Append(old, r) \in Seq(Response)
      /\ Len(Append(old, r)) = Len(old) + 1
      /\ \A k \in 1 .. Len(old) : Append(old, r)[k] = old[k]
      /\ Append(old, r)[Len(old) + 1] = r
  BY <1>1, AppendProperties
<1>4. SubSeq(Append(old, r), 1, Len(old)) = old
  <2>1. /\ SubSeq(Append(old, r), 1, Len(old)) \in Seq(Response)
        /\ Len(SubSeq(Append(old, r), 1, Len(old))) = Len(old)
        /\ \A k \in 1 .. Len(old) : SubSeq(Append(old, r), 1, Len(old))[k] = old[k]
    BY <1>1, <1>3, SubSeqProperties
  <2> QED BY <1>1, <2>1, SeqEqual
<1>5. get_response(b, Len(old)) = r
  BY <1>1, <1>2, <1>3 DEF get_response
<1> QED BY <1>1, <1>2, <1>3, <1>4, <1>5 DEF old

\* A round keeps the list, asks the active analysts and changes no other.
LEMMA RoundKeepsList ==
  ASSUME ListOK, clock \in Nat, ExecuteRound
  PROVE  /\ ListOK' /\ Index' = Index /\ Active' = Active
         /\ clock' = clock + 1 /\ clock' \in Nat
         /\ \A i \in Index \ Active : analysts'[i] = analysts[i]
         /\ \A i \in Active :
              /\ Len(analysts'[i].responses) = Len(analysts[i].responses) + 1
              /\ get_response(analysts'[i], Len(analysts[i].responses)).at = clock'
<1>1. PICK outcome \in [Active -> Outcome] :
        /\ clock' = clock + 1
        /\ analysts' = [i \in Index |->
             IF i \in Active
               THEN Asked(analysts[i], outcome[i], clock + 1)
               ELSE analysts[i]]
  BY DEF ExecuteRound
<1>2. \A i \in Index : analysts[i] \in AnalystRecord
  BY DEF ListOK, Index
<1>3. clock' \in Nat /\ Len(analysts) \in Nat /\ Index = 1 .. Len(analysts)
  BY <1>1 DEF ListOK, Index
<1>4. ASSUME NEW i \in Active
      PROVE  /\ analysts'[i] \in AnalystRecord
             /\ analysts'[i].base = analysts[i].base
             /\ is_active(analysts'[i])
             /\ Len(analysts'[i].responses) = Len(analysts[i].responses) + 1
             /\ get_response(analysts'[i], Len(analysts[i].responses)).at = clock'
  <2>1. /\ i \in Index /\ analysts[i] \in AnalystRecord /\ is_active(analysts[i])
        /\ analysts'[i] = Asked(analysts[i], outcome[i], clock') /\ outcome[i] \in Outcome
    BY <1>1, <1>2 DEF Active
  <2>2. CASE outcome[i] = QueryFailed
    <3>1. analysts'[i] = push_response(analysts[i], 0, clock')
      BY <2>1, <2>2 DEF Asked, Failed
    <3>2. /\ analysts'[i] \in AnalystRecord /\ analysts'[i].base = analysts[i].base
      <4>1. 0 \in Nat /\ clock' \in Nat /\ analysts[i] \in AnalystRecord
        BY <1>3, <2>1
      <4>2. /\ push_response(analysts[i], 0, clock') \in AnalystRecord
            /\ push_response(analysts[i], 0, clock').base = analysts[i].base
        BY ONLY <4>1, PushResponseType
      <4> QED BY ONLY <3>1, <4>2
    <3>3. is_active(analysts'[i])
      BY <2>1, <3>1 DEF push_response, is_active, AnalystRecord
    <3>4. analysts'[i].responses
            = Append(analysts[i].responses, [len |-> 0, at |-> clock'])
      BY <1>3, <2>1, <3>1, AskedResponses
    <3> QED BY <1>3, <2>1, <3>2, <3>3, <3>4, OneMoreResponse
  <2>3. CASE outcome[i] # QueryFailed
    <3>1. outcome[i] \in Lengths /\ outcome[i] \in Nat
      BY <2>1, <2>3 DEF Outcome
    <3>2. analysts'[i] = Answered(analysts[i], outcome[i], clock')
      BY <2>1, <2>3 DEF Asked
    <3>3. /\ analysts'[i] \in AnalystRecord /\ analysts'[i].base = analysts[i].base
      <4>1. outcome[i] \in Lengths /\ clock' \in Nat /\ analysts[i] \in AnalystRecord
        BY <1>3, <2>1, <3>1
      <4>2. /\ Answered(analysts[i], outcome[i], clock') \in AnalystRecord
            /\ Answered(analysts[i], outcome[i], clock').base = analysts[i].base
        BY ONLY <4>1, AnsweredType
      <4> QED BY ONLY <3>2, <4>2
    <3>4. is_active(analysts'[i])
      BY <2>1, <3>2 DEF Answered, record_round_activity, push_response, is_active,
         AnalystRecord
    <3>5. analysts'[i].responses
            = Append(analysts[i].responses, [len |-> outcome[i], at |-> clock'])
      BY <1>3, <2>1, <3>1, <3>2, AskedResponses
    <3> QED BY <1>3, <2>1, <3>1, <3>3, <3>4, <3>5, OneMoreResponse
  <2> QED BY <2>2, <2>3
<1>5. ASSUME NEW i \in Index, i \notin Active
      PROVE  analysts'[i] = analysts[i] /\ ~is_active(analysts'[i])
  BY <1>1, <1>5 DEF Active
<1>6. \A i \in Index : /\ analysts'[i] \in AnalystRecord
                       /\ analysts'[i].base = analysts[i].base
                       /\ is_active(analysts'[i]) <=> i \in Active
  BY <1>2, <1>4, <1>5
<1>7. /\ analysts' \in Seq(AnalystRecord) /\ Len(analysts') = Len(analysts)
      /\ Index' = Index
  <2>1. DOMAIN analysts' = Index /\ analysts' = [i \in Index |-> analysts'[i]]
    BY <1>1
  <2>2. analysts' \in [1 .. Len(analysts) -> AnalystRecord]
    BY <1>3, <1>6, <2>1
  <2>3. analysts' \in Seq(AnalystRecord)
    BY <1>3, <2>2, SeqDef
  <2>4. Len(analysts') = Len(analysts)
    BY <1>3, <2>2, <2>3, LenProperties
  <2> QED BY <2>3, <2>4 DEF Index
<1>8. ListOK'
  BY <1>6, <1>7 DEF ListOK, BaseInFront
<1>9. Active' = Active
  BY <1>6, <1>7 DEF Active
<1> QED BY <1>1, <1>3, <1>4, <1>5, <1>7, <1>8, <1>9

-----------------------------------------------------------------------------
(* The inductive invariant of the parallel round. *)

\* Where the threads are follows from how far the caller has come.
ThreadsFollowCaller ==
  /\ clock <= RoundBound
  /\ cursor <= Len(analysts) + 1
  /\ caller = "outside" => cursor = 1 /\ counter = 0
  /\ caller # "outside" => clock # 0
  /\ caller = "outside" => \A i \in Slot : thread[i] \notin Running
  /\ caller = "start" => \A i \in Slot : i >= cursor => thread[i] = "none"
  /\ caller = "join" => \A i \in Slot : i < cursor => thread[i] \notin Running
  /\ caller # "outside" =>
       \A i \in Slot : i > Len(analysts) => thread[i] = "none"

\* A lost increment may lower the counter, but never below one: what a thread
\* stores is one more than a value that some successes have been counted in.
CountBounded ==
  /\ caller # "outside" =>
       /\ counter = 0 <=> Succeeded = {}
       /\ counter <= Cardinality(Succeeded)
  /\ \A i \in Slot : thread[i] = "store" => loaded[i] <= Cardinality(Succeeded)

\* An analyst whose thread is in state t differs from what it was before the
\* round by that thread's query and by nothing else.
AnalystSoFar(i, t) ==
  /\ t \in {"none", "query"} => analysts[i] = before[i]
  /\ t # "none" => is_active(before[i])
  /\ t \in {"load", "store", "ok"} =>
       \E len \in Lengths : analysts[i] = Answered(before[i], len, clock)
  /\ t = "failed" => analysts[i] = Failed(before[i], clock)
  /\ t = "none" /\ (caller = "join" \/ i < cursor) => ~is_active(before[i])

RoundSoFar ==
  caller # "outside" =>
    /\ Len(before) = Len(analysts)
    /\ \A i \in Index : AnalystSoFar(i, thread[i])

IInv ==
  /\ PoolTypeOK
  /\ BaseInFront
  /\ ThreadsFollowCaller
  /\ CountBounded
  /\ RoundSoFar

LEMMA InitIInv == PoolInit => IInv
<1> SUFFICES ASSUME PoolInit PROVE IInv
  OBVIOUS
<1>1. ListOK
  BY NewPoolList DEF PoolInit, AtomicInit
<1>2. PoolTypeOK
  BY <1>1, EmptySeq DEF PoolInit, NoRound, AtomicInit, ListOK, PoolTypeOK, ThreadState, Slot
<1>3. ThreadsFollowCaller
  BY <1>1 DEF PoolInit, NoRound, AtomicInit, ListOK, ThreadsFollowCaller, Running, Slot
<1>4. CountBounded /\ RoundSoFar
  BY DEF PoolInit, NoRound, CountBounded, RoundSoFar
<1> QED BY <1>1, <1>2, <1>3, <1>4 DEF IInv, ListOK

-----------------------------------------------------------------------------
(* Each step preserves the invariant: first the steps of the caller. *)

LEMMA OwnerStepIInv == IInv /\ OwnerStep => IInv'
<1> SUFFICES ASSUME IInv, OwnerStep PROVE IInv'
  OBVIOUS
<1> USE DEF OwnerStep, roundVars
<1>1. ListOK'
  BY OwnerKeepsList DEF IInv, PoolTypeOK, ListOK
<1>2. PoolTypeOK'
  BY <1>1 DEF IInv, PoolTypeOK, ListOK, Owner
<1>3. ThreadsFollowCaller'
  BY <1>1 DEF IInv, PoolTypeOK, ThreadsFollowCaller, ListOK, Owner
<1>4. CountBounded' /\ RoundSoFar'
  BY DEF IInv, CountBounded, RoundSoFar, Succeeded, Slot
<1> QED BY <1>1, <1>2, <1>3, <1>4 DEF IInv, ListOK

LEMMA CallIInv == IInv /\ Call => IInv'
<1> SUFFICES ASSUME IInv, Call PROVE IInv'
  OBVIOUS
<1> USE DEF Call
<1>1. PoolTypeOK' /\ BaseInFront'
  BY DEF IInv, PoolTypeOK, BaseInFront, Index, ThreadState, Slot
<1>2. ThreadsFollowCaller'
  BY DEF IInv, PoolTypeOK, ThreadsFollowCaller, Running, Slot
<1>3. Succeeded' = {} /\ counter' = 0
  BY DEF IInv, ThreadsFollowCaller, Succeeded, Slot
<1>4. CountBounded'
  BY <1>3, FS_EmptySet DEF CountBounded, Slot
<1>5. RoundSoFar'
  BY DEF IInv, PoolTypeOK, RoundSoFar, AnalystSoFar, Index, Slot
<1> QED BY <1>1, <1>2, <1>4, <1>5 DEF IInv

LEMMA StartIInv == IInv /\ Start => IInv'
<1> SUFFICES ASSUME IInv, Start PROVE IInv'
  OBVIOUS
<1> USE DEF Start
<1>1. cursor \in Slot /\ thread[cursor] = "none"
  BY DEF IInv, PoolTypeOK, ThreadsFollowCaller, Index, Slot
<1>2. \A i \in Slot : (thread'[i] = "query" /\ i = cursor) \/ thread'[i] = thread[i]
  BY <1>1 DEF IInv, PoolTypeOK
<1>3. PoolTypeOK' /\ BaseInFront'
  BY <1>1 DEF IInv, PoolTypeOK, BaseInFront, Index, ThreadState, Running, Slot
<1>4. ThreadsFollowCaller'
  BY <1>2 DEF IInv, PoolTypeOK, ThreadsFollowCaller, Index, Slot
<1>5. CountBounded'
  <2>1. Succeeded' = Succeeded
    BY <1>1, <1>2 DEF Succeeded, Slot
  <2> QED BY <1>2, <2>1 DEF IInv, CountBounded, Slot
<1>6. RoundSoFar'
  <2>1. ASSUME NEW i \in Index PROVE AnalystSoFar(i, thread[i])' 
    <3>1. AnalystSoFar(i, thread[i]) /\ i \in Slot
      BY DEF IInv, PoolTypeOK, RoundSoFar, Index, Slot
    <3>2. CASE i = cursor
      BY <1>1, <3>1, <3>2 DEF IInv, PoolTypeOK, AnalystSoFar
    <3>3. CASE i # cursor
      BY <1>1, <3>1, <3>3 DEF IInv, PoolTypeOK, AnalystSoFar, Index
    <3> QED BY <3>2, <3>3
  <2> QED BY <2>1 DEF IInv, RoundSoFar, Index
<1> QED BY <1>3, <1>4, <1>5, <1>6 DEF IInv

LEMMA StartThrowsIInv == IInv /\ StartThrows => IInv'
<1> SUFFICES ASSUME IInv, StartThrows PROVE IInv'
  OBVIOUS
<1> USE DEF StartThrows, ThreadRefused, StartedAny
<1>1. clock' \in Nat /\ clock' <= RoundBound
  BY DEF IInv, PoolTypeOK, ThreadsFollowCaller
<1>2. PoolTypeOK' /\ BaseInFront'
  BY <1>1, EmptySeq DEF IInv, PoolTypeOK, BaseInFront, Index
<1>3. Succeeded = {}
  BY DEF Succeeded
<1>4. ThreadsFollowCaller'
  BY <1>1, <1>3 DEF IInv, PoolTypeOK, ThreadsFollowCaller, CountBounded, Running
<1>5. CountBounded' /\ RoundSoFar'
  BY DEF IInv, CountBounded, RoundSoFar, Succeeded, Slot
<1> QED BY <1>2, <1>4, <1>5 DEF IInv

LEMMA StartTerminatesIInv == IInv /\ StartTerminates => IInv'
<1> SUFFICES ASSUME IInv, StartTerminates PROVE IInv'
  OBVIOUS
<1> USE DEF StartTerminates, ThreadRefused
<1>1. PoolTypeOK' /\ BaseInFront'
  BY DEF IInv, PoolTypeOK, BaseInFront, Index
<1>2. ThreadsFollowCaller'
  BY DEF IInv, PoolTypeOK, ThreadsFollowCaller, Index, Slot
<1>3. CountBounded'
  BY DEF IInv, CountBounded, Succeeded, Slot
<1>4. RoundSoFar'
  BY DEF IInv, PoolTypeOK, RoundSoFar, AnalystSoFar, Index
<1> QED BY <1>1, <1>2, <1>3, <1>4 DEF IInv

LEMMA AllStartedIInv == IInv /\ AllStarted => IInv'
<1> SUFFICES ASSUME IInv, AllStarted PROVE IInv'
  OBVIOUS
<1> USE DEF AllStarted
<1>1. PoolTypeOK' /\ BaseInFront'
  BY DEF IInv, PoolTypeOK, BaseInFront, Index
<1>2. ThreadsFollowCaller'
  BY DEF IInv, PoolTypeOK, ThreadsFollowCaller, Index, Slot
<1>3. CountBounded'
  BY DEF IInv, CountBounded, Succeeded, Slot
<1>4. RoundSoFar'
  BY DEF IInv, PoolTypeOK, RoundSoFar, AnalystSoFar, Index
<1> QED BY <1>1, <1>2, <1>3, <1>4 DEF IInv

LEMMA JoinIInv == IInv /\ Join => IInv'
<1> SUFFICES ASSUME IInv, Join PROVE IInv'
  OBVIOUS
<1> USE DEF Join
<1>1. PoolTypeOK' /\ BaseInFront'
  BY DEF IInv, PoolTypeOK, BaseInFront, Index
<1>2. ThreadsFollowCaller'
  BY DEF IInv, PoolTypeOK, ThreadsFollowCaller, Index, Slot
<1>3. CountBounded'
  BY DEF IInv, CountBounded, Succeeded, Slot
<1>4. RoundSoFar'
  BY DEF IInv, PoolTypeOK, RoundSoFar, AnalystSoFar, Index
<1> QED BY <1>1, <1>2, <1>3, <1>4 DEF IInv

LEMMA ReturnIInv == IInv /\ Return => IInv'
<1> SUFFICES ASSUME IInv, Return PROVE IInv'
  OBVIOUS
<1> USE DEF Return
<1>1. PoolTypeOK' /\ BaseInFront'
  BY EmptySeq DEF IInv, PoolTypeOK, BaseInFront, Index
<1>2. ThreadsFollowCaller'
  <2>1. cursor > Len(analysts)
    BY DEF IInv, PoolTypeOK, Index
  <2>2. \A i \in Slot : thread[i] \notin Running
    <3> SUFFICES ASSUME NEW i \in Slot PROVE thread[i] \notin Running
      OBVIOUS
    <3>1. CASE i < cursor
      BY <3>1 DEF IInv, ThreadsFollowCaller
    <3>2. CASE i > Len(analysts)
      BY <3>2 DEF IInv, ThreadsFollowCaller, Running
    <3> QED BY <2>1, <3>1, <3>2 DEF IInv, PoolTypeOK, Slot
  <2>3. 1 <= Len(analysts) + 1
    BY DEF IInv, PoolTypeOK
  <2> QED BY <2>2, <2>3 DEF IInv, ThreadsFollowCaller
<1>3. CountBounded' /\ RoundSoFar'
  BY DEF IInv, CountBounded, RoundSoFar, Succeeded, Slot
<1> QED BY <1>1, <1>2, <1>3 DEF IInv

-----------------------------------------------------------------------------
(* The steps of a thread. *)

LEMMA RunningInRound ==
  ASSUME IInv, NEW i \in Slot, thread[i] \in Running
  PROVE  /\ caller # "outside"
         /\ i \in Index
         /\ analysts[i] \in AnalystRecord
         /\ caller = "start" => i < cursor
         /\ caller = "join" => i >= cursor
<1>1. caller # "outside" /\ thread[i] # "none"
  BY DEF IInv, ThreadsFollowCaller, Running
<1>2. i \in Index
  BY <1>1 DEF IInv, PoolTypeOK, ThreadsFollowCaller, Index, Slot
<1> QED BY <1>1, <1>2 DEF IInv, PoolTypeOK, ThreadsFollowCaller, Index, Slot

LEMMA SucceededFinite == IsFiniteSet(Succeeded) /\ Cardinality(Succeeded) \in Nat
<1>1. IsFiniteSet(Slot)
  BY FS_Interval DEF Slot
<1>2. Succeeded \in SUBSET Slot
  BY DEF Succeeded
<1> QED BY <1>1, <1>2, FS_Subset, FS_CardinalityType

\* A query ends: the analyst has its answer or an empty one, and its thread is
\* about to count the success or has ended.
LEMMA QueryEnds ==
  ASSUME IInv, NEW i \in Slot, thread[i] = "query",
         NEW b, NEW state \in {"load", "failed"},
         \/ state = "load" /\ \E len \in Lengths : b = Answered(analysts[i], len, clock)
         \/ state = "failed" /\ b = Failed(analysts[i], clock),
         thread' = [thread EXCEPT ![i] = state],
         analysts' = [analysts EXCEPT ![i] = b],
         UNCHANGED <<clock, success_count, edits, caller, cursor, loaded,
                     counter, before>>
  PROVE  IInv'
<1>1. /\ caller # "outside" /\ i \in Index /\ analysts[i] \in AnalystRecord
      /\ caller = "start" => i < cursor
      /\ caller = "join" => i >= cursor
  BY RunningInRound DEF Running
<1>2. b \in AnalystRecord /\ b.base = analysts[i].base
  <2>1. clock \in Nat
    BY DEF IInv, PoolTypeOK
  <2>2. CASE \E len \in Lengths : b = Answered(analysts[i], len, clock)
    BY <1>1, <2>1, <2>2, AnsweredType
  <2>3. CASE b = Failed(analysts[i], clock)
    BY <1>1, <2>1, <2>3, FailedType
  <2> QED BY <2>2, <2>3
<1>3. PoolTypeOK' /\ BaseInFront' /\ Len(analysts') = Len(analysts)
  <2>1. ListOK' /\ Len(analysts') = Len(analysts)
    <3>1. ListOK
      BY DEF IInv, PoolTypeOK, ListOK
    <3>2. ListOK'
      BY <1>1, <1>2, <3>1, ReplaceKeepsList
    <3>3. Len(analysts') = Len(analysts)
      BY <1>1, <1>2 DEF IInv, PoolTypeOK, Index
    <3> QED BY <3>2, <3>3
  <2>2. thread' \in [Slot -> ThreadState]
    BY DEF IInv, PoolTypeOK, ThreadState, Running
  <2> QED BY <2>1, <2>2 DEF IInv, PoolTypeOK, ListOK
<1>4. \A j \in Slot : j # i => thread'[j] = thread[j]
  BY DEF IInv, PoolTypeOK
<1>5. thread'[i] = state
  BY DEF IInv, PoolTypeOK
<1>6. ThreadsFollowCaller'
  <2>1. cursor' <= Len(analysts') + 1
    BY <1>3 DEF IInv, ThreadsFollowCaller
  <2>2. caller = "start" => \A j \in Slot : j >= cursor => thread'[j] = "none"
    BY <1>1, <1>4 DEF IInv, PoolTypeOK, ThreadsFollowCaller, Slot
  <2>3. caller = "join" => \A j \in Slot : j < cursor => thread'[j] \notin Running
    BY <1>1, <1>4 DEF IInv, PoolTypeOK, ThreadsFollowCaller, Slot
  <2>4. \A j \in Slot : j > Len(analysts') => thread'[j] = "none"
    BY <1>1, <1>3, <1>4 DEF IInv, PoolTypeOK, ThreadsFollowCaller, Index, Slot
  <2> QED BY <1>1, <2>1, <2>2, <2>3, <2>4 DEF IInv, ThreadsFollowCaller
<1>7. CountBounded'
  <2>1. Succeeded' = Succeeded
    BY <1>4, <1>5 DEF Succeeded, Slot
  <2> QED BY <1>1, <1>4, <1>5, <2>1 DEF IInv, CountBounded, Slot
<1>8. RoundSoFar'
  <2>1. ASSUME NEW j \in Index PROVE AnalystSoFar(j, thread[j])'
    <3>1. AnalystSoFar(j, thread[j]) /\ j \in Slot
      BY <1>1 DEF IInv, PoolTypeOK, RoundSoFar, Index, Slot
    <3>2. CASE j = i
      <4>1. analysts[i] = before[i] /\ is_active(before[i])
        BY <3>1, <3>2 DEF AnalystSoFar
      <4>2. analysts'[i] = b
        BY <1>1 DEF IInv, PoolTypeOK, Index
      <4> QED BY <1>5, <3>2, <4>1, <4>2 DEF AnalystSoFar
    <3>3. CASE j # i
      <4>1. analysts'[j] = analysts[j]
        BY <3>3 DEF IInv, PoolTypeOK, Index
      <4> QED BY <1>4, <3>1, <3>3, <4>1 DEF AnalystSoFar
    <3> QED BY <3>2, <3>3
  <2>2. Len(before) = Len(analysts)
    BY <1>1 DEF IInv, RoundSoFar
  <2> QED BY <1>3, <2>1, <2>2 DEF RoundSoFar, Index
<1> QED BY <1>3, <1>6, <1>7, <1>8 DEF IInv

\* Steps of a thread that leave its analyst alone.
LEMMA ThreadCounts ==
  ASSUME IInv, NEW i \in Slot, NEW state,
         \/ thread[i] = "load" /\ state = "store"
         \/ thread[i] = "store" /\ state = "ok",
         thread' = [thread EXCEPT ![i] = state],
         UNCHANGED <<analysts, clock, caller, cursor, before>>
  PROVE  ThreadsFollowCaller' /\ RoundSoFar' /\ thread' \in [Slot -> ThreadState]
<1>1. /\ caller # "outside" /\ i \in Index
      /\ caller = "start" => i < cursor
      /\ caller = "join" => i >= cursor
  BY RunningInRound DEF Running
<1>2. /\ \A j \in Slot : j # i => thread'[j] = thread[j]
      /\ thread'[i] = state
  BY DEF IInv, PoolTypeOK
<1>3. ThreadsFollowCaller'
  <2>1. caller = "start" => \A j \in Slot : j >= cursor => thread'[j] = "none"
    BY <1>1, <1>2 DEF IInv, PoolTypeOK, ThreadsFollowCaller, Slot
  <2>2. caller = "join" => \A j \in Slot : j < cursor => thread'[j] \notin Running
    BY <1>1, <1>2 DEF IInv, PoolTypeOK, ThreadsFollowCaller, Slot
  <2>3. \A j \in Slot : j > Len(analysts) => thread'[j] = "none"
    BY <1>1, <1>2 DEF IInv, PoolTypeOK, ThreadsFollowCaller, Index, Slot
  <2> QED BY <1>1, <2>1, <2>2, <2>3 DEF IInv, ThreadsFollowCaller
<1>4. ASSUME NEW j \in Index PROVE AnalystSoFar(j, thread[j])'
  <2>1. AnalystSoFar(j, thread[j]) /\ j \in Slot
    BY <1>1 DEF IInv, PoolTypeOK, RoundSoFar, Index, Slot
  <2>2. CASE j = i
    BY <1>2, <2>1, <2>2 DEF AnalystSoFar
  <2>3. CASE j # i
    BY <1>2, <2>1, <2>3 DEF AnalystSoFar
  <2> QED BY <2>2, <2>3
<1>5. RoundSoFar'
  BY <1>4 DEF IInv, RoundSoFar, Index
<1>6. thread' \in [Slot -> ThreadState]
  BY DEF IInv, PoolTypeOK, ThreadState, Running
<1> QED BY <1>3, <1>5, <1>6

LEMMA LoadIInv == ASSUME IInv, NEW i \in Slot, LoadCount(i) PROVE IInv'
<1> USE DEF LoadCount
<1>1. ThreadsFollowCaller' /\ RoundSoFar' /\ thread' \in [Slot -> ThreadState]
  BY ThreadCounts
<1>2. PoolTypeOK' /\ BaseInFront'
  BY <1>1 DEF IInv, PoolTypeOK, BaseInFront, Index
<1>3. Succeeded' = Succeeded
  BY DEF IInv, PoolTypeOK, Succeeded, Slot
<1>4. caller # "outside"
  BY RunningInRound DEF Running
<1>5. \A j \in Slot : thread'[j] = "store" => loaded'[j] <= Cardinality(Succeeded)
  BY <1>4 DEF IInv, PoolTypeOK, CountBounded
<1>6. CountBounded'
  BY <1>3, <1>5 DEF IInv, CountBounded
<1> QED BY <1>1, <1>2, <1>6 DEF IInv

LEMMA StoreIInv == ASSUME IInv, NEW i \in Slot, StoreCount(i) PROVE IInv'
<1> USE DEF StoreCount
<1>1. ThreadsFollowCaller' /\ RoundSoFar' /\ thread' \in [Slot -> ThreadState]
  BY ThreadCounts
<1>2. PoolTypeOK' /\ BaseInFront'
  BY <1>1 DEF IInv, PoolTypeOK, BaseInFront, Index
<1>3. Succeeded' = Succeeded \cup {i} /\ i \notin Succeeded
  BY DEF IInv, PoolTypeOK, Succeeded, Slot
<1>4. Cardinality(Succeeded') = Cardinality(Succeeded) + 1
  BY <1>3, SucceededFinite, FS_AddElement
<1>5. loaded[i] <= Cardinality(Succeeded) /\ loaded[i] \in Nat
  BY DEF IInv, PoolTypeOK, CountBounded
<1>6. counter' # 0 /\ counter' <= Cardinality(Succeeded')
  BY <1>4, <1>5, SucceededFinite
<1>7. \A j \in Slot : thread'[j] = "store" => loaded'[j] <= Cardinality(Succeeded')
  BY <1>4, SucceededFinite DEF IInv, PoolTypeOK, CountBounded
<1>8. CountBounded'
  BY <1>3, <1>6, <1>7 DEF CountBounded
<1> QED BY <1>1, <1>2, <1>8 DEF IInv

-----------------------------------------------------------------------------
(* The theorems. *)

LEMMA NextIInv == IInv /\ [PoolNext]_vars => IInv'
<1> SUFFICES ASSUME IInv, [PoolNext]_vars PROVE IInv'
  OBVIOUS
<1>1. ASSUME NEW i \in Slot, Thread(i) PROVE IInv'
  <2>1. ASSUME NEW len \in Lengths, QuerySucceeds(i, len) PROVE IInv'
    BY <2>1, QueryEnds DEF QuerySucceeds
  <2>2. CASE QueryFails(i)
    BY <2>2, QueryEnds DEF QueryFails
  <2> QED BY <1>1, <2>1, <2>2, LoadIInv, StoreIInv DEF Thread
<1>2. CASE UNCHANGED vars
  BY <1>2 DEF vars, IInv, PoolTypeOK, BaseInFront, ThreadsFollowCaller,
              CountBounded, RoundSoFar, AnalystSoFar, Succeeded, Index
<1> QED
  BY <1>1, <1>2, OwnerStepIInv, CallIInv, StartIInv, StartThrowsIInv,
     StartTerminatesIInv, AllStartedIInv, JoinIInv, ReturnIInv DEF PoolNext, CallerStep

\* The invariant holds in every state of the parallel round.
THEOREM PoolInvariant == PoolSpec => []IInv
  BY InitIInv, NextIInv, PTL DEF PoolSpec

\* The state of a pool is of its type in every execution: in particular the
\* capacity is never exceeded.
THEOREM PoolTypeCorrect == PoolSpec => []PoolTypeOK
  BY PoolInvariant, PTL DEF IInv

\* For any number of analysts and any interleaving of their threads, the racy
\* counter of execute_round tells "nobody succeeded" from "somebody did" and
\* never overstates the successes.
THEOREM CountAlwaysDecides == PoolSpec => []CountDecides
<1>1. IInv => CountDecides
  BY DEF IInv, CountBounded, CountDecides
<1> QED BY <1>1, PoolInvariant, PTL

\* No thread of a round runs after execute_round has returned.
THEOREM NoThreadLeft == PoolSpec => []NoThreadOutlivesRound
<1>1. IInv => NoThreadOutlivesRound
  BY DEF IInv, ThreadsFollowCaller, NoThreadOutlivesRound
<1> QED BY <1>1, PoolInvariant, PTL

\* Whatever the owner adds and removes, the static roles come first and keep
\* indices that the pruning loop does not reach.
THEOREM BaseAlwaysInFront == PoolSpec => []BaseInFront
  BY PoolInvariant, PTL DEF IInv

-----------------------------------------------------------------------------
(* A round asks every active analyst once. *)

LEMMA RoundOverIsAskedOnce ==
  ASSUME IInv, caller = "join", cursor \notin Index, NEW i \in Index
  PROVE  /\ before[i] \in AnalystRecord
         /\ \/ /\ thread[i] = "none" /\ ~is_active(before[i])
               /\ analysts[i] = before[i]
            \/ /\ thread[i] = "ok" /\ is_active(before[i])
               /\ \E len \in Lengths : analysts[i] = Answered(before[i], len, clock)
            \/ /\ thread[i] = "failed" /\ is_active(before[i])
               /\ analysts[i] = Failed(before[i], clock)
<1>1. i \in Slot /\ i < cursor
  BY DEF IInv, PoolTypeOK, Index, Slot
<1>2. thread[i] \in {"none", "ok", "failed"}
  BY <1>1 DEF IInv, PoolTypeOK, ThreadsFollowCaller, ThreadState
<1>3. AnalystSoFar(i, thread[i]) /\ Len(before) = Len(analysts)
  BY DEF IInv, RoundSoFar
<1>4. before[i] \in AnalystRecord
  BY <1>3 DEF IInv, PoolTypeOK, Index
<1>5. CASE thread[i] = "none"
  BY <1>3, <1>4, <1>5 DEF AnalystSoFar
<1>6. CASE thread[i] = "ok"
  BY <1>3, <1>4, <1>6 DEF AnalystSoFar
<1>7. CASE thread[i] = "failed"
  BY <1>3, <1>4, <1>7 DEF AnalystSoFar
<1> QED BY <1>2, <1>5, <1>6, <1>7

LEMMA RoundAsksOnce == IInv => AskedOnce
<1> SUFFICES ASSUME IInv, caller = "join", cursor \notin Index PROVE
      /\ Len(analysts) = Len(before)
      /\ \A i \in Index :
           IF is_active(before[i])
             THEN /\ SubSeq(analysts[i].responses, 1, Len(before[i].responses))
                       = before[i].responses
                  /\ Len(analysts[i].responses) = Len(before[i].responses) + 1
                  /\ get_response(analysts[i], Len(before[i].responses)).at
                       = clock
             ELSE analysts[i] = before[i]
  BY DEF AskedOnce
<1>1. Len(analysts) = Len(before) /\ clock \in Nat
  BY DEF IInv, PoolTypeOK, RoundSoFar
<1>2. ASSUME NEW i \in Index, is_active(before[i])
      PROVE  \E len \in Nat :
               analysts[i].responses
                 = Append(before[i].responses, [len |-> len, at |-> clock])
  <2>1. before[i] \in AnalystRecord
    BY RoundOverIsAskedOnce
  <2>2. CASE \E len \in Lengths : analysts[i] = Answered(before[i], len, clock)
    <3>1. PICK len \in Lengths : analysts[i] = Answered(before[i], len, clock)
      BY <2>2
    <3>2. len \in Nat
      OBVIOUS
    <3>3. analysts[i].responses
            = Append(before[i].responses, [len |-> len, at |-> clock])
      BY <1>1, <2>1, <3>1, <3>2, AskedResponses
    <3> QED BY <3>2, <3>3
  <2>3. CASE analysts[i] = Failed(before[i], clock)
    BY <1>1, <2>1, <2>3, AskedResponses DEF Failed
  <2> QED BY <1>2, <2>2, <2>3, RoundOverIsAskedOnce
<1>3. ASSUME NEW i \in Index, is_active(before[i])
      PROVE  /\ SubSeq(analysts[i].responses, 1, Len(before[i].responses))
                  = before[i].responses
             /\ Len(analysts[i].responses) = Len(before[i].responses) + 1
             /\ get_response(analysts[i], Len(before[i].responses)).at = clock
  <2>1. before[i] \in AnalystRecord
    BY RoundOverIsAskedOnce
  <2>2. PICK len \in Nat :
          analysts[i].responses
            = Append(before[i].responses, [len |-> len, at |-> clock])
    BY <1>2, <1>3
  <2> DEFINE a == before[i]
             b == analysts[i]
  <2>3. /\ a \in AnalystRecord
        /\ b.responses = Append(a.responses, [len |-> len, at |-> clock])
    BY <2>1, <2>2
  <2> HIDE DEF a, b
  <2>4. /\ SubSeq(b.responses, 1, Len(a.responses)) = a.responses
        /\ Len(b.responses) = Len(a.responses) + 1
        /\ get_response(b, Len(a.responses)).at = clock
    BY <1>1, <2>3, OneMoreResponse
  <2> QED BY <2>4 DEF a, b
<1>4. ASSUME NEW i \in Index, ~is_active(before[i])
      PROVE  analysts[i] = before[i]
  BY <1>4, RoundOverIsAskedOnce
<1> QED BY <1>1, <1>3, <1>4

\* However its threads interleave, a round asks each analyst that was active
\* when it began exactly once and leaves the others as they were.
THEOREM EveryoneAskedOnce == PoolSpec => []AskedOnce
  BY PoolInvariant, RoundAsksOnce, PTL

-----------------------------------------------------------------------------
(* The round as the code runs it implements the round as one step. *)

\* Operators without variables mean the same in the instance as here.
LEMMA SameOperators ==
  /\ \A b : Atomic!NewAnalyst(b) = NewAnalyst(b)
  /\ \A n : Atomic!NewPool(n) = NewPool(n)
  /\ \A s, i : Atomic!RemoveAt(s, i) = RemoveAt(s, i)
  /\ \A S : Atomic!Cardinality(S) = Cardinality(S)
  /\ Atomic!QueryFailed = QueryFailed /\ Atomic!Outcome = Outcome
  /\ \A a : /\ Atomic!is_active(a) = is_active(a)
            /\ Atomic!record_proposal_adopted(a) = record_proposal_adopted(a)
            /\ Atomic!record_challenge_won(a) = record_challenge_won(a)
            /\ Atomic!mark_pruned(a) = mark_pruned(a)
            /\ Atomic!mark_complete(a) = mark_complete(a)
  /\ \A a, o, n : Atomic!Asked(a, o, n) = Asked(a, o, n)
<1>1. \A a, o, n : Atomic!Asked(a, o, n) = Asked(a, o, n)
  BY DEF Atomic!Asked, Asked, Atomic!Answered, Answered, Atomic!Failed, Failed,
         Atomic!record_round_activity, record_round_activity,
         Atomic!push_response, push_response, Atomic!QueryFailed, QueryFailed
<1>2. \A n : Atomic!NewPool(n) = NewPool(n)
  BY DEF Atomic!NewPool, NewPool, Atomic!BaseSize, BaseSize,
         Atomic!NewAnalyst, NewAnalyst
<1>3. \A s, i : Atomic!RemoveAt(s, i) = RemoveAt(s, i)
  BY DEF Atomic!RemoveAt, RemoveAt
<1>4. \A a : /\ Atomic!is_active(a) = is_active(a)
            /\ Atomic!record_proposal_adopted(a) = record_proposal_adopted(a)
            /\ Atomic!record_challenge_won(a) = record_challenge_won(a)
            /\ Atomic!mark_pruned(a) = mark_pruned(a)
            /\ Atomic!mark_complete(a) = mark_complete(a)
  BY DEF Atomic!is_active, is_active,
         Atomic!record_proposal_adopted, record_proposal_adopted,
         Atomic!record_challenge_won, record_challenge_won,
         Atomic!ScoreAdopted, ScoreAdopted,
         Atomic!ScoreChallengeWon, ScoreChallengeWon,
         Atomic!mark_pruned, mark_pruned, Atomic!mark_complete, mark_complete
<1>5. \A S : Atomic!Cardinality(S) = Cardinality(S)
  BY DEF Atomic!Cardinality, Cardinality
<1> QED
  BY <1>1, <1>2, <1>3, <1>4, <1>5
  DEF Atomic!NewAnalyst, NewAnalyst, Atomic!QueryFailed, QueryFailed,
      Atomic!Outcome, Outcome

LEMMA ReturnIsARound == IInv /\ Return => Atomic!ExecuteRound
<1> SUFFICES ASSUME IInv, Return PROVE Atomic!ExecuteRound
  OBVIOUS
<1> DEFINE active == {i \in 1 .. Len(before) : is_active(before[i])}
           outcome == [i \in active |->
                         IF thread[i] = "failed" THEN QueryFailed
                         ELSE CHOOSE len \in Lengths :
                                analysts[i] = Answered(before[i], len, clock)]
<1>1. Len(before) = Len(analysts) /\ clock \in Nat /\ clock <= RoundBound
      /\ analysts \in Seq(AnalystRecord)
  BY DEF IInv, PoolTypeOK, RoundSoFar, ThreadsFollowCaller, Return
<1>2. ASSUME NEW i \in active
      PROVE  /\ i \in Index
             /\ \/ /\ thread[i] = "ok"
                   /\ outcome[i] \in Lengths
                   /\ analysts[i] = Answered(before[i], outcome[i], clock)
                \/ /\ thread[i] = "failed"
                   /\ outcome[i] = QueryFailed
                   /\ analysts[i] = Failed(before[i], clock)
  BY <1>1, RoundOverIsAskedOnce DEF Return, Index
<1>3. ASSUME NEW i \in Index, i \notin active
      PROVE  thread[i] = "none" /\ analysts[i] = before[i]
  BY <1>1, <1>3, RoundOverIsAskedOnce DEF Return, Index
<1>4. outcome \in [active -> Outcome]
  BY <1>2 DEF Outcome
<1> HIDE DEF outcome
<1>5. {i \in active : outcome[i] # QueryFailed} = Succeeded
  <2>1. ASSUME NEW i \in Slot, thread[i] = "ok" PROVE i \in active
    <3>1. i \in Index
      <4>1. ~(i > Len(analysts))
        BY <2>1 DEF IInv, ThreadsFollowCaller, Return
      <4> QED BY <1>1, <4>1 DEF Index, Slot
    <3> QED BY <1>3, <2>1, <3>1
  <2>2. active \subseteq Slot
    BY <1>1 DEF IInv, PoolTypeOK, Slot
  <2>3. ASSUME NEW i \in active PROVE outcome[i] # QueryFailed <=> thread[i] = "ok"
    BY <1>2 DEF QueryFailed
  <2> QED BY <2>1, <2>2, <2>3 DEF Succeeded
<1>6. analysts = [i \in Index |-> IF i \in active THEN Asked(before[i], outcome[i], clock)
                                                ELSE before[i]]
  <2>1. analysts = [i \in Index |-> analysts[i]]
    BY <1>1 DEF Index
  <2>2. ASSUME NEW i \in active PROVE analysts[i] = Asked(before[i], outcome[i], clock)
    BY <1>2 DEF Asked, QueryFailed
  <2> QED BY <1>3, <2>1, <2>2
<1>7. /\ counter \in 0 .. Cardinality(Succeeded)
      /\ counter = 0 <=> Succeeded = {}
  BY SucceededFinite DEF IInv, PoolTypeOK, CountBounded, Return
<1>8. /\ Atomic!Index = Index
      /\ Atomic!Active = active
  BY <1>1, SameOperators DEF Return, Index, Atomic!Index, Atomic!Active
<1> HIDE DEF active
<1>9. /\ (IF caller = "outside" THEN analysts ELSE before) = before
      /\ (IF caller = "outside" THEN analysts ELSE before)' = analysts
      /\ (IF caller = "outside" THEN clock ELSE clock - 1) = clock - 1
      /\ (IF caller = "outside" THEN clock ELSE clock - 1)' = clock
      /\ success_count' = counter /\ edits' = edits
  BY DEF Return
<1>10. clock - 1 < RoundBound /\ (clock - 1) + 1 = clock
  BY <1>1
<1>11. outcome \in [Atomic!Active -> Atomic!Outcome]
  BY <1>4, <1>8, SameOperators
<1>12. {i \in Atomic!Active : outcome[i] # Atomic!QueryFailed} = Succeeded
  BY <1>5, <1>8, SameOperators
<1>13. analysts = [i \in Atomic!Index |->
                    IF i \in Atomic!Active
                      THEN Atomic!Asked(before[i], outcome[i], (clock - 1) + 1)
                      ELSE before[i]]
  BY <1>6, <1>8, <1>10, SameOperators
<1>14. /\ success_count' \in 0 .. Atomic!Cardinality(Succeeded)
       /\ success_count' = 0 <=> Succeeded = {}
  BY <1>7, <1>9, SameOperators
<1> QED
  BY <1>9, <1>10, <1>11, <1>12, <1>13, <1>14 DEF Atomic!ExecuteRound

\* Before its first thread a round has changed nobody.
LEMMA NothingStarted ==
  ASSUME IInv, caller = "start", ~StartedAny
  PROVE  before = analysts
<1>1. /\ analysts \in Seq(AnalystRecord) /\ before \in Seq(AnalystRecord)
      /\ Len(before) = Len(analysts)
  BY DEF IInv, PoolTypeOK, RoundSoFar
<1>2. \A i \in Index : i \in Slot /\ thread[i] = "none"
  BY DEF IInv, PoolTypeOK, Index, Slot, StartedAny
<1>3. \A i \in 1 .. Len(analysts) : before[i] = analysts[i]
  BY <1>2 DEF IInv, RoundSoFar, AnalystSoFar, Index
<1> QED BY <1>1, <1>3, SeqEqual

\* Every execution of the pool, its threads hidden, is one of AtomicPool: a
\* caller may reason about a round as a single step.
THEOREM PoolImplementsAtomic == PoolSpec => ImplementsAtomic
<1>1. PoolInit => Atomic!AtomicInit
  BY SameOperators DEF PoolInit, NoRound, AtomicInit, Atomic!AtomicInit
<1>2. IInv /\ [PoolNext]_vars => [Atomic!AtomicNext]_(Atomic!atomicVars)
  <2> SUFFICES ASSUME IInv, [PoolNext]_vars
               PROVE  Atomic!AtomicNext \/ UNCHANGED Atomic!atomicVars
    OBVIOUS
  <2>1. CASE OwnerStep
    <3>1. /\ caller = "outside" /\ caller' = "outside" /\ Owner
      BY <2>1 DEF OwnerStep, roundVars
    <3>2. /\ (IF caller = "outside" THEN analysts ELSE before) = analysts
          /\ (IF caller = "outside" THEN analysts ELSE before)' = analysts'
          /\ (IF caller = "outside" THEN clock ELSE clock - 1) = clock
          /\ (IF caller = "outside" THEN clock ELSE clock - 1)' = clock'
          /\ Atomic!Index = Index
      BY <3>1 DEF Atomic!Index, Index
    <3>3. add_analyst => Atomic!add_analyst
      BY <3>2, SameOperators DEF add_analyst, Atomic!add_analyst
    <3>4. \A i \in Index :
            /\ remove_analyst(i) => Atomic!remove_analyst(i)
            /\ ProposalAdopted(i) => Atomic!ProposalAdopted(i)
            /\ ChallengeWon(i) => Atomic!ChallengeWon(i)
            /\ MarkPruned(i) => Atomic!MarkPruned(i)
            /\ MarkComplete(i) => Atomic!MarkComplete(i)
      BY <3>2, SameOperators
      DEF remove_analyst, ProposalAdopted, ChallengeWon, MarkPruned,
          MarkComplete, Atomic!remove_analyst, Atomic!ProposalAdopted,
          Atomic!ChallengeWon, Atomic!MarkPruned, Atomic!MarkComplete
    <3> QED
      BY <3>1, <3>2, <3>3, <3>4 DEF Owner, Atomic!Owner, Atomic!AtomicNext
  <2>2. CASE Return
    BY <2>2, ReturnIsARound DEF Atomic!AtomicNext
  <2>3. CASE Call
    BY <2>3 DEF Call, IInv, PoolTypeOK, Atomic!atomicVars
  <2>4. CASE Start \/ StartTerminates \/ AllStarted \/ Join
    BY <2>4 DEF Start, StartTerminates, ThreadRefused, AllStarted, Join, Atomic!atomicVars
  <2>7. CASE StartThrows
    <3>1. before = analysts
      BY <2>7, NothingStarted DEF StartThrows, ThreadRefused
    <3> QED BY <2>7, <3>1 DEF StartThrows, ThreadRefused, Atomic!atomicVars
  <2>5. ASSUME NEW i \in Slot, Thread(i) PROVE UNCHANGED Atomic!atomicVars
    <3>1. caller # "outside"
      BY <2>5, RunningInRound
      DEF Thread, QuerySucceeds, QueryFails, LoadCount, StoreCount, Running
    <3> QED BY <2>5, <3>1
            DEF Thread, QuerySucceeds, QueryFails, LoadCount, StoreCount,
                Atomic!atomicVars
  <2>6. CASE UNCHANGED vars
    BY <2>6 DEF vars, Atomic!atomicVars
  <2> QED
    BY <2>1, <2>2, <2>3, <2>4, <2>5, <2>6, <2>7 DEF PoolNext, CallerStep
<1> QED
  BY <1>1, <1>2, PoolInvariant, PTL DEF PoolSpec, ImplementsAtomic, Atomic!AtomicSpec
=============================================================================
