--------------------------- MODULE DatabaseProofs ---------------------------
(***************************************************************************)
(* Proofs about Database, for any number of threads and statements.        *)
(***************************************************************************)
EXTENDS Database, TLAPS

USE DatabaseAssumption DEF DatabaseAssumption

(***************************************************************************)
(* The inductive invariant.  A scope's flag, its rows and what SQLite has  *)
(* done are tied together as long as SQLite has not aborted it.            *)
(***************************************************************************)

\* The connection sees the rows on disk and, in a transaction, more; rows that
\* were discarded are not among them.
Connection ==
  /\ sqlite.disk \subseteq sqlite.seen
  /\ ~sqlite.active => sqlite.seen = sqlite.disk
  /\ discarded \cap sqlite.seen = {}

\* The name of the next row is new.
Fresh ==
  \A n \in Row : n > calls =>
    /\ n \notin sqlite.seen /\ n \notin discarded
    /\ \A t \in Thread : n \notin own[t]

\* A live scope has the flag and, unless it was aborted, SQLite's transaction.
LiveFlag ==
  /\ in_transaction_ => db_
  /\ \A t \in Thread : scope[t] = "live" /\ db_ =>
       /\ in_transaction_
       /\ aborted[t] <=> ~sqlite.active

\* The rows of a scope that was not aborted are not on disk yet, and seen if
\* the connection is open.
ScopeRows ==
  \A t \in Thread : scope[t] = "live" /\ ~aborted[t] =>
    /\ own[t] \cap sqlite.disk = {}
    /\ db_ => own[t] \subseteq sqlite.seen

\* Nobody is in a transaction of a Database that is being moved into.
Moved ==
  moving # "no" =>
    /\ ~in_transaction_ /\ ~sqlite.active
    /\ \A t \in Thread : scope[t] # "live"

IInv ==
  /\ TypeOK /\ OneTransaction /\ NothingLeftOpen /\ CommitPersists
  /\ Connection /\ Fresh /\ LiveFlag /\ ScopeRows /\ Moved

LEMMA InitIInv == Init => IInv
<1> SUFFICES ASSUME Init PROVE IInv
  OBVIOUS
<1>1. /\ sqlite.disk = {} /\ sqlite.seen = {} /\ sqlite.active = FALSE
      /\ \A t \in Thread : scope[t] = "none" /\ own[t] = {}
  BY DEF Init
<1>2. sqlite \in [disk : SUBSET Row, seen : SUBSET Row, active : BOOLEAN]
  BY DEF Init
<1>3. /\ own \in [Thread -> SUBSET Row] /\ aborted \in [Thread -> BOOLEAN]
      /\ scope \in [Thread -> {"none", "live", "committed_"}]
  BY DEF Init
<1>4. calls \in 0 .. CallBound
  BY DEF Init
<1>5. TypeOK
  <2>1. db_ \in BOOLEAN /\ in_transaction_ \in BOOLEAN /\ moving = "no"
    BY DEF Init
  <2>2. promised \subseteq Row /\ discarded \subseteq Row
    BY DEF Init
  <2> QED BY <1>2, <1>3, <1>4, <2>1, <2>2 DEF TypeOK
<1>6. OneTransaction /\ NothingLeftOpen /\ CommitPersists
  BY <1>1 DEF Init, OneTransaction, NothingLeftOpen, CommitPersists
<1>7. Connection /\ Fresh /\ LiveFlag /\ ScopeRows /\ Moved
  BY <1>1 DEF Init, Connection, Fresh, LiveFlag, ScopeRows, Moved
<1> QED BY <1>5, <1>6, <1>7 DEF IInv

-----------------------------------------------------------------------------
(* One lemma for each action. *)

LEMMA ExecuteIInv ==
  ASSUME IInv, NEW t \in Thread, execute(t)
  PROVE  IInv'
<1> DEFINE n == calls + 1
<1>1. /\ n \in Row /\ calls' = n /\ n > calls
  BY DEF execute, IInv, TypeOK, Row
<1>2. CASE /\ sqlite' = Inserted(n)
           /\ own' = [own EXCEPT ![t] =
                IF scope[t] = "live" THEN @ \cup {n} ELSE @]
           /\ UNCHANGED aborted
  <2>1. /\ sqlite'.disk = IF sqlite.active THEN sqlite.disk
                          ELSE sqlite.disk \cup {n}
        /\ sqlite'.seen = sqlite.seen \cup {n}
        /\ sqlite'.active = sqlite.active
    BY <1>2 DEF Inserted
  <2>2. \A u \in Thread : own'[u] = own[u] \/ (u = t /\ scope[u] = "live" /\ own'[u] = own[u] \cup {n})
    BY <1>2 DEF IInv, TypeOK
  <2> HIDE DEF n
  <2>3. TypeOK'
    BY <1>1, <1>2, <2>1 DEF execute, IInv, TypeOK, Inserted, Row
  <2>4. OneTransaction' /\ NothingLeftOpen' /\ CommitPersists' /\ LiveFlag'
    BY <1>2, <2>1 DEF execute, IInv, OneTransaction, NothingLeftOpen,
                      CommitPersists, LiveFlag
  <2>5. Connection'
    BY <1>1, <2>1 DEF execute, IInv, Connection, Fresh, TypeOK
  <2>6. Fresh'
    BY <1>1, <2>1, <2>2 DEF execute, IInv, Fresh, TypeOK, Row
  <2>7. ASSUME NEW u \in Thread, scope[u] = "live", ~aborted[u]
        PROVE  /\ own'[u] \cap sqlite'.disk = {}
               /\ own'[u] \subseteq sqlite'.seen
    <3>1. sqlite.active /\ own[u] \cap sqlite.disk = {} /\ own[u] \subseteq sqlite.seen
      BY <2>7 DEF execute, IInv, LiveFlag, ScopeRows
    <3>2. n \notin sqlite.disk
      BY <1>1 DEF IInv, Fresh, Connection
    <3> QED BY <2>1, <2>2, <3>1, <3>2
  <2>8. ScopeRows' /\ Moved'
    BY <1>2, <2>1, <2>7 DEF execute, ScopeRows, IInv, Moved
  <2> QED BY <2>3, <2>4, <2>5, <2>6, <2>8 DEF IInv
<1>3. CASE sqlite.active /\ sqlite' = RolledBack /\ NoteAbort /\ UNCHANGED own
  <2>1. /\ sqlite'.disk = sqlite.disk /\ sqlite'.seen = sqlite.disk
        /\ sqlite'.active = FALSE
    BY <1>3 DEF RolledBack
  <2>2. \A u \in Thread : aborted'[u] <=> aborted[u] \/ scope[u] = "live"
    BY <1>3 DEF NoteAbort
  <2> HIDE DEF n
  <2>3. TypeOK'
    BY <1>1, <1>3 DEF execute, IInv, TypeOK, RolledBack, NoteAbort, Row
  <2>4. OneTransaction' /\ NothingLeftOpen' /\ CommitPersists' /\ LiveFlag'
    BY <2>1, <2>2 DEF execute, IInv, OneTransaction, NothingLeftOpen,
                      CommitPersists, LiveFlag
  <2>5. Connection' /\ ScopeRows'
    BY <2>1, <2>2 DEF execute, IInv, Connection, ScopeRows
  <2>6. Fresh' /\ Moved'
    BY <1>1, <1>3, <2>1 DEF execute, IInv, Fresh, Connection, TypeOK, Row, Moved
  <2> QED BY <2>3, <2>4, <2>5, <2>6 DEF IInv
<1> QED BY <1>2, <1>3 DEF execute

LEMMA BeginIInv ==
  ASSUME IInv, NEW t \in Thread, Begin(t)
  PROVE  IInv'
<1>1. /\ sqlite'.disk = sqlite.disk /\ sqlite'.seen = sqlite.seen
      /\ sqlite'.active = TRUE
  BY DEF Begin, begin_transaction, Begun, IInv, TypeOK
<1>2. \A u \in Thread : scope[u] # "live"
  BY DEF Begin, begin_transaction, IInv, LiveFlag
<1>3. \A u \in Thread :
        /\ scope'[u] = "live" <=> u = t
        /\ own'[u] = IF u = t THEN {} ELSE own[u]
        /\ aborted'[u] = IF u = t THEN FALSE ELSE aborted[u]
  BY <1>2 DEF Begin, begin_transaction, IInv, TypeOK
<1>4. TypeOK'
  BY DEF Begin, begin_transaction, Begun, IInv, TypeOK
<1>5. OneTransaction' /\ NothingLeftOpen' /\ CommitPersists' /\ LiveFlag'
  BY <1>1, <1>3 DEF Begin, begin_transaction, IInv, OneTransaction,
       NothingLeftOpen, CommitPersists, LiveFlag
<1>6. Connection'
  BY <1>1 DEF Begin, begin_transaction, IInv, Connection, LiveFlag
<1>7. Fresh'
  BY <1>1, <1>3 DEF Begin, begin_transaction, IInv, Fresh
<1>8. \A u \in Thread : scope'[u] = "live" => own'[u] = {}
  BY <1>3
<1>9. ScopeRows' /\ Moved'
  BY <1>8 DEF ScopeRows, Begin, begin_transaction, Moved
<1> QED BY <1>4, <1>5, <1>6, <1>7, <1>9 DEF IInv

LEMMA CommitIInv ==
  ASSUME IInv, NEW t \in Thread, commit(t)
  PROVE  IInv'
<1>1. /\ sqlite'.disk = sqlite.seen /\ sqlite'.seen = sqlite.seen
      /\ sqlite'.active = FALSE
  BY DEF commit, commit_transaction, Committed
<1>2. \A u \in Thread : scope'[u] # "live"
  BY DEF commit, commit_transaction, IInv, TypeOK, OneTransaction
<1>3. own[t] \subseteq sqlite.seen
  BY DEF commit, commit_transaction, IInv, LiveFlag, ScopeRows
<1>4. TypeOK'
  BY DEF commit, commit_transaction, Committed, IInv, TypeOK
<1>5. OneTransaction' /\ NothingLeftOpen' /\ LiveFlag' /\ ScopeRows'
  BY <1>1, <1>2 DEF commit, commit_transaction, OneTransaction,
       NothingLeftOpen, LiveFlag, ScopeRows
<1>6. CommitPersists'
  BY <1>1, <1>3 DEF commit, commit_transaction, IInv, CommitPersists, Connection
<1>7. Connection' /\ Fresh' /\ Moved'
  BY <1>1, <1>2 DEF commit, commit_transaction, IInv, Connection, Fresh, Moved
<1> QED BY <1>4, <1>5, <1>6, <1>7 DEF IInv

LEMMA CommitFailsIInv ==
  ASSUME IInv, NEW t \in Thread, CommitFails(t)
  PROVE  IInv'
<1>1. /\ sqlite'.disk = sqlite.disk /\ sqlite'.seen = sqlite.disk
      /\ sqlite'.active = FALSE
  BY DEF CommitFails, RolledBack
<1>2. \A u \in Thread : aborted'[u] <=> aborted[u] \/ scope[u] = "live"
  BY DEF CommitFails, NoteAbort
<1>3. TypeOK'
  BY DEF CommitFails, RolledBack, NoteAbort, IInv, TypeOK
<1>4. OneTransaction' /\ NothingLeftOpen' /\ CommitPersists' /\ LiveFlag'
  BY <1>1, <1>2 DEF CommitFails, IInv, OneTransaction, NothingLeftOpen,
                    CommitPersists, LiveFlag
<1>5. Connection' /\ Fresh' /\ ScopeRows' /\ Moved'
  BY <1>1, <1>2 DEF CommitFails, IInv, Connection, Fresh, ScopeRows, Moved
<1> QED BY <1>3, <1>4, <1>5 DEF IInv

\* rollback and the destructor of a live scope, which differ in what becomes
\* of the scope only.
LEMMA RollbackIInv ==
  ASSUME IInv, NEW t \in Thread, NEW s \in {"none", "committed_"},
         scope[t] = "live", in_transaction_, rollback_transaction(t),
         scope' = [scope EXCEPT ![t] = s],
         UNCHANGED <<db_, moving, calls, own, aborted, promised>>
  PROVE  IInv'
<1>1. /\ sqlite'.disk = sqlite.disk /\ sqlite'.seen = sqlite.disk
      /\ sqlite'.active = FALSE
  BY DEF rollback_transaction, RolledBack, IInv, Connection, TypeOK
<1>2. \A u \in Thread : scope'[u] # "live"
  BY DEF IInv, TypeOK, OneTransaction
<1>3. /\ discarded' \cap sqlite.disk = {}
      /\ \A n \in discarded' : n \in discarded \/ n \in own[t]
  BY DEF rollback_transaction, Discard, IInv, Connection, ScopeRows
<1>4. TypeOK'
  BY DEF rollback_transaction, Discard, RolledBack, IInv, TypeOK
<1>5. OneTransaction' /\ NothingLeftOpen' /\ CommitPersists' /\ LiveFlag'
      /\ ScopeRows'
  BY <1>1, <1>2 DEF rollback_transaction, IInv, OneTransaction, NothingLeftOpen,
                    CommitPersists, LiveFlag, ScopeRows
<1>6. Connection' /\ Fresh' /\ Moved'
  BY <1>1, <1>2, <1>3 DEF rollback_transaction, IInv, Connection, Fresh, Moved
<1> QED BY <1>4, <1>5, <1>6 DEF IInv

LEMMA LeaveIInv ==
  ASSUME IInv, NEW t \in Thread, Leave(t)
  PROVE  IInv'
<1>1. CASE scope[t] = "live" /\ in_transaction_
  BY <1>1, RollbackIInv DEF Leave
<1>2. CASE ~(scope[t] = "live" /\ in_transaction_)
  <2>1. /\ UNCHANGED <<sqlite, in_transaction_, moving, discarded, db_, calls,
                       own, aborted, promised>>
        /\ scope' = [scope EXCEPT ![t] = "none"]
    BY <1>2 DEF Leave
  <2>2. \A u \in Thread : scope'[u] = "live" <=> u # t /\ scope[u] = "live"
    BY <2>1 DEF IInv, TypeOK
  <2>3. TypeOK'
    BY <2>1 DEF IInv, TypeOK
  <2>4. NothingLeftOpen'
    BY <1>2, <2>1, <2>2 DEF IInv, NothingLeftOpen
  <2> QED
    BY <2>1, <2>2, <2>3, <2>4
    DEF IInv, OneTransaction, CommitPersists, Connection, Fresh, LiveFlag,
        ScopeRows, Moved
<1> QED BY <1>1, <1>2

LEMMA CloseIInv ==
  ASSUME IInv, close \/ MoveCloses
  PROVE  IInv'
<1>1. /\ Closed
      /\ moving' \in {"no", "closed", "opened"}
      /\ moving' # "no" => \A t \in Thread : scope[t] # "live"
      /\ UNCHANGED <<scope, calls, own, aborted, promised, discarded>>
  BY DEF close, MoveCloses, IInv, TypeOK, Moved
<1>2. /\ sqlite'.disk = sqlite.disk /\ sqlite'.seen = sqlite.disk
      /\ sqlite'.active = FALSE
      /\ db_' = FALSE /\ in_transaction_' = FALSE
  BY <1>1 DEF Closed, RolledBack
<1>3. TypeOK'
  <2>1. sqlite' \in [disk : SUBSET Row, seen : SUBSET Row, active : BOOLEAN]
    BY <1>1 DEF Closed, RolledBack, IInv, TypeOK
  <2> QED BY <1>1, <1>2, <2>1 DEF IInv, TypeOK
<1>4. OneTransaction' /\ NothingLeftOpen' /\ CommitPersists' /\ LiveFlag'
  BY <1>1, <1>2 DEF IInv, OneTransaction, NothingLeftOpen, CommitPersists, LiveFlag
<1>5. Connection' /\ Fresh' /\ ScopeRows' /\ Moved'
  BY <1>1, <1>2 DEF IInv, Connection, Fresh, ScopeRows, Moved
<1> QED BY <1>3, <1>4, <1>5 DEF IInv

\* The unlocked assignments of a move, while nobody is in a transaction.
LEMMA MoveIInv ==
  ASSUME IInv, MoveOpens \/ MoveEnds
  PROVE  IInv'
<1>1. /\ moving # "no" /\ moving' \in {"no", "opened"} /\ db_' \in BOOLEAN
      /\ in_transaction_' = FALSE
      /\ ~sqlite.active /\ \A t \in Thread : scope[t] # "live"
      /\ UNCHANGED <<sqlite, scope, calls, own, aborted, promised, discarded>>
  BY DEF MoveOpens, MoveEnds, IInv, Moved, TypeOK
<1>2. TypeOK'
  BY <1>1 DEF IInv, TypeOK
<1>3. OneTransaction' /\ NothingLeftOpen' /\ CommitPersists' /\ LiveFlag'
  BY <1>1 DEF IInv, OneTransaction, NothingLeftOpen, CommitPersists, LiveFlag
<1>4. Connection' /\ Fresh' /\ ScopeRows' /\ Moved'
  BY <1>1 DEF IInv, Connection, Fresh, ScopeRows, Moved
<1> QED BY <1>2, <1>3, <1>4 DEF IInv

-----------------------------------------------------------------------------

\* IInv holds in every state of the connection, whatever the errors of SQLite.
THEOREM DatabaseInvariant == Spec => []IInv
<1>1. IInv /\ [Next]_vars => IInv'
  <2> SUFFICES ASSUME IInv, [Next]_vars PROVE IInv'
    OBVIOUS
  <2>1. ASSUME NEW t \in Thread,
               execute(t) \/ Begin(t) \/ commit(t) \/ CommitFails(t)
        PROVE  IInv'
    BY <2>1, ExecuteIInv, BeginIInv, CommitIInv, CommitFailsIInv
  <2>2. ASSUME NEW t \in Thread, rollback(t) PROVE IInv'
    BY <2>2, RollbackIInv DEF rollback
  <2>3. ASSUME NEW t \in Thread, Leave(t) PROVE IInv'
    BY <2>3, LeaveIInv
  <2>4. CASE close \/ MoveCloses \/ MoveOpens \/ MoveEnds
    BY <2>4, CloseIInv, MoveIInv
  <2>5. CASE UNCHANGED vars
    BY <2>5 DEF vars, IInv, TypeOK, OneTransaction, NothingLeftOpen,
                CommitPersists, Connection, Fresh, LiveFlag, ScopeRows, Moved
  <2> QED BY <2>1, <2>2, <2>3, <2>4, <2>5 DEF Next
<1> QED BY <1>1, InitIInv, PTL DEF Spec

\* Every thread stays within its scope and its bound of statements, and the
\* rows on disk, seen, promised and discarded are rows somebody wrote.
THEOREM DatabaseTypeCorrect == Spec => []TypeOK
<1>1. IInv => TypeOK
  BY DEF IInv
<1> QED BY <1>1, DatabaseInvariant, PTL

\* Database.h:41 "Thread-safe via mutex protection": however many threads share
\* the connection, one of them at most is in a transaction.
THEOREM AtMostOneTransaction == Spec => []OneTransaction
<1>1. IInv => OneTransaction
  BY DEF IInv
<1> QED BY <1>1, DatabaseInvariant, PTL

\* No error leaves a transaction open that nobody is there to end.
THEOREM NoTransactionLeft == Spec => []NothingLeftOpen
<1>1. IInv => NothingLeftOpen
  BY DEF IInv
<1> QED BY <1>1, DatabaseInvariant, PTL

\* Rows that commit promised are on disk from then on.
THEOREM PromisesKept == Spec => []CommitPersists
<1>1. IInv => CommitPersists
  BY DEF IInv
<1> QED BY <1>1, DatabaseInvariant, PTL

\* Rows of a transaction that was rolled back never reach the disk.
THEOREM DiscardedStayAway == Spec => []RollbackDiscards
<1>1. IInv => RollbackDiscards
  BY DEF IInv, Connection, RollbackDiscards
<1> QED BY <1>1, DatabaseInvariant, PTL
=============================================================================
