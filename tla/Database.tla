------------------------------ MODULE Database ------------------------------
(***************************************************************************)
(* storage::Database and storage::Transaction: threads that share one      *)
(* connection to SQLite.                                                   *)
(*                                                                         *)
(* Each method holds the connection's mutex from its first line to its     *)
(* last and is one step; a move does not, and is a step per assignment.    *)
(* Between two steps of a thread that has a Transaction others execute     *)
(* statements and try to begin transactions of their own; whether there is *)
(* one is a flag of the Database, which follows what the methods believe   *)
(* that SQLite has done.                                                   *)
(*                                                                         *)
(* A statement inserts a row, named by the number of the call.  SQLite is  *)
(* external: a statement may fail alone, or roll the whole transaction     *)
(* back (a full disk, no memory, an error of the file), COMMIT may also    *)
(* find the file busy and leave the transaction as it is, and ROLLBACK     *)
(* fails only if there is no transaction.                                  *)
(***************************************************************************)
EXTENDS Integers

CONSTANTS
  Thread,
  CallBound    \* bound on the statements of a behaviour

ASSUME DatabaseAssumption == CallBound \in Nat

VARIABLES
  db_,              \* is there a connection?
  in_transaction_,
  moving,           \* the step after which operator= is, if any
  sqlite,           \* external: the rows on disk, the rows the connection
                    \* sees, and whether it is in a transaction
  scope,            \* each thread's Transaction: none, live, or committed_
  calls,            \* the statements executed so far
  own,              \* history: the rows a thread inserted in its scope
  aborted,          \* history: did SQLite end the scope's transaction?
  promised,         \* history: the rows of scopes whose commit returned
  discarded         \* history: the rows of scopes that were rolled back

vars == <<db_, in_transaction_, moving, sqlite, scope, calls, own, aborted,
          promised, discarded>>

Row == 1 .. CallBound

TypeOK ==
  /\ db_ \in BOOLEAN
  /\ in_transaction_ \in BOOLEAN
  /\ moving \in {"no", "closed", "opened"}
  /\ sqlite \in [disk : SUBSET Row, seen : SUBSET Row, active : BOOLEAN]
  /\ scope \in [Thread -> {"none", "live", "committed_"}]
  /\ calls \in 0 .. CallBound
  /\ own \in [Thread -> SUBSET Row]
  /\ aborted \in [Thread -> BOOLEAN]
  /\ promised \subseteq Row
  /\ discarded \subseteq Row

Init ==
  /\ db_ = TRUE
  /\ in_transaction_ = FALSE
  /\ moving = "no"
  /\ sqlite = [disk |-> {}, seen |-> {}, active |-> FALSE]
  /\ scope = [t \in Thread |-> "none"]
  /\ calls = 0
  /\ own = [t \in Thread |-> {}]
  /\ aborted = [t \in Thread |-> FALSE]
  /\ promised = {}
  /\ discarded = {}

-----------------------------------------------------------------------------
(* SQLite *)

Inserted(n) ==
  [disk |-> IF sqlite.active THEN sqlite.disk ELSE sqlite.disk \cup {n},
   seen |-> sqlite.seen \cup {n}, active |-> sqlite.active]

Begun == [sqlite EXCEPT !.active = TRUE]

Committed == [disk |-> sqlite.seen, seen |-> sqlite.seen, active |-> FALSE]

RolledBack == [disk |-> sqlite.disk, seen |-> sqlite.disk, active |-> FALSE]

\* The scope, if any, whose transaction SQLite has ended by itself.
NoteAbort == aborted' = [t \in Thread |-> aborted[t] \/ scope[t] = "live"]

-----------------------------------------------------------------------------

\* A statement that fails alone, and a query, leave everything as it is.
execute(t) ==
  /\ db_ /\ calls < CallBound
  /\ calls' = calls + 1
  /\ \/ /\ sqlite' = Inserted(calls + 1)
        /\ own' = [own EXCEPT ![t] =
             IF scope[t] = "live" THEN @ \cup {calls + 1} ELSE @]
        /\ UNCHANGED aborted
     \/ /\ sqlite.active
        /\ sqlite' = RolledBack
        /\ NoteAbort
        /\ UNCHANGED own
  /\ UNCHANGED <<db_, in_transaction_, moving, scope, promised, discarded>>

\* Mutant: the flag is not tested, as if SQLite knew best.
BeginUntested(t) ==
  /\ scope[t] = "none" /\ moving = "no" /\ db_ /\ ~sqlite.active
  /\ sqlite' = Begun
  /\ in_transaction_' = TRUE
  /\ scope' = [scope EXCEPT ![t] = "live"]
  /\ own' = [own EXCEPT ![t] = {}]
  /\ aborted' = [aborted EXCEPT ![t] = FALSE]
  /\ UNCHANGED <<db_, moving, calls, promised, discarded>>

begin_transaction ==
  /\ ~in_transaction_ /\ db_ /\ ~sqlite.active
  /\ sqlite' = Begun
  /\ in_transaction_' = TRUE

\* Transaction's constructor.  If begin_transaction throws there is no
\* Transaction.  That no thread begins one on a Database that is being moved
\* into is the caller's duty.
Begin(t) ==
  /\ scope[t] = "none" /\ moving = "no"
  /\ begin_transaction
  /\ scope' = [scope EXCEPT ![t] = "live"]
  /\ own' = [own EXCEPT ![t] = {}]
  /\ aborted' = [aborted EXCEPT ![t] = FALSE]
  /\ UNCHANGED <<db_, moving, calls, promised, discarded>>

\* Mutant: the error of COMMIT is only noted, as rollback_transaction does.
CommitAnyway(t) ==
  /\ scope[t] = "live" /\ in_transaction_
  /\ sqlite' \in {sqlite} \cup (IF sqlite.active THEN {Committed} ELSE {})
  /\ in_transaction_' = FALSE
  /\ scope' = [scope EXCEPT ![t] = "committed_"]
  /\ promised' = promised \cup own[t]
  /\ UNCHANGED <<db_, moving, calls, own, aborted, discarded>>

commit_transaction ==
  /\ in_transaction_ /\ sqlite.active
  /\ sqlite' = Committed
  /\ in_transaction_' = FALSE

\* Transaction::commit
commit(t) ==
  /\ scope[t] = "live"
  /\ commit_transaction
  /\ scope' = [scope EXCEPT ![t] = "committed_"]
  /\ promised' = promised \cup own[t]
  /\ UNCHANGED <<db_, moving, calls, own, aborted, discarded>>

\* Mutant: a COMMIT that fails ends the transaction for the Database.
CommitFailsCleared(t) ==
  /\ scope[t] = "live" /\ in_transaction_ /\ sqlite.active
  /\ in_transaction_' = FALSE
  /\ \/ sqlite' = RolledBack /\ NoteAbort
     \/ UNCHANGED <<sqlite, aborted>>
  /\ UNCHANGED <<db_, moving, scope, calls, own, promised, discarded>>

\* COMMIT fails and the flag stays set: with an error of the file SQLite has
\* rolled back, with a file that is busy the transaction is as it was.
CommitFails(t) ==
  /\ scope[t] = "live" /\ in_transaction_ /\ sqlite.active
  /\ sqlite' = RolledBack
  /\ NoteAbort
  /\ UNCHANGED <<db_, in_transaction_, moving, scope, calls, own, promised,
                 discarded>>

\* Rows the thread inserted after SQLite had ended its transaction are on
\* disk already, one by one, and are not counted as discarded.
Discard(t) ==
  discarded' = discarded \cup (IF aborted[t] THEN {} ELSE own[t])

\* The flag is cleared whether ROLLBACK succeeds or not.
rollback_transaction(t) ==
  /\ sqlite' = IF sqlite.active THEN RolledBack ELSE sqlite
  /\ in_transaction_' = FALSE
  /\ Discard(t)

rollback(t) ==
  /\ scope[t] = "live" /\ in_transaction_
  /\ rollback_transaction(t)
  /\ scope' = [scope EXCEPT ![t] = "committed_"]
  /\ UNCHANGED <<db_, moving, calls, own, aborted, promised>>

\* Mutant: leaving the scope commits what is there.
LeaveCommits(t) ==
  /\ scope[t] # "none"
  /\ IF scope[t] = "live" /\ in_transaction_
     THEN /\ sqlite' = IF sqlite.active THEN Committed ELSE sqlite
          /\ in_transaction_' = FALSE
          /\ Discard(t)
     ELSE UNCHANGED <<sqlite, in_transaction_, discarded>>
  /\ scope' = [scope EXCEPT ![t] = "none"]
  /\ UNCHANGED <<db_, moving, calls, own, aborted, promised>>

\* The destructor, at the end of the scope or by an exception.
Leave(t) ==
  /\ scope[t] # "none"
  /\ IF scope[t] = "live" /\ in_transaction_
     THEN rollback_transaction(t)
     ELSE UNCHANGED <<sqlite, in_transaction_, discarded>>
  /\ scope' = [scope EXCEPT ![t] = "none"]
  /\ UNCHANGED <<db_, moving, calls, own, aborted, promised>>

Closed ==
  /\ db_' = FALSE
  /\ sqlite' = RolledBack
  /\ in_transaction_' = FALSE

\* A Transaction may still be there and must not end a later one.
close ==
  /\ db_
  /\ Closed
  /\ UNCHANGED <<moving, scope, calls, own, aborted, promised, discarded>>

\* operator=: a new Database with the same file is moved into this one.  A
\* Transaction keeps a reference to the Database it began on and has to end
\* before.  close has the mutex, the assignments after it have none.
MoveCloses ==
  /\ moving = "no" /\ \A t \in Thread : scope[t] = "none"
  /\ Closed
  /\ moving' = "closed"
  /\ UNCHANGED <<scope, calls, own, aborted, promised, discarded>>

MoveOpens ==
  /\ moving = "closed"
  /\ db_' = TRUE
  /\ moving' = "opened"
  /\ UNCHANGED <<in_transaction_, sqlite, scope, calls, own, aborted, promised,
                 discarded>>

MoveEnds ==
  /\ moving = "opened"
  /\ in_transaction_' = FALSE
  /\ moving' = "no"
  /\ UNCHANGED <<db_, sqlite, scope, calls, own, aborted, promised, discarded>>

Next ==
  \/ \E t \in Thread :
       \/ execute(t) \/ Begin(t) \/ commit(t) \/ CommitFails(t)
       \/ rollback(t) \/ Leave(t)
  \/ close \/ MoveCloses \/ MoveOpens \/ MoveEnds

Spec == Init /\ [][Next]_vars

-----------------------------------------------------------------------------
(* Properties. *)

\* At most one thread is in a transaction, although threads take turns at the
\* connection and SQLite may have ended the transaction of the one that is.
OneTransaction ==
  \A t, u \in Thread : scope[t] = "live" /\ scope[u] = "live" => t = u

\* The connection is in a transaction only if the Database knows it, and it
\* believes so only while somebody is there to end it: no error leaves a
\* transaction behind that refuses all later ones and loses all later rows.
NothingLeftOpen ==
  /\ sqlite.active => in_transaction_
  /\ in_transaction_ => \E t \in Thread : scope[t] = "live"

\* Database.h:113 "Persists all changes since begin_transaction()": once commit
\* has returned each row its thread was told to be inserted is on disk and
\* stays there, whatever errors there were before and others do afterwards.
CommitPersists == promised \subseteq sqlite.disk

\* Database.h:122 "Discards all changes since begin_transaction()": a scope
\* that is left or rolled back leaves no row, and no later commit brings one
\* back, unless SQLite had ended its transaction and the thread went on.
RollbackDiscards == discarded \cap sqlite.disk = {}
=============================================================================
