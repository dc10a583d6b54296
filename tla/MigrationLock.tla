----------------------------- MODULE MigrationLock -----------------------------
(***************************************************************************)
(* applyMigration where a database lock serializes migrators: Prisma and   *)
(* Drizzle on PostgreSQL and SQLite (an advisory lock or the write lock of *)
(* the transaction), and Drizzle on MySQL (GET_LOCK on a pinned            *)
(* connection, given back by RELEASE_LOCK in a finally block).             *)
(*                                                                         *)
(* The database is external: a transaction keeps its writes private until  *)
(* COMMIT.  On MySQL a DDL statement commits what came before it and is    *)
(* itself committed, and the rest of the file runs in autocommit.          *)
(***************************************************************************)
EXTENDS Integers

CONSTANTS
  Calls,        \* concurrent calls of applyMigration for one id
  Nobody,       \* owner of a free lock
  NStatements,  \* statements of the file
  DDL,          \* which of them are DDL
  Databases,    \* those considered: "mysql" (with Drizzle), "transactional"
                \* (PostgreSQL or SQLite, either adapter)
  MaxFaults     \* bound on rejected statements and lost connections

ASSUME CallsAssumption == Nobody \notin Calls
ASSUME StatementsAssumption == NStatements \in Nat \ {0}
ASSUME FileAssumption == DDL \subseteq 1..NStatements
ASSUME DatabasesAssumption == Databases \subseteq {"mysql", "transactional"}
ASSUME BoundsAssumption == MaxFaults \in Nat

VARIABLES
  database,  \* the database migrated
  pc,        \* where each call is
  next,      \* the statement it runs next
  lock,      \* who holds the lock
  inTx,      \* whether its connection still has the transaction open
  txRan,     \* statements its open transaction ran
  txMarked,  \* its open transaction inserted the marker
  ran,       \* committed: how often each statement took effect
  marked,    \* committed: the marker row
  faults     \* faults so far

session == <<inTx, txRan, txMarked>>
committed == <<ran, marked>>
vars == <<database, pc, next, lock, session, committed, faults>>

Statements == 1..NStatements
Ended == {"resolved", "rejected", "dead"}
Running == {"run", "mark"}

MySQL == database = "mysql"

TypeOK ==
  /\ database \in Databases
  /\ pc \in [Calls -> Ended \cup Running \cup
               {"lock", "recheck", "unlock", "commit", "failUnlock", "rollback"}]
  /\ next \in [Calls -> 1..(NStatements + 1)]
  /\ lock \in Calls \cup {Nobody}
  /\ inTx \in [Calls -> BOOLEAN]
  /\ txRan \in [Calls -> SUBSET Statements]
  /\ txMarked \in [Calls -> BOOLEAN]
  /\ ran \in [Statements -> Nat]
  /\ marked \in BOOLEAN
  /\ faults \in 0..MaxFaults

Init ==
  /\ database \in Databases
  /\ pc = [c \in Calls |-> "lock"]
  /\ next = [c \in Calls |-> 1]
  /\ lock = Nobody
  /\ inTx = [c \in Calls |-> TRUE]
  /\ txRan = [c \in Calls |-> {}]
  /\ txMarked = [c \in Calls |-> FALSE]
  /\ ran = [s \in Statements |-> 0]
  /\ marked = FALSE
  /\ faults = 0

Goto(c, place) == pc' = [pc EXCEPT ![c] = place]
NoFault == UNCHANGED faults
Fault == faults < MaxFaults /\ faults' = faults + 1

-----------------------------------------------------------------------------
(* The database *)

\* COMMIT publishes what the transaction wrote and, where the lock belongs to
\* the transaction, gives the lock back.
Commit(c) ==
  /\ ran' = [s \in Statements |-> IF s \in txRan[c] THEN ran[s] + 1 ELSE ran[s]]
  /\ marked' = (marked \/ txMarked[c])
  /\ inTx' = [inTx EXCEPT ![c] = FALSE]
  /\ txRan' = [txRan EXCEPT ![c] = {}]
  /\ txMarked' = [txMarked EXCEPT ![c] = FALSE]

\* ROLLBACK, or a connection the server has lost.
Rollback(c) ==
  /\ inTx' = [inTx EXCEPT ![c] = FALSE]
  /\ txRan' = [txRan EXCEPT ![c] = {}]
  /\ txMarked' = [txMarked EXCEPT ![c] = FALSE]
  /\ UNCHANGED committed

GiveLockBack(c) == lock' = IF lock = c THEN Nobody ELSE lock

\* Statement s on the connection of c.
Perform(c, s) ==
  IF MySQL /\ s \in DDL
  THEN /\ ran' = [t \in Statements |->
                    IF t \in txRan[c] \cup {s} THEN ran[t] + 1 ELSE ran[t]]
       /\ inTx' = [inTx EXCEPT ![c] = FALSE]
       /\ txRan' = [txRan EXCEPT ![c] = {}]
       /\ UNCHANGED <<txMarked, marked>>
  ELSE IF inTx[c]
       THEN /\ txRan' = [txRan EXCEPT ![c] = @ \cup {s}]
            /\ UNCHANGED <<inTx, txMarked, committed>>
       ELSE /\ ran' = [ran EXCEPT ![s] = @ + 1]
            /\ UNCHANGED <<session, marked>>

\* The marker's INSERT waits for an uncommitted row with the same key.
MarkerFree(c) == \A d \in Calls \ {c} : ~txMarked[d]

InsertMarker(c) ==
  /\ MarkerFree(c) /\ ~marked
  /\ IF inTx[c] THEN txMarked' = [txMarked EXCEPT ![c] = TRUE] /\ UNCHANGED marked
                ELSE marked' = TRUE /\ UNCHANGED txMarked
  /\ UNCHANGED <<inTx, txRan, ran>>

-----------------------------------------------------------------------------
(* applyMigration *)

\* The lock statement: it waits while another session holds the lock.
Lock(c) ==
  /\ pc[c] = "lock"
  /\ lock = Nobody
  /\ lock' = c
  /\ Goto(c, "recheck")
  /\ NoFault
  /\ UNCHANGED <<next, session, committed>>

\* The wait behind a holder ends in an error: GET_LOCK answers 0 after 60 s,
\* SQLite is busy, the transaction expires.
LockTimeout(c) ==
  /\ pc[c] = "lock"
  /\ lock # Nobody
  /\ Goto(c, "rollback")
  /\ NoFault
  /\ UNCHANGED <<next, lock, session, committed>>

AfterBody == IF MySQL THEN "unlock" ELSE "commit"
AfterError == IF MySQL THEN "failUnlock" ELSE "rollback"

\* Faulty: the applied ids were read before the lock, so nothing is skipped.
RecheckNothing(c) ==
  /\ pc[c] = "recheck"
  /\ \/ NoFault /\ Goto(c, "run")
     \/ Fault /\ Goto(c, AfterError)
  /\ UNCHANGED <<next, lock, session, committed>>

\* The id is read again under the lock.
Recheck(c) ==
  /\ pc[c] = "recheck"
  /\ \/ NoFault /\ Goto(c, IF marked THEN AfterBody ELSE "run")
     \/ Fault /\ Goto(c, AfterError)
  /\ UNCHANGED <<next, lock, session, committed>>

\* Faulty: the loop ends one statement early.
AfterStatementOneTooFew(s) == IF s < NStatements - 1 THEN "run" ELSE "mark"

\* Where a call goes after statement s.
AfterStatement(s) == IF s < NStatements THEN "run" ELSE "mark"

\* runStatements; a rejected statement leaves its transaction to be rolled back.
Run(c) ==
  /\ pc[c] = "run"
  /\ \/ /\ NoFault
        /\ Perform(c, next[c])
        /\ next' = [next EXCEPT ![c] = @ + 1]
        /\ Goto(c, AfterStatement(next[c]))
     \/ /\ Fault
        /\ Goto(c, AfterError)
        /\ UNCHANGED <<next, session, committed>>
  /\ UNCHANGED lock

\* Faulty: the marker goes through another connection than the transaction.
MarkApartFromTransaction(c) ==
  /\ pc[c] = "mark"
  /\ ~marked
  /\ marked' = TRUE
  /\ Goto(c, AfterBody)
  /\ NoFault
  /\ UNCHANGED <<next, lock, session, ran>>

\* The marker, last.  Its key may already be there.
Mark(c) ==
  /\ pc[c] = "mark"
  /\ \/ NoFault /\ InsertMarker(c) /\ Goto(c, AfterBody)
     \/ NoFault /\ MarkerFree(c) /\ marked /\ Goto(c, AfterError)
        /\ UNCHANGED <<session, committed>>
     \/ Fault /\ Goto(c, AfterError) /\ UNCHANGED <<session, committed>>
  /\ UNCHANGED <<next, lock>>

\* Faulty: a failed body leaves without giving the session's lock back.
UnlockOnSuccessOnly(c) ==
  /\ pc[c] \in {"unlock", "failUnlock"}
  /\ IF pc[c] = "unlock" THEN GiveLockBack(c) ELSE UNCHANGED lock
  /\ Goto(c, IF pc[c] = "unlock" THEN "commit" ELSE "rollback")
  /\ NoFault
  /\ UNCHANGED <<next, session, committed>>

\* RELEASE_LOCK in the finally block, before Drizzle sends COMMIT or ROLLBACK.
Unlock(c) ==
  /\ pc[c] \in {"unlock", "failUnlock"}
  /\ GiveLockBack(c)
  /\ Goto(c, IF pc[c] = "unlock" THEN "commit" ELSE "rollback")
  /\ NoFault
  /\ UNCHANGED <<next, session, committed>>

TransactionLock(c) == IF MySQL THEN UNCHANGED lock ELSE GiveLockBack(c)

CommitBody(c) ==
  /\ pc[c] = "commit"
  /\ Commit(c)
  /\ TransactionLock(c)
  /\ Goto(c, "resolved")
  /\ NoFault
  /\ UNCHANGED next

RollbackBody(c) ==
  /\ pc[c] = "rollback"
  /\ Rollback(c)
  /\ TransactionLock(c)
  /\ Goto(c, "rejected")
  /\ NoFault
  /\ UNCHANGED next

\* The process dies or its connection is lost: the server rolls the
\* transaction back and frees both kinds of lock.
LoseConnection(c) ==
  /\ pc[c] \notin Ended
  /\ Fault
  /\ Rollback(c)
  /\ GiveLockBack(c)
  /\ Goto(c, "dead")
  /\ UNCHANGED next

CallStep(c) ==
  \/ Lock(c) \/ LockTimeout(c) \/ Recheck(c) \/ Run(c) \/ Mark(c)
  \/ Unlock(c) \/ CommitBody(c) \/ RollbackBody(c)

Next ==
  /\ \E c \in Calls : CallStep(c) \/ LoseConnection(c)
  /\ UNCHANGED database

Spec == Init /\ [][Next]_vars

\* The database answers every statement.
FairSpec == Spec /\ \A c \in Calls : WF_vars(CallStep(c) /\ UNCHANGED database)

-----------------------------------------------------------------------------
(* Properties *)

\* "PostgreSQL and SQLite execute all statements and the applied marker in one
\* transaction": at every instant the schema holds the whole file and its
\* marker, or nothing of either, whatever fails, and never twice.
AllOrNothing ==
  ~MySQL => \A s \in Statements : ran[s] = IF marked THEN 1 ELSE 0

\* A marker, committed or about to be, stands for the whole file.
MarkerLast ==
  /\ marked => \A s \in Statements : ran[s] >= 1
  /\ \A c \in Calls : txMarked[c] =>
       \A s \in Statements : s \in txRan[c] \/ ran[s] >= 1

\* The marker is neither without the file nor, where a transaction holds both,
\* the file without it, which is what `flowpanel migrate` skips a file by.
MarkIsTheFile == AllOrNothing /\ MarkerLast

\* MySQL cannot undo DDL, so a file may be run again after a failed run; while
\* nothing fails, no statement takes effect twice.
NoReplayWithoutFault ==
  faults = 0 => \A s \in Statements : ran[s] <= 1

\* A call that resolved left the marker in the database.
ResolvedMeansMarked == \A c \in Calls : pc[c] = "resolved" => marked

\* A lock is not held for ever, although a call may fail inside the body and
\* its connection goes back to the pool: the finally block gives it back.
LockComesFree == \A c \in Calls : lock = c ~> lock # c

\* The README of adapter-drizzle: "MySQL uses a connection-pinned advisory
\* lock and the same recheck": no call enters the body of a file that another
\* call has run to its marker.
FinishedFileIsNotRerun ==
  \A c, d \in Calls :
    c # d /\ pc[c] = "run" => ~txMarked[d]
=============================================================================
