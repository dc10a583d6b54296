-------------------------- MODULE MigrationLockProofs --------------------------
(***************************************************************************)
(* What a database lock makes of applyMigration, for any number of calls,  *)
(* statements and faults and for any DDL among the statements.             *)
(*                                                                         *)
(* Three arguments run side by side.  That a marker stands for the whole   *)
(* file needs no lock.  That a transactional database never holds half a   *)
(* file needs the lock to be held up to COMMIT.  That MySQL runs nothing   *)
(* twice while nothing fails needs a case distinction: a file with DDL has *)
(* its marker committed under the lock, and one without is undone by the   *)
(* marker's key.                                                           *)
(***************************************************************************)
EXTENDS MigrationLock, TLAPS

\* The statements before the next one took effect, so far as their transaction
\* knows; a call that is past its marker has one.
Took(c, s) == s \in txRan[c] \/ ran[s] >= 1

ProgressInv ==
  \A c \in Calls :
    /\ ~inTx[c] => txRan[c] = {}
    /\ pc[c] \in {"lock", "recheck"} => next[c] = 1
    /\ pc[c] = "run" => /\ next[c] \in Statements
                        /\ \A s \in Statements : s < next[c] => Took(c, s)
    /\ pc[c] = "mark" => \A s \in Statements : Took(c, s)
    /\ pc[c] \in {"unlock", "commit"} => marked \/ txMarked[c]

\* PostgreSQL and SQLite: the lock lasts as long as the transaction does.
Clean(c) == txRan[c] = {} /\ ~txMarked[c]

TransactionInv ==
  \A c \in Calls :
    /\ pc[c] \notin Ended => inTx[c]
    /\ pc[c] \notin {"unlock", "failUnlock"}
    /\ pc[c] \in {"recheck", "run", "mark", "commit"} => lock = c
    /\ lock # c \/ pc[c] \in {"lock", "recheck"} => Clean(c)
    /\ pc[c] = "run" => txRan[c] = {s \in Statements : s < next[c]}
    /\ pc[c] = "mark" => txRan[c] = Statements
    /\ pc[c] \in Running => ~marked /\ ~txMarked[c]
    /\ pc[c] = "commit" => IF txMarked[c] THEN txRan[c] = Statements /\ ~marked
                                          ELSE txRan[c] = {}

\* MySQL, while nothing fails.  A call is out in the open when a DDL statement
\* has committed its transaction.
Open(c) == pc[c] \in Running /\ ~inTx[c]
Done(place, n) == {s \in Statements : place = "run" => s < n}

MySQLCall(c) ==
  /\ pc[c] \in {"recheck", "run", "mark", "unlock", "failUnlock"} => lock = c
  /\ pc[c] \in {"lock", "recheck"} => inTx[c]
  /\ pc[c] \in {"lock", "recheck"} \cup Ended => Clean(c)
  /\ pc[c] \in Running => ~txMarked[c]
  /\ pc[c] \in Running /\ DDL # {} => ~marked
  /\ pc[c] \in Running /\ inTx[c] => /\ txRan[c] = Done(pc[c], next[c])
                                     /\ Done(pc[c], next[c]) \cap DDL = {}
  /\ Open(c) => /\ DDL # {}
                /\ \A s \in Statements :
                     ran[s] = IF s \in Done(pc[c], next[c]) THEN 1 ELSE 0
  /\ pc[c] \in {"unlock", "commit"} =>
       IF txMarked[c] THEN inTx[c] /\ txRan[c] = Statements /\ DDL = {} /\ ~marked
                      ELSE txRan[c] = {}
  /\ pc[c] \in {"failUnlock", "rollback"} => ~txMarked[c]

OneMarker == \A c, d \in Calls : txMarked[c] /\ txMarked[d] => c = d

WholeFile ==
  (\A c \in Calls : ~Open(c)) =>
    \A s \in Statements : ran[s] = IF marked THEN 1 ELSE 0

MySQLInv == (\A c \in Calls : MySQLCall(c)) /\ OneMarker /\ WholeFile

LockInv ==
  /\ TypeOK /\ ProgressInv /\ MarkerLast /\ ResolvedMeansMarked
  /\ ~MySQL => TransactionInv /\ AllOrNothing
  /\ MySQL /\ faults = 0 => MySQLInv

-----------------------------------------------------------------------------
(* Types *)

LEMMA StatementNumbers ==
  /\ Statements \subseteq Nat /\ 1 \in Statements /\ NStatements \in Statements
  /\ \A s \in Statements : s + 1 \in 1..(NStatements + 1)
  /\ \A s \in Statements : s <= NStatements
  /\ \A s \in Statements : s < NStatements => s + 1 \in Statements
  /\ \A s \in Statements : s < NStatements \/ s = NStatements
BY StatementsAssumption DEF Statements

LEMMA InitLockInv == Init => LockInv
<1> SUFFICES ASSUME Init PROVE LockInv
  OBVIOUS
<1> USE CallsAssumption, StatementsAssumption, FileAssumption, DatabasesAssumption,
        BoundsAssumption DEF Init
<1>1. TypeOK
  <2>1. 1 \in 1..(NStatements + 1) /\ 0 \in 0..MaxFaults
    OBVIOUS
  <2>2. /\ pc \in [Calls -> {"lock"}] /\ next \in [Calls -> 1..(NStatements + 1)]
        /\ txRan \in [Calls -> SUBSET Statements] /\ ran \in [Statements -> Nat]
    BY <2>1
  <2> QED
    BY <2>1, <2>2 DEF TypeOK
<1>2. ProgressInv /\ MarkerLast /\ ResolvedMeansMarked
  BY DEF ProgressInv, MarkerLast, ResolvedMeansMarked
<1>3. TransactionInv /\ AllOrNothing
  BY DEF TransactionInv, AllOrNothing, Clean, Ended, Running
<1>4. MySQLInv
  BY DEF MySQLInv, MySQLCall, OneMarker, WholeFile, Clean, Ended, Running, Open
<1> QED
  BY <1>1, <1>2, <1>3, <1>4 DEF LockInv

\* A statement adds itself to its transaction, or is committed with it.
LEMMA PerformTypes ==
  ASSUME TypeOK, NEW c \in Calls, NEW s \in Statements, Perform(c, s)
  PROVE  /\ inTx' \in [Calls -> BOOLEAN] /\ txRan' \in [Calls -> SUBSET Statements]
         /\ txMarked' = txMarked /\ marked' = marked /\ ran' \in [Statements -> Nat]
<1>1. CASE MySQL /\ s \in DDL
  <2>1. ran' = [t \in Statements |->
                  IF t \in txRan[c] \cup {s} THEN ran[t] + 1 ELSE ran[t]]
    BY <1>1 DEF Perform
  <2>2. ran \in [Statements -> Nat]
    BY DEF TypeOK
  <2>3. ran' \in [Statements -> Nat]
    BY ONLY <2>1, <2>2
  <2> QED
    BY <1>1, <2>3 DEF TypeOK, Perform
<1>2. CASE ~(MySQL /\ s \in DDL) /\ inTx[c]
  BY <1>2 DEF TypeOK, Perform, committed
<1>3. CASE ~(MySQL /\ s \in DDL) /\ ~inTx[c]
  BY <1>3 DEF TypeOK, Perform, session
<1> QED
  BY <1>1, <1>2, <1>3

LEMMA TypeStep ==
  ASSUME TypeOK, ProgressInv, NEW c \in Calls, CallStep(c) \/ LoseConnection(c),
         UNCHANGED database
  PROVE  TypeOK'
<1> USE CallsAssumption, BoundsAssumption DEF Goto, NoFault, Fault
<1>0. faults' \in 0..MaxFaults /\ database' \in Databases
  BY DEF TypeOK, CallStep, LoseConnection, Lock, LockTimeout, Recheck, Run, Mark,
         Unlock, CommitBody, RollbackBody
<1> USE DEF TypeOK, Ended, Running
<1>1. CASE Lock(c)
  BY <1>0, <1>1 DEF Lock, session, committed
<1>2. CASE LockTimeout(c)
  BY <1>0, <1>2 DEF LockTimeout, session, committed
<1>3. CASE Recheck(c)
  BY <1>0, <1>3 DEF Recheck, session, committed, AfterBody, AfterError
<1>4. CASE Run(c)
  <2>1. next[c] \in Statements
    BY <1>4 DEF Run, ProgressInv
  <2>2. CASE UNCHANGED <<next, session, committed>>
    BY <1>0, <1>4, <2>2 DEF Run, session, committed, AfterStatement, AfterError
  <2>3. CASE Perform(c, next[c]) /\ next' = [next EXCEPT ![c] = @ + 1]
    <3>1. next' \in [Calls -> 1..(NStatements + 1)]
      BY <2>1, <2>3, StatementNumbers
    <3>2. pc' \in [Calls -> Ended \cup Running \cup
                      {"lock", "recheck", "unlock", "commit", "failUnlock", "rollback"}]
      BY <1>4 DEF Run, AfterStatement, AfterError
    <3> QED
      BY <1>0, <1>4, <2>1, <2>3, <3>1, <3>2, PerformTypes DEF Run
  <2> QED
    BY <1>4, <2>2, <2>3 DEF Run
<1>5. CASE Mark(c)
  BY <1>0, <1>5 DEF Mark, InsertMarker, session, committed, AfterBody, AfterError
<1>6. CASE Unlock(c)
  BY <1>0, <1>6 DEF Unlock, GiveLockBack, session, committed
<1>7. CASE CommitBody(c)
  BY <1>0, <1>7 DEF CommitBody, Commit, TransactionLock, GiveLockBack
<1>8. CASE RollbackBody(c)
  BY <1>0, <1>8 DEF RollbackBody, Rollback, TransactionLock, GiveLockBack, committed
<1>9. CASE LoseConnection(c)
  BY <1>0, <1>9 DEF LoseConnection, Rollback, GiveLockBack, committed
<1> QED
  BY <1>1, <1>2, <1>3, <1>4, <1>5, <1>6, <1>7, <1>8, <1>9 DEF CallStep

-----------------------------------------------------------------------------
(* The marker stands for the whole file, with or without a lock *)

\* What Perform leaves behind: nothing that took effect is forgotten, and the
\* statement has taken effect.
LEMMA PerformTook ==
  ASSUME TypeOK, NEW c \in Calls, NEW s \in Statements, Perform(c, s)
  PROVE  /\ \A t \in Statements : Took(c, t) \/ t = s => t \in txRan'[c] \/ ran'[t] >= 1
         /\ \A t \in Statements : ran'[t] >= ran[t]
         /\ \A d \in Calls \ {c} : txRan'[d] = txRan[d] /\ inTx'[d] = inTx[d]
         /\ (~inTx[c] => txRan[c] = {}) => (~inTx'[c] => txRan'[c] = {})
<1>0. \A t \in Statements : ran[t] \in Nat
  BY DEF TypeOK
<1>1. CASE MySQL /\ s \in DDL
  <2>1. \A t \in Statements :
          ran'[t] = IF t \in txRan[c] \cup {s} THEN ran[t] + 1 ELSE ran[t]
    BY <1>1 DEF Perform
  <2> QED
    BY <1>0, <1>1, <2>1 DEF Perform, Took, TypeOK
<1>2. CASE ~(MySQL /\ s \in DDL) /\ inTx[c]
  BY <1>0, <1>2 DEF Perform, Took, TypeOK, committed
<1>3. CASE ~(MySQL /\ s \in DDL) /\ ~inTx[c]
  BY <1>0, <1>3 DEF Perform, Took, TypeOK, session
<1> QED
  BY <1>1, <1>2, <1>3

\* A step of one call forgets nothing that is committed, and touches neither
\* another call's place nor its transaction; it takes the lock from nobody.
LEMMA OthersUntouched ==
  ASSUME TypeOK, ProgressInv, NEW c \in Calls, CallStep(c) \/ LoseConnection(c)
  PROVE  /\ \A d \in Calls \ {c} :
              /\ pc'[d] = pc[d] /\ next'[d] = next[d] /\ inTx'[d] = inTx[d]
              /\ txRan'[d] = txRan[d] /\ txMarked'[d] = txMarked[d]
              /\ lock' = d <=> lock = d
         /\ \A s \in Statements : ran'[s] >= ran[s]
         /\ marked => marked'
<1> USE CallsAssumption DEF Goto
<1>0. \A s \in Statements : ran[s] \in Nat
  BY DEF TypeOK
<1> USE DEF TypeOK
<1>1. CASE Lock(c)
  BY <1>0, <1>1 DEF Lock, session, committed
<1>2. CASE LockTimeout(c)
  BY <1>0, <1>2 DEF LockTimeout, session, committed
<1>3. CASE Recheck(c)
  BY <1>0, <1>3 DEF Recheck, session, committed
<1>4. CASE Run(c)
  <2>1. next[c] \in Statements
    BY <1>4 DEF Run, ProgressInv
  <2>2. CASE UNCHANGED <<next, session, committed>>
    BY <1>0, <1>4, <2>2 DEF Run, session, committed
  <2>3. CASE Perform(c, next[c]) /\ next' = [next EXCEPT ![c] = @ + 1]
    BY <1>4, <2>1, <2>3, PerformTook, PerformTypes DEF Run
  <2> QED
    BY <1>4, <2>2, <2>3 DEF Run
<1>5. CASE Mark(c)
  BY <1>0, <1>5 DEF Mark, InsertMarker, session, committed
<1>6. CASE Unlock(c)
  BY <1>0, <1>6 DEF Unlock, GiveLockBack, session, committed
<1>7. CASE CommitBody(c)
  <2>1. \A s \in Statements : ran'[s] = IF s \in txRan[c] THEN ran[s] + 1 ELSE ran[s]
    BY <1>7 DEF CommitBody, Commit
  <2>2. \A s \in Statements : ran'[s] >= ran[s]
    BY <1>0, <2>1
  <2> QED
    BY <1>7, <2>2 DEF CommitBody, Commit, TransactionLock, GiveLockBack
<1>8. CASE RollbackBody(c)
  BY <1>0, <1>8 DEF RollbackBody, Rollback, TransactionLock, GiveLockBack, committed
<1>9. CASE LoseConnection(c)
  BY <1>0, <1>9 DEF LoseConnection, Rollback, GiveLockBack, committed
<1> QED
  BY <1>1, <1>2, <1>3, <1>4, <1>5, <1>6, <1>7, <1>8, <1>9 DEF CallStep

\* What a call knows of its own progress after its own step.
LEMMA OwnProgress ==
  ASSUME TypeOK, ProgressInv, MarkerLast, NEW c \in Calls,
         CallStep(c) \/ LoseConnection(c)
  PROVE  /\ ~inTx'[c] => txRan'[c] = {}
         /\ pc'[c] \in {"lock", "recheck"} => next'[c] = 1
         /\ pc'[c] = "run" =>
              /\ next'[c] \in Statements
              /\ \A s \in Statements : s < next'[c] => s \in txRan'[c] \/ ran'[s] >= 1
         /\ pc'[c] = "mark" => \A s \in Statements : s \in txRan'[c] \/ ran'[s] >= 1
         /\ pc'[c] \in {"unlock", "commit"} => marked' \/ txMarked'[c]
         /\ txMarked'[c] => \A s \in Statements : s \in txRan'[c] \/ ran'[s] >= 1
         /\ marked' => \A s \in Statements : ran'[s] >= 1
         /\ pc'[c] = "resolved" => marked'
<1> USE DEF Goto
<1>0. \A s \in Statements : ran[s] \in Nat
  BY DEF TypeOK
<1>m. marked => \A s \in Statements : ran[s] >= 1
  BY DEF MarkerLast
<1>i. ~inTx[c] => txRan[c] = {}
  BY DEF ProgressInv
<1>n. txMarked[c] => \A s \in Statements : s \in txRan[c] \/ ran[s] >= 1
  BY DEF MarkerLast
<1>1. CASE Lock(c)
  BY <1>i, <1>m, <1>n, <1>1 DEF ProgressInv, TypeOK, Lock, session, committed
<1>2. CASE LockTimeout(c)
  BY <1>i, <1>m, <1>n, <1>2 DEF TypeOK, LockTimeout, session, committed
<1>3. CASE Recheck(c)
  <2>1. next[c] = 1 /\ \A s \in Statements : ~(s < 1)
    BY <1>3 DEF Recheck, ProgressInv, Statements
  <2>2. /\ UNCHANGED <<next, inTx, txRan, txMarked, ran, marked>>
        /\ \/ pc'[c] = "run"
           \/ pc'[c] \in {"unlock", "commit"} /\ marked
           \/ pc'[c] \in {"failUnlock", "rollback"}
    BY <1>3 DEF TypeOK, Recheck, session, committed, AfterBody, AfterError
  <2> QED
    BY <1>i, <1>m, <1>n, <2>1, <2>2, StatementNumbers
<1>4. CASE Run(c)
  <2>0. next[c] \in Statements /\ \A s \in Statements : s < next[c] => Took(c, s)
    BY <1>4 DEF Run, ProgressInv
  <2>1. CASE UNCHANGED <<next, session, committed>> /\ Goto(c, AfterError)
    <3>1. pc'[c] \in {"failUnlock", "rollback"}
      BY <2>1 DEF TypeOK, AfterError
    <3> QED
      BY <1>i, <1>m, <1>n, <2>1, <3>1 DEF session, committed
  <2>2. CASE Perform(c, next[c]) /\ next' = [next EXCEPT ![c] = @ + 1]
             /\ Goto(c, AfterStatement(next[c]))
    <3>1. next'[c] = next[c] + 1
      BY <2>2 DEF TypeOK
    <3>2. \/ pc'[c] = "run" /\ next[c] < NStatements
          \/ pc'[c] = "mark" /\ ~(next[c] < NStatements)
      BY <2>2 DEF TypeOK, AfterStatement
    <3>3. \A s \in Statements : s < next[c] + 1 => s \in txRan'[c] \/ ran'[s] >= 1
      <4> TAKE s \in Statements
      <4>1. s < next[c] + 1 => s < next[c] \/ s = next[c]
        BY <2>0 DEF Statements
      <4> QED
        BY <2>0, <2>2, <4>1, PerformTook
    <3>4. pc'[c] = "mark" => \A s \in Statements : s < next[c] + 1
      BY <2>0, <3>2, StatementsAssumption DEF Statements
    <3>5. pc'[c] = "run" => next'[c] \in Statements
      BY <2>0, <3>1, <3>2, StatementNumbers
    <3>6. txMarked' = txMarked /\ marked' = marked /\ ran' \in [Statements -> Nat]
      BY <2>0, <2>2, PerformTypes
    <3>7. /\ marked' => \A s \in Statements : ran'[s] >= 1
          /\ txMarked'[c] => \A s \in Statements : s \in txRan'[c] \/ ran'[s] >= 1
      <4>1. \A s \in Statements : ran'[s] \in Nat /\ ran'[s] >= ran[s]
        BY <2>0, <2>2, <3>6, PerformTook
      <4> QED
        BY <1>0, <1>i, <1>m, <1>n, <2>0, <2>2, <3>6, <4>1, PerformTook DEF Took
    <3>8. ~inTx'[c] => txRan'[c] = {}
      BY <1>i, <2>0, <2>2, PerformTook
    <3> QED
      BY <3>1, <3>2, <3>3, <3>4, <3>5, <3>7, <3>8
  <2> QED
    BY <1>4, <2>1, <2>2 DEF Run
<1>5. CASE Mark(c)
  <2>0. \A s \in Statements : Took(c, s)
    BY <1>5 DEF Mark, ProgressInv
  <2>1. UNCHANGED <<txRan, ran>>
    BY <1>5 DEF Mark, InsertMarker, session, committed
  <2>2. CASE UNCHANGED <<session, committed>> /\ Goto(c, AfterError)
    <3>1. pc'[c] \in {"failUnlock", "rollback"}
      BY <2>2 DEF TypeOK, AfterError
    <3> QED
      BY <1>i, <1>m, <1>n, <2>2, <3>1 DEF session, committed
  <2>3. CASE InsertMarker(c) /\ Goto(c, AfterBody)
    <3>1. pc'[c] \in {"unlock", "commit"}
      BY <2>3 DEF TypeOK, AfterBody
    <3>2. CASE inTx[c]
      BY <2>0, <2>1, <2>3, <3>1, <3>2 DEF InsertMarker, Took, TypeOK
    <3>3. CASE ~inTx[c]
      <4>1. \A s \in Statements : ran[s] >= 1
        BY <2>0, <3>3 DEF Took, ProgressInv
      <4> QED
        BY <1>i, <1>n, <2>1, <2>3, <3>1, <3>3, <4>1 DEF InsertMarker, ProgressInv
    <3> QED
      BY <3>2, <3>3
  <2> QED
    BY <1>5, <2>2, <2>3 DEF Mark
<1>6. CASE Unlock(c)
  BY <1>i, <1>m, <1>n, <1>6 DEF TypeOK, Unlock, session, committed, ProgressInv
<1>7. CASE CommitBody(c)
  <2>1. /\ pc'[c] = "resolved" /\ ~txMarked'[c] /\ txRan'[c] = {}
        /\ marked' = (marked \/ txMarked[c])
        /\ \A s \in Statements : ran'[s] = IF s \in txRan[c] THEN ran[s] + 1 ELSE ran[s]
    BY <1>7 DEF TypeOK, CommitBody, Commit
  <2>2. marked \/ txMarked[c]
    BY <1>7 DEF CommitBody, ProgressInv
  <2>3. \A s \in Statements : ran'[s] >= 1
    BY <1>0, <1>m, <1>n, <2>1, <2>2
  <2> QED
    BY <2>1, <2>2, <2>3
<1>8. CASE RollbackBody(c)
  BY <1>m, <1>8 DEF TypeOK, RollbackBody, Rollback, committed
<1>9. CASE LoseConnection(c)
  BY <1>m, <1>9 DEF TypeOK, LoseConnection, Rollback, committed
<1> QED
  BY <1>1, <1>2, <1>3, <1>4, <1>5, <1>6, <1>7, <1>8, <1>9 DEF CallStep

LEMMA MarkerStep ==
  ASSUME TypeOK, ProgressInv, MarkerLast, ResolvedMeansMarked,
         NEW c \in Calls, CallStep(c) \/ LoseConnection(c), UNCHANGED database
  PROVE  ProgressInv' /\ MarkerLast' /\ ResolvedMeansMarked'
<1>0. \A s \in Statements : ran[s] \in Nat /\ ran'[s] \in Nat
  <2>1. TypeOK'
    BY TypeStep
  <2> QED
    BY <2>1 DEF TypeOK
<1>1. \A d \in Calls \ {c}, s \in Statements :
        Took(d, s) => s \in txRan'[d] \/ ran'[s] >= 1
  BY <1>0, OthersUntouched DEF Took
<1>2. ProgressInv'
  <2> SUFFICES ASSUME NEW d \in Calls
               PROVE  /\ ~inTx'[d] => txRan'[d] = {}
                      /\ pc'[d] \in {"lock", "recheck"} => next'[d] = 1
                      /\ pc'[d] = "run" =>
                           /\ next'[d] \in Statements
                           /\ \A s \in Statements :
                                s < next'[d] => s \in txRan'[d] \/ ran'[s] >= 1
                      /\ pc'[d] = "mark" =>
                           \A s \in Statements : s \in txRan'[d] \/ ran'[s] >= 1
                      /\ pc'[d] \in {"unlock", "commit"} => marked' \/ txMarked'[d]
    BY DEF ProgressInv, Took, Statements
  <2>1. CASE d = c
    BY <2>1, OwnProgress
  <2>2. CASE d # c
    BY <2>2, <1>1, OthersUntouched DEF ProgressInv
  <2> QED
    BY <2>1, <2>2
<1>3. MarkerLast'
  <2>1. \A d \in Calls : txMarked'[d] => \A s \in Statements : s \in txRan'[d] \/ ran'[s] >= 1
    <3> TAKE d \in Calls
    <3>1. CASE d = c
      BY <3>1, OwnProgress
    <3>2. CASE d # c
      BY <3>2, <1>1, OthersUntouched DEF MarkerLast, Took
    <3> QED
      BY <3>1, <3>2
  <2> QED
    BY <2>1, OwnProgress DEF MarkerLast, Statements
<1>4. ResolvedMeansMarked'
  BY OthersUntouched, OwnProgress DEF ResolvedMeansMarked
<1> QED
  BY <1>2, <1>3, <1>4

-----------------------------------------------------------------------------
(* PostgreSQL and SQLite: the schema holds the whole file or nothing of it *)

\* What the step of one call does to its own part of the invariant, and to what
\* is committed.
LEMMA TransactionOwn ==
  ASSUME TypeOK, ProgressInv, TransactionInv, AllOrNothing, ~MySQL,
         NEW c \in Calls, CallStep(c) \/ LoseConnection(c)
  PROVE  /\ pc'[c] \notin Ended => inTx'[c]
         /\ pc'[c] \notin {"unlock", "failUnlock"}
         /\ pc'[c] \in {"recheck", "run", "mark", "commit"} => lock' = c
         /\ lock' # c \/ pc'[c] \in {"lock", "recheck"} => txRan'[c] = {} /\ ~txMarked'[c]
         /\ pc'[c] = "run" => txRan'[c] = {s \in Statements : s < next'[c]}
         /\ pc'[c] = "mark" => txRan'[c] = Statements
         /\ pc'[c] \in Running => ~marked' /\ ~txMarked'[c]
         /\ pc'[c] = "commit" => IF txMarked'[c] THEN txRan'[c] = Statements /\ ~marked'
                                                 ELSE txRan'[c] = {}
         /\ marked' # marked => lock = c
         /\ \A s \in Statements : ran'[s] = IF marked' THEN 1 ELSE 0
<1> USE DEF Goto
<1>a. \A s \in Statements : ran[s] = IF marked THEN 1 ELSE 0
  BY DEF AllOrNothing
<1>b. /\ pc[c] \notin Ended => inTx[c]
      /\ pc[c] \notin {"unlock", "failUnlock"}
      /\ pc[c] \in {"recheck", "run", "mark", "commit"} => lock = c
      /\ lock # c \/ pc[c] \in {"lock", "recheck"} => txRan[c] = {} /\ ~txMarked[c]
      /\ pc[c] = "run" => txRan[c] = {s \in Statements : s < next[c]}
      /\ pc[c] = "mark" => txRan[c] = Statements
      /\ pc[c] \in Running => ~marked /\ ~txMarked[c]
      /\ pc[c] = "commit" => IF txMarked[c] THEN txRan[c] = Statements /\ ~marked
                                            ELSE txRan[c] = {}
  BY DEF TransactionInv, Clean
<1> USE DEF Ended, Running
<1>1. CASE Lock(c)
  BY <1>a, <1>b, <1>1 DEF TypeOK, Lock, session, committed
<1>2. CASE LockTimeout(c)
  BY <1>a, <1>b, <1>2 DEF TypeOK, LockTimeout, session, committed
<1>3. CASE Recheck(c)
  <2>1. next[c] = 1 /\ {s \in Statements : s < next[c]} = {}
    BY <1>3 DEF Recheck, ProgressInv, Statements
  <2> QED
    BY <1>a, <1>b, <1>3, <2>1 DEF TypeOK, Recheck, session, committed, AfterBody, AfterError
<1>4. CASE Run(c)
  <2>0. next[c] \in Statements
    BY <1>4 DEF Run, ProgressInv
  <2>1. CASE UNCHANGED <<next, session, committed>> /\ Goto(c, AfterError)
    BY <1>a, <1>b, <1>4, <2>1 DEF TypeOK, Run, AfterError, session, committed
  <2>2. CASE Perform(c, next[c]) /\ next' = [next EXCEPT ![c] = @ + 1]
             /\ Goto(c, AfterStatement(next[c]))
    <3>1. /\ txRan' = [txRan EXCEPT ![c] = txRan[c] \cup {next[c]}]
          /\ UNCHANGED <<inTx, txMarked, ran, marked>>
      BY <1>b, <1>4, <2>2 DEF Run, Perform, committed
    <3>2. next'[c] = next[c] + 1 /\ txRan'[c] = txRan[c] \cup {next[c]}
      BY <2>2, <3>1 DEF TypeOK
    <3>3. txRan'[c] = {s \in Statements : s < next'[c]}
      BY <1>b, <1>4, <2>0, <3>2 DEF Run, Statements
    <3>4. \/ pc'[c] = "run"
          \/ pc'[c] = "mark" /\ {s \in Statements : s < next'[c]} = Statements
      BY <2>0, <2>2, <3>2, StatementsAssumption DEF TypeOK, AfterStatement, Statements
    <3> QED
      BY <1>a, <1>b, <1>4, <3>1, <3>3, <3>4 DEF Run
  <2> QED
    BY <1>4, <2>1, <2>2 DEF Run
<1>5. CASE Mark(c)
  BY <1>a, <1>b, <1>5
  DEF TypeOK, Mark, InsertMarker, session, committed, AfterBody, AfterError
<1>6. CASE Unlock(c)
  BY <1>b, <1>6 DEF Unlock
<1>7. CASE CommitBody(c)
  <2>1. /\ pc'[c] = "resolved" /\ ~txMarked'[c] /\ txRan'[c] = {}
        /\ marked' = (marked \/ txMarked[c])
        /\ lock = c
        /\ \A s \in Statements : ran'[s] = IF s \in txRan[c] THEN ran[s] + 1 ELSE ran[s]
    BY <1>b, <1>7 DEF TypeOK, CommitBody, Commit
  <2>2. CASE txMarked[c]
    <3>1. txRan[c] = Statements /\ ~marked
      BY <1>b, <1>7, <2>2 DEF CommitBody
    <3>2. marked'
      BY <2>1, <2>2
    <3>3. \A s \in Statements : ran'[s] = 1
      <4> TAKE s \in Statements
      <4>1. ran[s] = 0
        BY <1>a, <3>1
      <4> QED
        BY <2>1, <3>1, <4>1
    <3> QED
      BY <2>1, <3>2, <3>3
  <2>3. CASE ~txMarked[c]
    BY <1>a, <1>b, <1>7, <2>1, <2>3 DEF CommitBody, TypeOK
  <2> QED
    BY <2>2, <2>3
<1>8. CASE RollbackBody(c)
  BY <1>a, <1>b, <1>8 DEF TypeOK, RollbackBody, Rollback, committed
<1>9. CASE LoseConnection(c)
  BY <1>a, <1>b, <1>9 DEF TypeOK, LoseConnection, Rollback, committed
<1> QED
  BY <1>1, <1>2, <1>3, <1>4, <1>5, <1>6, <1>7, <1>8, <1>9 DEF CallStep

LEMMA TransactionStep ==
  ASSUME TypeOK, ProgressInv, TransactionInv, AllOrNothing, ~MySQL,
         NEW c \in Calls, CallStep(c) \/ LoseConnection(c)
  PROVE  TransactionInv' /\ AllOrNothing'
<1>1. TransactionInv'
  <2> SUFFICES ASSUME NEW d \in Calls
        PROVE
          /\ pc'[d] \notin Ended => inTx'[d]
          /\ pc'[d] \notin {"unlock", "failUnlock"}
          /\ pc'[d] \in {"recheck", "run", "mark", "commit"} => lock' = d
          /\ lock' # d \/ pc'[d] \in {"lock", "recheck"} => txRan'[d] = {} /\ ~txMarked'[d]
          /\ pc'[d] = "run" => txRan'[d] = {s \in Statements : s < next'[d]}
          /\ pc'[d] = "mark" => txRan'[d] = Statements
          /\ pc'[d] \in Running => ~marked' /\ ~txMarked'[d]
          /\ pc'[d] = "commit" => IF txMarked'[d] THEN txRan'[d] = Statements /\ ~marked'
                                                  ELSE txRan'[d] = {}
    BY DEF TransactionInv, Clean, Statements
  <2>1. CASE d = c
    BY <2>1, TransactionOwn
  <2>2. CASE d # c
    <3>1. /\ pc'[d] = pc[d] /\ next'[d] = next[d] /\ inTx'[d] = inTx[d]
          /\ txRan'[d] = txRan[d] /\ txMarked'[d] = txMarked[d]
          /\ lock' = d <=> lock = d
      BY <2>2, OthersUntouched
    <3>2. lock = d => marked' = marked
      BY <2>2, TransactionOwn
    <3> QED
      BY <3>1, <3>2 DEF TransactionInv, Clean, Running
  <2> QED
    BY <2>1, <2>2
<1>2. AllOrNothing'
  BY TransactionOwn DEF AllOrNothing, Statements
<1> QED
  BY <1>1, <1>2

-----------------------------------------------------------------------------
(* MySQL, while nothing fails: no statement takes effect twice *)

LEMMA DoneGrows ==
  ASSUME NEW n \in Statements, NEW place,
         place = IF n < NStatements THEN "run" ELSE "mark"
  PROVE  /\ Done(place, n + 1) = Done("run", n) \cup {n}
         /\ n \notin Done("run", n)
BY StatementsAssumption DEF Done, Statements

LEMMA DoneBounds ==
  /\ Done("run", 1) = {}
  /\ \A n : Done("mark", n) = Statements
BY DEF Done, Statements

\* A statement of the one call that is in the body.
LEMMA RunMySQL ==
  ASSUME TypeOK, ProgressInv, MySQLInv, MySQL, faults = 0, faults' = 0,
         NEW c \in Calls, Run(c)
  PROVE  /\ lock = c /\ lock' = c /\ marked' = marked /\ txMarked' = txMarked
         /\ pc'[c] \in Running
         /\ inTx'[c] => /\ txRan'[c] = Done(pc'[c], next'[c])
                        /\ Done(pc'[c], next'[c]) \cap DDL = {}
                        /\ ran' = ran /\ inTx[c]
         /\ ~inTx'[c] => /\ DDL # {}
                         /\ \A s \in Statements :
                              ran'[s] = IF s \in Done(pc'[c], next'[c]) THEN 1 ELSE 0
<1>0. /\ MySQLCall(c) /\ next[c] \in Statements /\ pc[c] = "run"
      /\ Perform(c, next[c]) /\ next' = [next EXCEPT ![c] = @ + 1]
      /\ Goto(c, AfterStatement(next[c])) /\ UNCHANGED lock
  BY DEF MySQLInv, Run, Fault, ProgressInv
<1>1. lock = c /\ ~txMarked[c]
  BY <1>0 DEF MySQLCall, Running
<1>2. marked' = marked /\ txMarked' = txMarked
  BY <1>0, PerformTypes
<1>3. /\ next'[c] = next[c] + 1 /\ pc'[c] \in Running
      /\ pc'[c] = IF next[c] < NStatements THEN "run" ELSE "mark"
  BY <1>0 DEF TypeOK, Goto, AfterStatement, Running
<1>4. /\ Done(pc'[c], next'[c]) = Done("run", next[c]) \cup {next[c]}
      /\ next[c] \notin Done("run", next[c])
  BY <1>0, <1>3, DoneGrows
<1>5. inTx[c] => /\ txRan[c] = Done("run", next[c])
                 /\ Done("run", next[c]) \cap DDL = {}
  BY <1>0 DEF MySQLCall, Running
<1>6. ~inTx[c] => /\ DDL # {} /\ txRan[c] = {}
                  /\ \A s \in Statements :
                       ran[s] = IF s \in Done("run", next[c]) THEN 1 ELSE 0
  BY <1>0 DEF MySQLCall, Running, Open, ProgressInv
<1>7. CASE next[c] \in DDL
  <2>1. /\ ~inTx'[c]
        /\ \A s \in Statements :
             ran'[s] = IF s \in txRan[c] \cup {next[c]} THEN ran[s] + 1 ELSE ran[s]
    BY <1>0, <1>7 DEF Perform, TypeOK
  <2>2. inTx[c] => \A s \in Statements : ran[s] = 0
    <3>1. SUFFICES ASSUME inTx[c] PROVE \A s \in Statements : ran[s] = 0
      OBVIOUS
    <3>2. ~marked
      BY <1>0, <1>7 DEF MySQLCall, Running
    <3>3. \A d \in Calls : ~Open(d)
      BY <1>1, <3>1 DEF MySQLInv, MySQLCall, Open, Running
    <3> QED
      BY <3>2, <3>3 DEF MySQLInv, WholeFile
  <2>3. \A s \in Statements : ran'[s] = IF s \in Done(pc'[c], next'[c]) THEN 1 ELSE 0
    <3> TAKE s \in Statements
    <3>1. CASE inTx[c]
      BY <1>4, <1>5, <2>1, <2>2, <3>1
    <3>2. CASE ~inTx[c]
      BY <1>4, <1>6, <2>1, <3>2
    <3> QED
      BY <3>1, <3>2
  <2> QED
    BY <1>0, <1>1, <1>2, <1>3, <1>7, <2>1, <2>3
<1>8. CASE next[c] \notin DDL /\ inTx[c]
  <2>1. txRan'[c] = txRan[c] \cup {next[c]} /\ ran' = ran /\ inTx'[c] = inTx[c]
    BY <1>0, <1>8 DEF Perform, TypeOK, committed
  <2> QED
    BY <1>0, <1>1, <1>2, <1>3, <1>4, <1>5, <1>8, <2>1
<1>9. CASE next[c] \notin DDL /\ ~inTx[c]
  <2>1. ran' = [ran EXCEPT ![next[c]] = @ + 1] /\ inTx'[c] = inTx[c]
    BY <1>0, <1>9 DEF Perform, session
  <2>2. \A s \in Statements : ran'[s] = IF s \in Done(pc'[c], next'[c]) THEN 1 ELSE 0
    BY <1>0, <1>4, <1>6, <1>9, <2>1 DEF TypeOK
  <2> QED
    BY <1>0, <1>1, <1>2, <1>3, <1>6, <1>9, <2>1, <2>2
<1> QED
  BY <1>7, <1>8, <1>9

\* What the step of one call does to its own part of the invariant, and to what
\* is committed.
LEMMA MySQLOwn ==
  ASSUME TypeOK, ProgressInv, MySQLInv, MySQL, faults = 0, faults' = 0,
         NEW c \in Calls, CallStep(c)
  PROVE  /\ pc'[c] \in {"recheck", "run", "mark", "unlock", "failUnlock"} => lock' = c
         /\ pc'[c] \in {"lock", "recheck"} => inTx'[c]
         /\ pc'[c] \in {"lock", "recheck"} \cup Ended => txRan'[c] = {} /\ ~txMarked'[c]
         /\ pc'[c] \in Running => ~txMarked'[c]
         /\ pc'[c] \in Running /\ DDL # {} => ~marked'
         /\ pc'[c] \in Running /\ inTx'[c] =>
              /\ txRan'[c] = Done(pc'[c], next'[c])
              /\ Done(pc'[c], next'[c]) \cap DDL = {}
         /\ pc'[c] \in Running /\ ~inTx'[c] =>
              /\ DDL # {}
              /\ \A s \in Statements :
                   ran'[s] = IF s \in Done(pc'[c], next'[c]) THEN 1 ELSE 0
         /\ pc'[c] \in {"unlock", "commit"} =>
              IF txMarked'[c]
              THEN inTx'[c] /\ txRan'[c] = Statements /\ DDL = {} /\ ~marked'
              ELSE txRan'[c] = {}
         /\ pc'[c] \in {"failUnlock", "rollback"} => ~txMarked'[c]
         /\ txMarked'[c] => txMarked[c] \/ MarkerFree(c)
         /\ marked' # marked =>
              \/ lock = c /\ MarkerFree(c)
              \/ DDL = {} /\ txMarked[c]
         /\ ran' = ran \/ lock = c \/ DDL = {}
         /\ (\A d \in Calls : ~(pc'[d] \in Running /\ ~inTx'[d])) =>
              \A s \in Statements : ran'[s] = IF marked' THEN 1 ELSE 0
<1> USE DEF Goto, Fault
<1>0. MySQLCall(c) /\ (~inTx[c] => txRan[c] = {})
  BY DEF MySQLInv, ProgressInv
<1>w. (\A d \in Calls : ~Open(d)) => \A s \in Statements : ran[s] = IF marked THEN 1 ELSE 0
  BY DEF MySQLInv, WholeFile
<1>o. /\ \A d \in Calls \ {c} : pc'[d] = pc[d] /\ inTx'[d] = inTx[d]
      /\ (\A d \in Calls : ~(pc'[d] \in Running /\ ~inTx'[d])) =>
           \A d \in Calls \ {c} : ~Open(d)
  BY OthersUntouched DEF Open
<1>l. lock = c /\ pc[c] \in {"recheck", "run", "mark", "unlock", "failUnlock"} =>
        \A d \in Calls \ {c} : ~Open(d)
  BY DEF MySQLInv, MySQLCall, Open, Running
\* A step that commits nothing and leaves c out of the open keeps the whole file.
<1>k. ASSUME ran' = ran, marked' = marked, ~Open(c)
      PROVE  (\A d \in Calls : ~(pc'[d] \in Running /\ ~inTx'[d])) =>
               \A s \in Statements : ran'[s] = IF marked' THEN 1 ELSE 0
  BY <1>k, <1>w, <1>o
<1>1. CASE Lock(c)
  <2>1. /\ UNCHANGED <<inTx, txRan, txMarked, ran, marked>> /\ ~Open(c)
        /\ pc'[c] = "recheck" /\ lock' = c /\ pc[c] = "lock"
    BY <1>1 DEF TypeOK, Lock, session, committed, Open, Running
  <2> QED
    BY <1>0, <1>k, <2>1 DEF MySQLCall, Clean, Ended, Running
<1>2. CASE LockTimeout(c)
  <2>1. /\ UNCHANGED <<inTx, txRan, txMarked, ran, marked>> /\ ~Open(c)
        /\ pc'[c] = "rollback" /\ pc[c] = "lock"
    BY <1>2 DEF TypeOK, LockTimeout, session, committed, Open, Running
  <2> QED
    BY <1>0, <1>k, <2>1 DEF MySQLCall, Clean, Ended, Running
<1>3. CASE Recheck(c)
  <2>1. /\ UNCHANGED <<next, lock, inTx, txRan, txMarked, ran, marked>> /\ ~Open(c)
        /\ pc'[c] = IF marked THEN "unlock" ELSE "run"
        /\ pc[c] = "recheck" /\ next[c] = 1
    BY <1>3 DEF TypeOK, ProgressInv, Recheck, session, committed, Open, Running, AfterBody
  <2> QED
    BY <1>0, <1>k, <2>1, DoneBounds DEF MySQLCall, Clean, Ended, Running
<1>4. CASE Run(c)
  <2>1. (\A d \in Calls : ~(pc'[d] \in Running /\ ~inTx'[d])) =>
          \A s \in Statements : ran'[s] = IF marked' THEN 1 ELSE 0
    <3>1. inTx'[c] => ran' = ran /\ marked' = marked /\ ~Open(c)
      BY <1>4, RunMySQL DEF Open
    <3>2. pc'[c] \in Running
      BY <1>4, RunMySQL
    <3> QED
      BY <1>k, <3>1, <3>2
  <2>2. pc'[c] \in Running /\ lock = c /\ pc[c] = "run"
    BY <1>4, RunMySQL DEF Run
  <2> QED
    BY <1>0, <1>4, <2>1, <2>2, RunMySQL DEF MySQLCall, Ended, Running
<1>5. CASE Mark(c)
  <2>0. /\ pc[c] = "mark" /\ lock = c /\ lock' = lock /\ txRan' = txRan
        /\ inTx' = inTx /\ ran' = ran /\ ~txMarked[c]
        /\ (DDL # {} => ~marked) /\ Done(pc[c], next[c]) = Statements
        /\ (inTx[c] => txRan[c] = Statements /\ DDL = {})
    BY <1>0, <1>5, DoneBounds, FileAssumption
    DEF Mark, InsertMarker, session, committed, MySQLCall, Running, Statements
  <2>1. CASE UNCHANGED <<session, committed>> /\ marked /\ Goto(c, AfterError)
    <3>1. pc'[c] = "failUnlock" /\ marked' = marked /\ txMarked' = txMarked /\ ~Open(c)
      BY <1>0, <2>0, <2>1 DEF TypeOK, AfterError, session, committed, MySQLCall, Open, Running
    <3> QED
      BY <1>k, <2>0, <3>1 DEF Running, Ended
  <2>2. CASE InsertMarker(c) /\ Goto(c, AfterBody)
    <3>1. pc'[c] = "unlock" /\ MarkerFree(c) /\ ~marked
      BY <2>2 DEF TypeOK, AfterBody, InsertMarker
    <3>2. CASE inTx[c]
      <4>1. marked' = marked /\ txMarked'[c] /\ ~Open(c)
        BY <2>2, <3>2 DEF TypeOK, InsertMarker, Open
      <4> QED
        BY <1>k, <2>0, <3>1, <3>2, <4>1 DEF Running, Ended
    <3>3. CASE ~inTx[c]
      <4>1. marked' /\ ~txMarked'[c] /\ txRan'[c] = {}
        BY <1>0, <2>0, <2>2, <3>3 DEF TypeOK, InsertMarker
      <4>2. \A s \in Statements : ran'[s] = 1
        BY <1>0, <2>0, <3>3 DEF MySQLCall, Open, Running
      <4> QED
        BY <2>0, <3>1, <4>1, <4>2 DEF Running, Ended
    <3> QED
      BY <3>2, <3>3
  <2> QED
    BY <1>5, <2>1, <2>2 DEF Mark
<1>6. CASE Unlock(c)
  <2>1. /\ UNCHANGED <<inTx, txRan, txMarked, ran, marked>> /\ ~Open(c)
        /\ \/ pc[c] = "unlock" /\ pc'[c] = "commit"
           \/ pc[c] = "failUnlock" /\ pc'[c] = "rollback"
    BY <1>6 DEF TypeOK, Unlock, session, committed, Open, Running
  <2> QED
    BY <1>0, <1>k, <2>1 DEF MySQLCall, Clean, Ended, Running
<1>7. CASE CommitBody(c)
  <2>1. /\ pc[c] = "commit" /\ pc'[c] = "resolved" /\ txRan'[c] = {} /\ ~txMarked'[c]
        /\ marked' = (marked \/ txMarked[c]) /\ ~Open(c)
        /\ \A s \in Statements : ran'[s] = IF s \in txRan[c] THEN ran[s] + 1 ELSE ran[s]
        /\ ran' \in [Statements -> Nat] /\ ran \in [Statements -> Nat]
    <3>1. ran' \in [Statements -> Nat]
      BY <1>7 DEF TypeOK, CommitBody, Commit
    <3> QED
      BY <1>7, <3>1 DEF TypeOK, CommitBody, Commit, Open, Running
  <2>2. CASE txMarked[c]
    <3>1. txRan[c] = Statements /\ DDL = {} /\ ~marked
      BY <1>0, <2>1, <2>2 DEF MySQLCall
    <3>2. \A d \in Calls : ~Open(d)
      BY <3>1 DEF MySQLInv, MySQLCall
    <3>3. \A s \in Statements : ran'[s] = 1
      <4> TAKE s \in Statements
      <4>1. ran[s] = 0
        BY <1>w, <3>1, <3>2
      <4> QED
        BY <2>1, <3>1, <4>1
    <3> QED
      BY <2>1, <2>2, <3>1, <3>3 DEF Running, Ended
  <2>3. CASE ~txMarked[c]
    <3>1. txRan[c] = {} /\ marked' = marked
      BY <1>0, <2>1, <2>3 DEF MySQLCall, TypeOK
    <3>2. ran' = ran
      BY <2>1, <3>1
    <3> QED
      BY <1>k, <2>1, <2>3, <3>1, <3>2 DEF Running, Ended
  <2> QED
    BY <2>2, <2>3
<1>8. CASE RollbackBody(c)
  <2>1. /\ UNCHANGED <<ran, marked>> /\ txRan'[c] = {} /\ ~txMarked'[c] /\ ~Open(c)
        /\ pc'[c] = "rejected"
    BY <1>8 DEF TypeOK, RollbackBody, Rollback, committed, Open, Running
  <2> QED
    BY <1>k, <2>1 DEF Running, Ended
<1> QED
  BY <1>1, <1>2, <1>3, <1>4, <1>5, <1>6, <1>7, <1>8 DEF CallStep

LEMMA MySQLStep ==
  ASSUME TypeOK, ProgressInv, MySQLInv, MySQL, faults = 0, faults' = 0,
         NEW c \in Calls, CallStep(c)
  PROVE  MySQLInv'
<1>1. \A d \in Calls \ {c} :
        /\ pc'[d] = pc[d] /\ next'[d] = next[d] /\ inTx'[d] = inTx[d]
        /\ txRan'[d] = txRan[d] /\ txMarked'[d] = txMarked[d]
        /\ lock' = d <=> lock = d
  BY OthersUntouched
<1>2. ASSUME NEW d \in Calls PROVE MySQLCall(d)'
  <2> SUFFICES
        /\ pc'[d] \in {"recheck", "run", "mark", "unlock", "failUnlock"} => lock' = d
        /\ pc'[d] \in {"lock", "recheck"} => inTx'[d]
        /\ pc'[d] \in {"lock", "recheck"} \cup Ended => txRan'[d] = {} /\ ~txMarked'[d]
        /\ pc'[d] \in Running => ~txMarked'[d]
        /\ pc'[d] \in Running /\ DDL # {} => ~marked'
        /\ pc'[d] \in Running /\ inTx'[d] =>
             /\ txRan'[d] = Done(pc'[d], next'[d])
             /\ Done(pc'[d], next'[d]) \cap DDL = {}
        /\ pc'[d] \in Running /\ ~inTx'[d] =>
             /\ DDL # {}
             /\ \A s \in Statements :
                  ran'[s] = IF s \in Done(pc'[d], next'[d]) THEN 1 ELSE 0
        /\ pc'[d] \in {"unlock", "commit"} =>
             IF txMarked'[d]
             THEN inTx'[d] /\ txRan'[d] = Statements /\ DDL = {} /\ ~marked'
             ELSE txRan'[d] = {}
        /\ pc'[d] \in {"failUnlock", "rollback"} => ~txMarked'[d]
    BY DEF MySQLCall, Clean, Open, Done, Statements, Running, Ended
  <2>1. CASE d = c
    BY <2>1, MySQLOwn
  <2>2. CASE d # c
    <3>1. /\ pc'[d] = pc[d] /\ next'[d] = next[d] /\ inTx'[d] = inTx[d]
          /\ txRan'[d] = txRan[d] /\ txMarked'[d] = txMarked[d]
          /\ lock' = d <=> lock = d
      BY <1>1, <2>2
    <3>2. MySQLCall(d)
      BY DEF MySQLInv
    <3>3. marked' # marked => /\ ~(pc[d] \in Running /\ DDL # {})
                              /\ ~txMarked[d]
      <4>1. CASE lock = c /\ MarkerFree(c)
        BY <2>2, <3>2, <4>1 DEF MySQLCall, MarkerFree, Running
      <4>2. CASE DDL = {} /\ txMarked[c]
        BY <2>2, <4>2 DEF MySQLInv, OneMarker
      <4> QED
        BY <4>1, <4>2, MySQLOwn
    <3>4. Open(d) => ran' = ran
      BY <2>2, <3>2, MySQLOwn DEF MySQLCall, Open, Running
    <3> QED
      BY <3>1, <3>2, <3>3, <3>4 DEF MySQLCall, Clean, Open
  <2> QED
    BY <2>1, <2>2
<1>3. OneMarker'
  BY <1>1, MySQLOwn DEF MySQLInv, OneMarker, MarkerFree
<1>4. WholeFile'
  BY MySQLOwn DEF WholeFile, Open, Statements
<1> QED
  BY <1>2, <1>3, <1>4 DEF MySQLInv

-----------------------------------------------------------------------------
(* The invariant of applyMigration behind a lock *)

LEMMA NextLockInv == LockInv /\ [Next]_vars => LockInv'
<1> SUFFICES ASSUME LockInv, [Next]_vars PROVE LockInv'
  OBVIOUS
<1>0. TypeOK /\ ProgressInv /\ MarkerLast /\ ResolvedMeansMarked
  BY DEF LockInv
<1>1. CASE UNCHANGED vars
  <2> USE <1>1 DEF vars, session, committed
  <2>1. TypeOK' /\ ProgressInv' /\ MarkerLast' /\ ResolvedMeansMarked'
    BY <1>0 DEF TypeOK, ProgressInv, Took, MarkerLast, ResolvedMeansMarked
  <2>2. ~MySQL' => TransactionInv' /\ AllOrNothing'
    BY DEF LockInv, MySQL, TransactionInv, Clean, AllOrNothing
  <2>3. MySQL' /\ faults' = 0 => MySQLInv'
    BY DEF LockInv, MySQL, MySQLInv, MySQLCall, OneMarker, WholeFile, Open, Clean
  <2> QED
    BY <2>1, <2>2, <2>3 DEF LockInv
<1>2. CASE Next
  <2>0. database' = database
    BY <1>2 DEF Next
  <2>1. PICK c \in Calls : CallStep(c) \/ LoseConnection(c)
    BY <1>2 DEF Next
  <2>2. TypeOK' /\ ProgressInv' /\ MarkerLast' /\ ResolvedMeansMarked'
    BY <1>0, <2>0, <2>1, TypeStep, MarkerStep
  <2>3. ~MySQL => TransactionInv' /\ AllOrNothing'
    BY <1>0, <2>1, TransactionStep DEF LockInv
  <2>4. MySQL /\ faults' = 0 => MySQLInv'
    <3> SUFFICES ASSUME MySQL, faults' = 0 PROVE MySQLInv'
      OBVIOUS
    <3>1. faults = 0 /\ CallStep(c)
      BY <1>0, <2>1, BoundsAssumption
      DEF TypeOK, CallStep, LoseConnection, Lock, LockTimeout, Recheck, Run, Mark,
          Unlock, CommitBody, RollbackBody, Fault, NoFault
    <3> QED
      BY <1>0, <3>1, MySQLStep DEF LockInv
  <2>5. MySQL' <=> MySQL
    BY <2>0 DEF MySQL
  <2> QED
    BY <2>2, <2>3, <2>4, <2>5 DEF LockInv, AllOrNothing
<1> QED
  BY <1>1, <1>2

\* The invariant, for any number of calls, statements and faults.
THEOREM LockInvariance == Spec => []LockInv
<1>1. LockInv /\ [Next]_vars => LockInv'
  BY NextLockInv
<1> QED
  BY InitLockInv, <1>1, PTL DEF Spec

\* The variables keep their types.
THEOREM LockTypeCorrect == Spec => []TypeOK
<1>1. LockInv => TypeOK
  BY DEF LockInv
<1> QED
  BY LockInvariance, <1>1, PTL

\* On PostgreSQL and SQLite the schema holds the whole file and its marker or
\* nothing of either, at every instant, whatever fails.
THEOREM FileIsAtomic == Spec => []AllOrNothing
<1>1. LockInv => AllOrNothing
  BY DEF LockInv, AllOrNothing
<1> QED
  BY LockInvariance, <1>1, PTL

\* On every database a marker stands for the whole file.
THEOREM MarkerComesLast == Spec => []MarkerLast
<1>1. LockInv => MarkerLast
  BY DEF LockInv
<1> QED
  BY LockInvariance, <1>1, PTL

\* What `flowpanel migrate` relies on when it skips a marked file and runs
\* another.
THEOREM MarkStandsForFile == Spec => []MarkIsTheFile
<1>1. LockInv => MarkIsTheFile
  BY DEF LockInv, AllOrNothing, MarkIsTheFile
<1> QED
  BY LockInvariance, <1>1, PTL

\* A call that resolved left the marker.
THEOREM ResolvedIsMarked == Spec => []ResolvedMeansMarked
<1>1. LockInv => ResolvedMeansMarked
  BY DEF LockInv
<1> QED
  BY LockInvariance, <1>1, PTL

\* A run without faults replays nothing on any database, although RELEASE_LOCK
\* comes before COMMIT on MySQL.
THEOREM NothingIsReplayed == Spec => []NoReplayWithoutFault
<1>1. LockInv => NoReplayWithoutFault
  <2> SUFFICES ASSUME LockInv, faults = 0 PROVE \A s \in Statements : ran[s] <= 1
    BY DEF NoReplayWithoutFault
  <2>1. CASE ~MySQL
    BY <2>1 DEF LockInv, AllOrNothing
  <2>2. CASE MySQL /\ \E c \in Calls : Open(c)
    BY <2>2 DEF LockInv, MySQLInv, MySQLCall
  <2>3. CASE MySQL /\ \A c \in Calls : ~Open(c)
    BY <2>3 DEF LockInv, MySQLInv, WholeFile
  <2> QED
    BY <2>1, <2>2, <2>3
<1> QED
  BY LockInvariance, <1>1, PTL
=============================================================================
