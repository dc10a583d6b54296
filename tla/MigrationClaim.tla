----------------------------- MODULE MigrationClaim -----------------------------
(***************************************************************************)
(* Prisma on MySQL: applyWithClaim of adapter-prisma's migration executor. *)
(*                                                                         *)
(* MySQL commits DDL implicitly, so a durable row of                       *)
(* _flowpanel_migration_claims, keyed by the migration id, decides who may *)
(* run the file.  The module follows every concurrent call of              *)
(* applyMigration for ONE id through its awaited database calls; a call    *)
(* may fail before or after its effect, and its process may be killed.     *)
(* Each call has its own owner uuid, so an element of Calls is both the    *)
(* call and its owner.                                                     *)
(***************************************************************************)
EXTENDS Integers

CONSTANTS
  Calls,        \* calls of applyMigration for this id, over all processes
  Nobody,       \* the owner of a claim row that does not exist
  NStatements,  \* statements of the file
  MaxPolls,     \* polls after which the 60 s deadline has certainly passed
  MaxFaults     \* bound on failed database calls plus killed processes

ASSUME CallsAssumption == Nobody \notin Calls
ASSUME StatementsAssumption == NStatements \in Nat \ {0}
ASSUME BoundsAssumption == MaxPolls \in Nat /\ MaxFaults \in Nat

VARIABLES
  pc,           \* where each call is
  idx,          \* its local `index`
  polls,        \* how often it slept in acquireClaim
  claimOwner,   \* the claim row: owner, or Nobody when there is no row
  claimState,   \*   'running' or 'failed'
  claimIndex,   \*   statement_index
  marked,       \* the id is in _flowpanel_migrations
  ran,          \* how often each statement took effect since the last repair
  left,         \* of which before the operator last took the claim away
  faults        \* faults so far

claimRow == <<claimOwner, claimState, claimIndex>>
schema == <<marked, ran, left>>
vars == <<pc, idx, polls, claimRow, schema, faults>>

Statements == 1..NStatements

\* Where a call has ended: resolved; rejected by a failed claim, by the
\* deadline, by the duplicate key rethrown from tryClaim, or by a failed
\* database call; or its process was killed.
Rejected == {"refused", "timedOut", "duplicateKey", "broken"}
Ended == Rejected \cup {"resolved", "dead"}

\* The statements and the marker are written from these places only.
Body == {"progress", "execute", "mark"}

Places == Ended \cup Body \cup
  {"start", "cleanup", "insert", "lookup", "poll", "recheck", "fail", "release"}

TypeOK ==
  /\ pc \in [Calls -> Places]
  /\ idx \in [Calls -> 0..NStatements]
  /\ polls \in [Calls -> 0..MaxPolls]
  /\ claimOwner \in Calls \cup {Nobody}
  /\ claimState \in {"running", "failed"}
  /\ claimIndex \in 0..NStatements
  /\ marked \in BOOLEAN
  /\ ran \in [Statements -> Nat]
  /\ left \in [Statements -> Nat]
  /\ faults \in 0..MaxFaults

Init ==
  /\ pc = [c \in Calls |-> "start"]
  /\ idx = [c \in Calls |-> 0]
  /\ polls = [c \in Calls |-> 0]
  /\ claimOwner = Nobody
  /\ claimState = "running"
  /\ claimIndex = 0
  /\ marked = FALSE
  /\ ran = [s \in Statements |-> 0]
  /\ left = ran
  /\ faults = 0

Goto(c, place) == pc' = [pc EXCEPT ![c] = place]

\* A database call of c rejects; the budget of faults is spent.
Fault == faults < MaxFaults /\ faults' = faults + 1
NoFault == UNCHANGED faults

\* A deleted row leaves no state behind.
DeleteClaim ==
  /\ claimOwner' = Nobody
  /\ claimState' = "running"
  /\ claimIndex' = 0

-----------------------------------------------------------------------------
(* applyWithClaim before the claim is held *)

\* The first isApplied, before any claim.
Start(c) ==
  /\ pc[c] = "start"
  /\ \/ NoFault /\ Goto(c, IF marked THEN "cleanup" ELSE "insert")
     \/ Fault /\ Goto(c, "broken")
  /\ UNCHANGED <<idx, polls, claimRow, schema>>

\* The id is applied: delete whatever claim is left, whoever owns it.
Cleanup(c) ==
  /\ pc[c] = "cleanup"
  /\ \/ NoFault /\ DeleteClaim /\ Goto(c, "resolved")
     \/ Fault /\ (DeleteClaim \/ UNCHANGED claimRow) /\ Goto(c, "broken")
  /\ UNCHANGED <<idx, polls, schema>>

\* Faulty: an upsert, which every contender believes it won.
TakeClaimUpsert(c) ==
  /\ claimOwner' = c
  /\ claimState' = "running"
  /\ claimIndex' = 0

\* Faulty: a failed claim counts as a free one.
TakeClaimFailedIsFree(c) ==
  /\ claimOwner = Nobody \/ claimState = "failed"
  /\ claimOwner' = c
  /\ claimState' = "running"
  /\ claimIndex' = 0

\* The primary key lets one INSERT win.
TakeClaim(c) ==
  /\ claimOwner = Nobody
  /\ claimOwner' = c
  /\ claimState' = "running"
  /\ claimIndex' = 0

\* tryClaim's INSERT.  A duplicate key and a lost answer both enter its catch
\* block; the lost answer may belong to an INSERT that took effect.
Insert(c) ==
  /\ pc[c] = "insert"
  /\ \/ NoFault /\ TakeClaim(c) /\ Goto(c, "recheck")
     \/ NoFault /\ claimOwner # Nobody /\ UNCHANGED claimRow /\ Goto(c, "lookup")
     \/ Fault /\ (TakeClaim(c) \/ UNCHANGED claimRow) /\ Goto(c, "lookup")
  /\ UNCHANGED <<idx, polls, schema>>

\* readClaim in tryClaim's catch block: with no row there, the INSERT's error
\* is rethrown; with one, somebody holds the claim.
Lookup(c) ==
  /\ pc[c] = "lookup"
  /\ \/ NoFault /\ Goto(c, IF claimOwner = Nobody THEN "duplicateKey" ELSE "poll")
     \/ Fault /\ Goto(c, "broken")
  /\ UNCHANGED <<idx, polls, claimRow, schema>>

\* acquireClaim reads the row again: it may be its own (a lost answer), a
\* failed one, or one to wait for.  The deadline may pass at any poll and has
\* passed after MaxPolls of them.
PollOwn(c) ==
  /\ pc[c] = "poll"
  /\ claimOwner = c
  /\ Goto(c, "recheck")
  /\ NoFault
  /\ UNCHANGED <<idx, polls, claimRow, schema>>

PollFailed(c) ==
  /\ pc[c] = "poll"
  /\ claimOwner \notin {c, Nobody}
  /\ claimState = "failed"
  /\ Goto(c, "refused")
  /\ NoFault
  /\ UNCHANGED <<idx, polls, claimRow, schema>>

MustWait(c) == claimOwner = Nobody \/ (claimOwner # c /\ claimState = "running")

\* Faulty: no deadline while the row says 'running'.
DeadlineNotWhileRunning(c) ==
  /\ pc[c] = "poll"
  /\ claimOwner = Nobody
  /\ Goto(c, "timedOut")
  /\ NoFault
  /\ UNCHANGED <<idx, polls, claimRow, schema>>

Deadline(c) ==
  /\ pc[c] = "poll"
  /\ MustWait(c)
  /\ Goto(c, "timedOut")
  /\ NoFault
  /\ UNCHANGED <<idx, polls, claimRow, schema>>

Sleep(c) ==
  /\ pc[c] = "poll"
  /\ MustWait(c)
  /\ polls[c] < MaxPolls
  /\ polls' = [polls EXCEPT ![c] = @ + 1]
  /\ Goto(c, "insert")
  /\ NoFault
  /\ UNCHANGED <<idx, claimRow, schema>>

PollFault(c) ==
  /\ pc[c] = "poll"
  /\ Fault
  /\ Goto(c, "broken")
  /\ UNCHANGED <<idx, polls, claimRow, schema>>

-----------------------------------------------------------------------------
(* applyWithClaim under the claim *)

\* Faulty: trusts the isApplied of before the wait.
RecheckUnconditional(c) ==
  /\ pc[c] = "recheck"
  /\ \/ NoFault /\ Goto(c, "progress")
     \/ Fault /\ Goto(c, "fail")
  /\ UNCHANGED <<idx, polls, claimRow, schema>>

\* The second isApplied: another call may have finished the file meanwhile.
Recheck(c) ==
  /\ pc[c] = "recheck"
  /\ \/ NoFault /\ Goto(c, IF marked THEN "release" ELSE "progress")
     \/ Fault /\ Goto(c, "fail")
  /\ UNCHANGED <<idx, polls, claimRow, schema>>

\* Faulty: records the statements finished, not the one about to run.
WriteProgressLate(c, i) ==
  IF claimOwner = c
  THEN claimIndex' = i - 1 /\ claimState' = "running" /\ UNCHANGED claimOwner
  ELSE UNCHANGED claimRow

\* CLAIM_PROGRESS touches the row of this owner only and its row count is not
\* looked at.
WriteProgress(c, i) ==
  IF claimOwner = c
  THEN claimIndex' = i /\ claimState' = "running" /\ UNCHANGED claimOwner
  ELSE UNCHANGED claimRow

\* `index += 1`, then CLAIM_PROGRESS.
Progress(c) ==
  /\ pc[c] = "progress"
  /\ idx' = [idx EXCEPT ![c] = @ + 1]
  /\ \/ NoFault /\ WriteProgress(c, idx[c] + 1) /\ Goto(c, "execute")
     \/ /\ Fault
        /\ WriteProgress(c, idx[c] + 1) \/ UNCHANGED claimRow
        /\ Goto(c, "fail")
  /\ UNCHANGED <<polls, schema>>

RunStatement(i) == ran' = [ran EXCEPT ![i] = @ + 1]

\* Faulty: the loop ends one statement early.
AfterStatementOneTooFew(i) == IF i < NStatements - 1 THEN "progress" ELSE "mark"

\* Where a call goes after statement i.
AfterStatement(i) == IF i < NStatements THEN "progress" ELSE "mark"

\* One statement of the file; DDL takes effect at once.  A failure is a
\* rejected statement or a lost answer to one that ran.
Execute(c) ==
  /\ pc[c] = "execute"
  /\ \/ /\ NoFault
        /\ RunStatement(idx[c])
        /\ Goto(c, AfterStatement(idx[c]))
     \/ /\ Fault
        /\ RunStatement(idx[c]) \/ UNCHANGED ran
        /\ Goto(c, "fail")
  /\ UNCHANGED <<idx, polls, claimRow, marked, left>>

\* The INSERT into _flowpanel_migrations, whose id is its primary key.
MarkApplied(c) ==
  /\ pc[c] = "mark"
  /\ \/ NoFault /\ ~marked /\ marked' = TRUE /\ Goto(c, "release")
     \/ NoFault /\ marked /\ UNCHANGED marked /\ Goto(c, "fail")
     \/ Fault /\ (marked' = TRUE \/ UNCHANGED marked) /\ Goto(c, "fail")
  /\ UNCHANGED <<idx, polls, claimRow, ran, left>>

\* CLAIM_FAILED
WriteFailed(c) ==
  IF claimOwner = c
  THEN claimIndex' = idx[c] /\ claimState' = "failed" /\ UNCHANGED claimOwner
  ELSE UNCHANGED claimRow

\* The catch block records the failure; when that write fails too, the claim
\* stays 'running' and its owner is gone.
RecordFailure(c) ==
  /\ pc[c] = "fail"
  /\ \/ NoFault /\ WriteFailed(c)
     \/ Fault /\ (WriteFailed(c) \/ UNCHANGED claimRow)
  /\ Goto(c, "broken")
  /\ UNCHANGED <<idx, polls, schema>>

DropOwnClaim(c) ==
  IF claimOwner = c THEN DeleteClaim ELSE UNCHANGED claimRow

\* The DELETE ... WHERE id = ? AND owner = ? at the end.
Release(c) ==
  /\ pc[c] = "release"
  /\ \/ NoFault /\ DropOwnClaim(c) /\ Goto(c, "resolved")
     \/ Fault /\ (DropOwnClaim(c) \/ UNCHANGED claimRow) /\ Goto(c, "broken")
  /\ UNCHANGED <<idx, polls, schema>>

-----------------------------------------------------------------------------
(* The environment *)

\* The process of a call is killed between two of its database calls.
Kill(c) ==
  /\ pc[c] \notin Ended
  /\ Fault
  /\ Goto(c, "dead")
  /\ UNCHANGED <<idx, polls, claimRow, schema>>

OwnerIsGone == claimOwner # Nobody /\ pc[claimOwner] \in Ended

\* The operator repairs the schema, undoing a half-applied file, and deletes the
\* row, as the message about a failed claim asks.
OperatorRepairs ==
  /\ OwnerIsGone
  /\ DeleteClaim
  /\ ran' = IF marked THEN ran ELSE [s \in Statements |-> 0]
  /\ left' = IF marked THEN left ELSE ran'
  /\ UNCHANGED <<pc, idx, polls, marked, faults>>

\* The message of the deadline, all that is shown behind a killed owner, asks for
\* no repair: the operator deletes the row, and what the owner had committed stays.
OperatorDeletes ==
  /\ OwnerIsGone
  /\ claimState = "running"
  /\ DeleteClaim
  /\ left' = IF marked THEN left ELSE ran
  /\ UNCHANGED <<pc, idx, polls, marked, ran, faults>>

Operator == OperatorRepairs \/ OperatorDeletes

-----------------------------------------------------------------------------
CallStep(c) ==
  \/ Start(c) \/ Cleanup(c)
  \/ Insert(c) \/ Lookup(c)
  \/ PollOwn(c) \/ PollFailed(c) \/ Deadline(c) \/ Sleep(c) \/ PollFault(c)
  \/ Recheck(c) \/ Progress(c) \/ Execute(c) \/ MarkApplied(c)
  \/ RecordFailure(c) \/ Release(c)

Next == (\E c \in Calls : CallStep(c) \/ Kill(c)) \/ Operator

Spec == Init /\ [][Next]_vars

\* Node keeps resuming a call whose promise settled, and a database call
\* settles; nobody promises that an operator ever comes.
FairSpec == Spec /\ \A c \in Calls : WF_vars(CallStep(c))

-----------------------------------------------------------------------------
(* Properties *)

\* Since the operator took the last claim away, the first k statements ran once
\* each and no other ran: the shape a run leaves the schema in.
RanPrefix(k) == \A s \in Statements : ran[s] = left[s] + (IF s <= k THEN 1 ELSE 0)

\* "the claim serializes migrators": two calls are never both between the
\* recheck and the marker.
OneBody == \A c, d \in Calls : pc[c] \in Body /\ pc[d] \in Body => c = d

\* "a second `flowpanel migrate` never replays a file": no statement takes effect
\* twice, whatever fails and whoever is killed, until an operator lets the file start
\* over; every deletion of a killed owner's row is good for one more.
NeverReplayed == \A s \in Statements : ran[s] \in {left[s], left[s] + 1}

\* The marker and the claim's statement_index tell what the runs since the operator's
\* last act left in the schema, each statement once: the whole file under a marker;
\* under a claim the statements before statement_index, and perhaps that one; without
\* either, nothing.  What a killed owner had run, and the operator did not undo when
\* deleting its row, nothing tells: the next run adds to it.
SchemaIsTold ==
  \E k \in IF marked THEN {NStatements}
           ELSE IF claimOwner = Nobody THEN {0} ELSE {claimIndex, claimIndex - 1} :
    RanPrefix(k)

\* "a half-applied file is never silently retried": while a claim is failed
\* and the file is not marked, no step runs a statement or marks the file,
\* and only the operator removes the claim.
FailedClaimHolds ==
  [][ claimState = "failed" /\ ~marked =>
        \/ claimOwner' = claimOwner /\ claimState' = "failed"
           /\ UNCHANGED schema
        \/ claimOwner' = Nobody /\ pc[claimOwner] \in Ended
           /\ ran' = [s \in Statements |-> 0] ]_vars

\* A call that resolved tells its caller, which goes on to the next file,
\* that the file is in the schema.
ResolvedMeansMarked == \A c \in Calls : pc[c] = "resolved" => marked

\* No call waits for a claim for ever, even when the owner was killed and
\* nobody repairs anything: the deadline ends the wait.
EveryCallEnds == \A c \in Calls : <>(pc[c] \in Ended)

\* applyMigration implements the ledger: one run at a time sends the statements one
\* by one in file order, then the marker, and after a run that left half-way none
\* begins before an operator acted.
AppliedCount ==
  CHOOSE k \in 0..NStatements : RanPrefix(k)

Running == \E c \in Calls : pc[c] \in Body

Ledger == INSTANCE MigrationLedger
            WITH effects <- ran, applied <- AppliedCount, live <- Running

ImplementsLedger == Ledger!LedgerSpec
=============================================================================
