------------------------- MODULE MigrationClaimProofs -------------------------
(***************************************************************************)
(* The claim protocol is safe for any number of calls, statements, polls   *)
(* and faults.  The inductive invariant adds to the safety properties what *)
(* makes them preserved: who holds the claim at each place of the code,    *)
(* and how much of the file the schema then holds.                         *)
(***************************************************************************)
EXTENDS MigrationClaim, TLAPS

\* Before the recheck a call has run nothing.
IdxInv ==
  \A c \in Calls :
    pc[c] \in {"start", "cleanup", "insert", "lookup", "poll", "recheck"} => idx[c] = 0

\* Whoever is about to write owns the claim, and nobody marked the file; at
\* the recheck the claim may have been cleaned up by a call that saw the marker.
OwnerInv ==
  \A c \in Calls :
    /\ pc[c] \in Body => claimOwner = c /\ ~marked
    /\ pc[c] = "recheck" => claimOwner = c \/ marked
    /\ pc[c] \in {"start", "cleanup", "insert"} => claimOwner # c
    /\ pc[c] \in {"cleanup", "release", "resolved"} => marked

\* What the schema holds when c owns the claim of an unmarked file.
HeldAt(c) ==
  /\ pc[c] \in {"lookup", "poll", "recheck"} => RanPrefix(0) /\ claimIndex = 0
  /\ pc[c] = "progress" =>
       RanPrefix(idx[c]) /\ claimIndex = idx[c] /\ idx[c] < NStatements
  /\ pc[c] = "execute" =>
       RanPrefix(idx[c] - 1) /\ claimIndex = idx[c] /\ idx[c] >= 1
  /\ pc[c] = "mark" =>
       RanPrefix(NStatements) /\ claimIndex = NStatements /\ idx[c] = NStatements
  /\ pc[c] = "fail" => \E k \in {idx[c], idx[c] - 1} : RanPrefix(k)
  /\ \E k \in {claimIndex, claimIndex - 1} : RanPrefix(k)

SchemaInv ==
  /\ marked => RanPrefix(NStatements)
  /\ ~marked /\ claimOwner = Nobody => RanPrefix(0)
  /\ ~marked => \A c \in Calls : claimOwner = c => HeldAt(c)

\* Only a call that has ended leaves a failed claim.
FailedInv ==
  claimState = "failed" => claimOwner # Nobody /\ pc[claimOwner] = "broken"

IInv == TypeOK /\ IdxInv /\ OwnerInv /\ SchemaInv /\ FailedInv
LEMMA InitIInv == Init => IInv
<1> SUFFICES ASSUME Init PROVE IInv
  OBVIOUS
<1> USE CallsAssumption, StatementsAssumption, BoundsAssumption DEF Init
<1>1. TypeOK
  <2>1. marked \in BOOLEAN
    BY Zenon
  <2>2. /\ pc \in [Calls -> Places]
        /\ idx \in [Calls -> 0..NStatements]
        /\ polls \in [Calls -> 0..MaxPolls]
        /\ ran \in [Statements -> Nat] /\ left \in [Statements -> Nat]
    BY DEF Places
  <2>3. /\ claimOwner \in Calls \cup {Nobody}
        /\ claimState \in {"running", "failed"}
        /\ claimIndex \in 0..NStatements
        /\ faults \in 0..MaxFaults
    OBVIOUS
  <2> QED
    BY <2>1, <2>2, <2>3 DEF TypeOK
<1>2. IdxInv /\ OwnerInv /\ FailedInv
  BY DEF IdxInv, OwnerInv, FailedInv, Body
<1>3. SchemaInv
  BY DEF SchemaInv, RanPrefix, Statements
<1> QED
  BY <1>1, <1>2, <1>3 DEF IInv

\* A step that leaves the schema's statements alone leaves what they spell.
LEMMA RanPrefixStable ==
  ASSUME UNCHANGED <<ran, left>>, NEW k
  PROVE  RanPrefix(k)' <=> RanPrefix(k)
BY DEF RanPrefix

LEMMA NextIInv == IInv /\ [Next]_vars => IInv'
<1> USE CallsAssumption, StatementsAssumption, BoundsAssumption
<1> SUFFICES ASSUME IInv, [Next]_vars PROVE IInv'
  OBVIOUS
<1>0. TypeOK /\ IdxInv /\ OwnerInv /\ SchemaInv /\ FailedInv
  BY DEF IInv
<1> USE DEF Places, Ended, Rejected, Body, claimRow, schema, Goto, Fault, NoFault
<1>1. ASSUME NEW c \in Calls, Start(c) PROVE IInv'
  <2> USE <1>0, <1>1 DEF Start
  <2>1. \A k : RanPrefix(k)' <=> RanPrefix(k)
    BY RanPrefixStable
  <2>2. TypeOK'
    BY DEF TypeOK
  <2>3. IdxInv'
    BY DEF TypeOK, IdxInv
  <2>4. OwnerInv'
    BY DEF TypeOK, OwnerInv
  <2>5. SchemaInv'
    BY <2>1 DEF TypeOK, IdxInv, OwnerInv, SchemaInv, HeldAt
  <2>6. FailedInv'
    BY DEF TypeOK, OwnerInv, FailedInv
  <2> QED
    BY <2>2, <2>3, <2>4, <2>5, <2>6 DEF IInv
<1>2. ASSUME NEW c \in Calls, Cleanup(c) PROVE IInv'
  <2> USE <1>0, <1>2 DEF Cleanup, DeleteClaim
  <2>1. \A k : RanPrefix(k)' <=> RanPrefix(k)
    BY RanPrefixStable
  <2>2. TypeOK'
    BY DEF TypeOK
  <2>3. IdxInv'
    BY DEF TypeOK, IdxInv
  <2>4. OwnerInv'
    BY DEF TypeOK, OwnerInv
  <2>5. SchemaInv'
    BY <2>1 DEF TypeOK, IdxInv, OwnerInv, SchemaInv, HeldAt
  <2>6. FailedInv'
    BY DEF TypeOK, OwnerInv, FailedInv
  <2> QED
    BY <2>2, <2>3, <2>4, <2>5, <2>6 DEF IInv
<1>3. ASSUME NEW c \in Calls, Insert(c) PROVE IInv'
  <2> USE <1>0, <1>3 DEF Insert, TakeClaim
  <2>1. \A k : RanPrefix(k)' <=> RanPrefix(k)
    BY RanPrefixStable
  <2>2. TypeOK'
    BY DEF TypeOK
  <2>3. IdxInv'
    BY DEF TypeOK, IdxInv
  <2>4. OwnerInv'
    BY DEF TypeOK, OwnerInv
  <2>5. SchemaInv'
    BY <2>1 DEF TypeOK, IdxInv, OwnerInv, SchemaInv, HeldAt
  <2>6. FailedInv'
    BY DEF TypeOK, OwnerInv, FailedInv
  <2> QED
    BY <2>2, <2>3, <2>4, <2>5, <2>6 DEF IInv
<1>4. ASSUME NEW c \in Calls, Lookup(c) PROVE IInv'
  <2> USE <1>0, <1>4 DEF Lookup
  <2>1. \A k : RanPrefix(k)' <=> RanPrefix(k)
    BY RanPrefixStable
  <2>2. TypeOK'
    BY DEF TypeOK
  <2>3. IdxInv'
    BY DEF TypeOK, IdxInv
  <2>4. OwnerInv'
    BY DEF TypeOK, OwnerInv
  <2>5. SchemaInv'
    BY <2>1 DEF TypeOK, IdxInv, OwnerInv, SchemaInv, HeldAt
  <2>6. FailedInv'
    BY DEF TypeOK, OwnerInv, FailedInv
  <2> QED
    BY <2>2, <2>3, <2>4, <2>5, <2>6 DEF IInv
<1>5. ASSUME NEW c \in Calls, PollOwn(c) PROVE IInv'
  <2> USE <1>0, <1>5 DEF PollOwn
  <2>1. \A k : RanPrefix(k)' <=> RanPrefix(k)
    BY RanPrefixStable
  <2>2. TypeOK'
    BY DEF TypeOK
  <2>3. IdxInv'
    BY DEF TypeOK, IdxInv
  <2>4. OwnerInv'
    BY DEF TypeOK, OwnerInv
  <2>5. SchemaInv'
    BY <2>1 DEF TypeOK, IdxInv, OwnerInv, SchemaInv, HeldAt
  <2>6. FailedInv'
    BY DEF TypeOK, OwnerInv, FailedInv
  <2> QED
    BY <2>2, <2>3, <2>4, <2>5, <2>6 DEF IInv
<1>6. ASSUME NEW c \in Calls, PollFailed(c) PROVE IInv'
  <2> USE <1>0, <1>6 DEF PollFailed
  <2>1. \A k : RanPrefix(k)' <=> RanPrefix(k)
    BY RanPrefixStable
  <2>2. TypeOK'
    BY DEF TypeOK
  <2>3. IdxInv'
    BY DEF TypeOK, IdxInv
  <2>4. OwnerInv'
    BY DEF TypeOK, OwnerInv
  <2>5. SchemaInv'
    BY <2>1 DEF TypeOK, IdxInv, OwnerInv, SchemaInv, HeldAt
  <2>6. FailedInv'
    BY DEF TypeOK, OwnerInv, FailedInv
  <2> QED
    BY <2>2, <2>3, <2>4, <2>5, <2>6 DEF IInv
<1>7. ASSUME NEW c \in Calls, Deadline(c) PROVE IInv'
  <2> USE <1>0, <1>7 DEF Deadline
  <2>1. \A k : RanPrefix(k)' <=> RanPrefix(k)
    BY RanPrefixStable
  <2>2. TypeOK'
    BY DEF TypeOK
  <2>3. IdxInv'
    BY DEF TypeOK, IdxInv
  <2>4. OwnerInv'
    BY DEF TypeOK, OwnerInv
  <2>5. SchemaInv'
    BY <2>1 DEF TypeOK, IdxInv, OwnerInv, SchemaInv, HeldAt
  <2>6. FailedInv'
    BY DEF TypeOK, OwnerInv, FailedInv
  <2> QED
    BY <2>2, <2>3, <2>4, <2>5, <2>6 DEF IInv
<1>8. ASSUME NEW c \in Calls, Sleep(c) PROVE IInv'
  <2> USE <1>0, <1>8 DEF Sleep, MustWait
  <2>1. \A k : RanPrefix(k)' <=> RanPrefix(k)
    BY RanPrefixStable
  <2>2. TypeOK'
    BY DEF TypeOK
  <2>3. IdxInv'
    BY DEF TypeOK, IdxInv
  <2>4. OwnerInv'
    BY DEF TypeOK, OwnerInv
  <2>5. SchemaInv'
    BY <2>1 DEF TypeOK, IdxInv, OwnerInv, SchemaInv, HeldAt
  <2>6. FailedInv'
    BY DEF TypeOK, OwnerInv, FailedInv
  <2> QED
    BY <2>2, <2>3, <2>4, <2>5, <2>6 DEF IInv
<1>9. ASSUME NEW c \in Calls, PollFault(c) PROVE IInv'
  <2> USE <1>0, <1>9 DEF PollFault
  <2>1. \A k : RanPrefix(k)' <=> RanPrefix(k)
    BY RanPrefixStable
  <2>2. TypeOK'
    BY DEF TypeOK
  <2>3. IdxInv'
    BY DEF TypeOK, IdxInv
  <2>4. OwnerInv'
    BY DEF TypeOK, OwnerInv
  <2>5. SchemaInv'
    BY <2>1 DEF TypeOK, IdxInv, OwnerInv, SchemaInv, HeldAt
  <2>6. FailedInv'
    BY DEF TypeOK, OwnerInv, FailedInv
  <2> QED
    BY <2>2, <2>3, <2>4, <2>5, <2>6 DEF IInv
<1>10. ASSUME NEW c \in Calls, Recheck(c) PROVE IInv'
  <2> USE <1>0, <1>10 DEF Recheck
  <2>1. \A k : RanPrefix(k)' <=> RanPrefix(k)
    BY RanPrefixStable
  <2>2. TypeOK'
    BY DEF TypeOK
  <2>3. IdxInv'
    BY DEF TypeOK, IdxInv
  <2>4. OwnerInv'
    BY DEF TypeOK, OwnerInv
  <2>5. SchemaInv'
    BY <2>1 DEF TypeOK, IdxInv, OwnerInv, SchemaInv, HeldAt
  <2>6. FailedInv'
    BY DEF TypeOK, OwnerInv, FailedInv
  <2> QED
    BY <2>2, <2>3, <2>4, <2>5, <2>6 DEF IInv
<1>11. ASSUME NEW c \in Calls, Progress(c) PROVE IInv'
  <2> USE <1>0, <1>11 DEF Progress, WriteProgress
  <2>1. \A k : RanPrefix(k)' <=> RanPrefix(k)
    BY RanPrefixStable
  <2>2. TypeOK'
    BY DEF TypeOK, IdxInv, OwnerInv, SchemaInv, HeldAt
  <2>3. IdxInv'
    BY DEF TypeOK, IdxInv
  <2>4. OwnerInv'
    BY DEF TypeOK, OwnerInv
  <2>5. SchemaInv'
    BY <2>1 DEF TypeOK, IdxInv, OwnerInv, SchemaInv, HeldAt
  <2>6. FailedInv'
    BY DEF TypeOK, OwnerInv, FailedInv
  <2> QED
    BY <2>2, <2>3, <2>4, <2>5, <2>6 DEF IInv
<1>12. ASSUME NEW c \in Calls, Execute(c) PROVE IInv'
  <2> USE <1>0, <1>12 DEF Execute, RunStatement, AfterStatement
  <2>2. TypeOK'
    BY DEF TypeOK, IdxInv, OwnerInv, SchemaInv, HeldAt
  <2>3. IdxInv'
    BY DEF TypeOK, IdxInv
  <2>4. OwnerInv'
    BY DEF TypeOK, OwnerInv
  <2>5. SchemaInv'
    <3>1. claimOwner = c /\ ~marked /\ pc[c] = "execute"
      BY DEF OwnerInv
    <3>2. RanPrefix(idx[c] - 1) /\ claimIndex = idx[c] /\ idx[c] \in Statements
      BY <3>1 DEF TypeOK, SchemaInv, HeldAt, Statements
    <3>3. CASE RunStatement(idx[c])
      <4>1. RanPrefix(idx[c])'
        BY <3>2, <3>3 DEF TypeOK, RanPrefix, Statements
      <4> QED
        BY <3>1, <3>2, <4>1 DEF TypeOK, SchemaInv, HeldAt, Statements
    <3>4. CASE UNCHANGED ran /\ pc' = [pc EXCEPT ![c] = "fail"]
      <4>1. \A k : RanPrefix(k)' <=> RanPrefix(k)
        BY <3>4, RanPrefixStable
      <4> QED
        BY <3>1, <3>2, <3>4, <4>1 DEF TypeOK, SchemaInv, HeldAt, Statements
    <3> QED
      BY <3>3, <3>4
  <2>6. FailedInv'
    BY DEF TypeOK, OwnerInv, FailedInv
  <2> QED
    BY <2>2, <2>3, <2>4, <2>5, <2>6 DEF IInv
<1>13. ASSUME NEW c \in Calls, MarkApplied(c) PROVE IInv'
  <2> USE <1>0, <1>13 DEF MarkApplied
  <2>1. \A k : RanPrefix(k)' <=> RanPrefix(k)
    BY RanPrefixStable
  <2>2. TypeOK'
    <3>1. marked' \in BOOLEAN
      BY Zenon DEF TypeOK
    <3>2. pc' \in [Calls -> Places] /\ faults' \in 0..MaxFaults
      BY DEF TypeOK
    <3> QED
      BY <3>1, <3>2 DEF TypeOK
  <2>3. IdxInv'
    BY DEF TypeOK, IdxInv
  <2>4. OwnerInv'
    BY DEF TypeOK, OwnerInv
  <2>5. SchemaInv'
    <3>1. claimOwner = c /\ ~marked /\ RanPrefix(NStatements) /\ claimIndex = NStatements
      BY DEF OwnerInv, SchemaInv, HeldAt
    <3>2. CASE marked'
      BY <2>1, <3>1, <3>2 DEF SchemaInv
    <3>3. CASE ~marked'
      <4>1. pc' = [pc EXCEPT ![c] = "fail"] /\ idx[c] = NStatements
        BY <3>1, <3>3 DEF OwnerInv, SchemaInv, HeldAt
      <4> QED
        BY <2>1, <3>1, <3>3, <4>1 DEF TypeOK, SchemaInv, HeldAt
    <3> QED
      BY <3>2, <3>3
  <2>6. FailedInv'
    BY DEF TypeOK, OwnerInv, FailedInv
  <2> QED
    BY <2>2, <2>3, <2>4, <2>5, <2>6 DEF IInv
<1>14. ASSUME NEW c \in Calls, RecordFailure(c) PROVE IInv'
  <2> USE <1>0, <1>14 DEF RecordFailure, WriteFailed
  <2>1. \A k : RanPrefix(k)' <=> RanPrefix(k)
    BY RanPrefixStable
  <2>2. TypeOK'
    BY DEF TypeOK
  <2>3. IdxInv'
    BY DEF TypeOK, IdxInv
  <2>4. OwnerInv'
    BY DEF TypeOK, OwnerInv
  <2>5. SchemaInv'
    BY <2>1 DEF TypeOK, IdxInv, OwnerInv, SchemaInv, HeldAt
  <2>6. FailedInv'
    BY DEF TypeOK, OwnerInv, FailedInv
  <2> QED
    BY <2>2, <2>3, <2>4, <2>5, <2>6 DEF IInv
<1>15. ASSUME NEW c \in Calls, Release(c) PROVE IInv'
  <2> USE <1>0, <1>15 DEF Release, DropOwnClaim, DeleteClaim
  <2>1. \A k : RanPrefix(k)' <=> RanPrefix(k)
    BY RanPrefixStable
  <2>2. TypeOK'
    BY DEF TypeOK
  <2>3. IdxInv'
    BY DEF TypeOK, IdxInv
  <2>4. OwnerInv'
    BY DEF TypeOK, OwnerInv
  <2>5. SchemaInv'
    BY <2>1 DEF TypeOK, IdxInv, OwnerInv, SchemaInv, HeldAt
  <2>6. FailedInv'
    BY DEF TypeOK, OwnerInv, FailedInv
  <2> QED
    BY <2>2, <2>3, <2>4, <2>5, <2>6 DEF IInv
<1>16. ASSUME NEW c \in Calls, Kill(c) PROVE IInv'
  <2> USE <1>0, <1>16 DEF Kill
  <2>1. \A k : RanPrefix(k)' <=> RanPrefix(k)
    BY RanPrefixStable
  <2>2. TypeOK'
    BY DEF TypeOK
  <2>3. IdxInv'
    BY DEF TypeOK, IdxInv
  <2>4. OwnerInv'
    BY DEF TypeOK, OwnerInv
  <2>5. SchemaInv'
    BY <2>1 DEF TypeOK, IdxInv, OwnerInv, SchemaInv, HeldAt
  <2>6. FailedInv'
    BY DEF TypeOK, OwnerInv, FailedInv
  <2> QED
    BY <2>2, <2>3, <2>4, <2>5, <2>6 DEF IInv
<1>17. CASE Operator
  <2>0. OwnerIsGone /\ DeleteClaim /\ UNCHANGED <<pc, idx, polls, marked, faults>>
    BY <1>17 DEF Operator, OperatorRepairs, OperatorDeletes
  <2>1. ran' \in [Statements -> Nat] /\ left' \in [Statements -> Nat]
    BY <1>0, <1>17 DEF TypeOK, Operator, OperatorRepairs, OperatorDeletes
  <2>2. TypeOK'
    BY <1>0, <2>0, <2>1 DEF TypeOK, DeleteClaim
  <2>3. IdxInv' /\ OwnerInv' /\ FailedInv'
    BY <1>0, <2>0 DEF OwnerIsGone, DeleteClaim, TypeOK, IdxInv, OwnerInv, FailedInv
  <2>4. marked => UNCHANGED <<ran, left>>
    BY <1>17 DEF Operator, OperatorRepairs, OperatorDeletes
  <2>5. ~marked => RanPrefix(0)'
    <3>1. ~marked => left' = ran'
      BY <1>17 DEF Operator, OperatorRepairs, OperatorDeletes
    <3> QED
      BY <2>1, <3>1 DEF RanPrefix, Statements
  <2>6. SchemaInv'
    BY <1>0, <2>0, <2>4, <2>5, RanPrefixStable DEF SchemaInv, DeleteClaim
  <2> QED
    BY <2>2, <2>3, <2>6 DEF IInv
<1>18. CASE UNCHANGED vars
  BY <1>0, <1>18 DEF vars, IInv, TypeOK, IdxInv, OwnerInv, SchemaInv, HeldAt, RanPrefix, FailedInv
<1> QED
  BY <1>1, <1>2, <1>3, <1>4, <1>5, <1>6, <1>7, <1>8, <1>9, <1>10, <1>11, <1>12, <1>13, <1>14, <1>15, <1>16, <1>17, <1>18 DEF Next, CallStep
\* The invariant holds of every behaviour.
THEOREM Invariance == Spec => []IInv
BY InitIInv, NextIInv, PTL DEF Spec

\* Every variable of applyWithClaim keeps its type, the statement index its
\* bound.
THEOREM TypeCorrect == Spec => []TypeOK
<1>1. IInv => TypeOK
  BY DEF IInv
<1> QED
  BY <1>1, Invariance, PTL

\* Two calls of applyMigration are never both between the recheck and the
\* marker.
THEOREM ClaimSerializes == Spec => []OneBody
<1>1. IInv => OneBody
  BY DEF IInv, OwnerInv, OneBody
<1> QED
  BY <1>1, Invariance, PTL

\* The runs since the operator's last act left a prefix of the file.
LEMMA PrefixExists == IInv => \E k \in 0..NStatements : RanPrefix(k)
<1> SUFFICES ASSUME IInv PROVE \E k \in 0..NStatements : RanPrefix(k)
  OBVIOUS
<1> USE StatementsAssumption DEF IInv, TypeOK
<1>1. CASE marked
  BY <1>1 DEF SchemaInv
<1>2. CASE ~marked /\ claimOwner = Nobody
  BY <1>2 DEF SchemaInv
<1>3. CASE ~marked /\ claimOwner \in Calls
  <2>1. PICK k \in {claimIndex, claimIndex - 1} : RanPrefix(k)
    BY <1>3 DEF SchemaInv, HeldAt
  <2>2. CASE k \in 0..NStatements
    BY <2>1, <2>2
  <2>3. CASE k = -1
    <3>1. RanPrefix(0)
      BY <2>1, <2>3 DEF RanPrefix, Statements
    <3> QED
      BY <3>1
  <2> QED
    BY <2>2, <2>3
<1> QED
  BY <1>1, <1>2, <1>3

\* Until the operator deletes a killed owner's row no statement of the file takes
\* effect twice, whatever fails and whoever is killed; and every deletion lets each
\* take effect once more at most.
THEOREM NoReplay == Spec => []NeverReplayed
<1>1. IInv => NeverReplayed
  <2> SUFFICES ASSUME IInv, NEW s \in Statements PROVE ran[s] \in {left[s], left[s] + 1}
    BY DEF NeverReplayed
  <2>1. PICK k \in 0..NStatements : RanPrefix(k)
    BY PrefixExists
  <2> QED
    BY <2>1 DEF RanPrefix, IInv, TypeOK
<1> QED
  BY <1>1, Invariance, PTL

\* The marker and the claim tell the operator, who reads statement_index, what the
\* runs since the last deletion of a claim left in the schema.
THEOREM SchemaIsTrue == Spec => []SchemaIsTold
<1>1. IInv => SchemaIsTold
  <2> SUFFICES ASSUME IInv PROVE SchemaIsTold
    OBVIOUS
  <2>1. CASE marked
    BY <2>1 DEF IInv, SchemaInv, SchemaIsTold
  <2>2. CASE ~marked /\ claimOwner = Nobody
    BY <2>2 DEF IInv, SchemaInv, SchemaIsTold
  <2>3. CASE ~marked /\ claimOwner # Nobody
    <3>1. HeldAt(claimOwner)
      BY <2>3 DEF IInv, TypeOK, SchemaInv
    <3> QED
      BY <2>3, <3>1 DEF HeldAt, SchemaIsTold
  <2> QED
    BY <2>1, <2>2, <2>3
<1> QED
  BY <1>1, Invariance, PTL

\* A call that resolved means the file is marked: the CLI may go on.
THEOREM ResolvedIsTrue == Spec => []ResolvedMeansMarked
<1>1. IInv => ResolvedMeansMarked
  BY DEF IInv, TypeOK, OwnerInv, SchemaInv, HeldAt, ResolvedMeansMarked
<1> QED
  BY <1>1, Invariance, PTL

\* A half-applied file is never silently retried: only the operator takes a
\* failed claim away, with the schema repaired.
THEOREM FailedClaimIsKept == Spec => FailedClaimHolds
<1> DEFINE Kept ==
      claimState = "failed" /\ ~marked =>
        \/ claimOwner' = claimOwner /\ claimState' = "failed" /\ UNCHANGED schema
        \/ claimOwner' = Nobody /\ pc[claimOwner] \in Ended
           /\ ran' = [s \in Statements |-> 0]
<1>1. IInv /\ [Next]_vars => [Kept]_vars
  <2> SUFFICES ASSUME IInv, [Next]_vars, claimState = "failed", ~marked
               PROVE  Kept
    OBVIOUS
  <2>0. /\ claimOwner \in Calls /\ pc[claimOwner] = "broken"
        /\ \A c \in Calls : pc[c] \in {"cleanup", "release"} \cup Body => FALSE
    BY CallsAssumption DEF IInv, TypeOK, FailedInv, OwnerInv, Body
  <2>1. ASSUME NEW c \in Calls, CallStep(c) PROVE Kept
    BY <2>0, <2>1, CallsAssumption
    DEF CallStep, Start, Cleanup, Insert, TakeClaim, Lookup, PollOwn, PollFailed,
        Deadline, Sleep, PollFault, Recheck, Progress, Execute, MarkApplied,
        RecordFailure, WriteFailed, Release, Body, claimRow, schema,
        IInv, OwnerInv
  <2>2. ASSUME NEW c \in Calls, Kill(c) PROVE Kept
    BY <2>2 DEF Kill, claimRow, schema
  <2>3. CASE Operator
    BY <2>3 DEF Operator, OperatorRepairs, OperatorDeletes, OwnerIsGone, DeleteClaim
  <2>4. CASE UNCHANGED vars
    BY <2>4 DEF vars, claimRow, schema
  <2> QED
    BY <2>1, <2>2, <2>3, <2>4 DEF Next
<1> QED
  BY <1>1, Invariance, PTL DEF Spec, FailedClaimHolds

\* The number of statements a prefix stands for is unique.
LEMMA PrefixUnique ==
  ASSUME TypeOK, NEW j \in 0..NStatements, NEW k \in 0..NStatements,
         RanPrefix(j), RanPrefix(k)
  PROVE  j = k
<1>1. \A s \in Statements : left[s] \in Nat
  BY DEF TypeOK
<1>2. CASE j < k
  <2>1. k \in Statements /\ ~(k <= j)
    BY <1>2, StatementsAssumption DEF Statements
  <2> QED
    BY <1>1, <2>1 DEF RanPrefix
<1>3. CASE k < j
  <2>1. j \in Statements /\ ~(j <= k)
    BY <1>3, StatementsAssumption DEF Statements
  <2> QED
    BY <1>1, <2>1 DEF RanPrefix
<1> QED
  BY <1>2, <1>3, StatementsAssumption

LEMMA CountIs == TypeOK => \A k \in 0..NStatements : RanPrefix(k) => AppliedCount = k
<1> HAVE TypeOK
<1> TAKE k \in 0..NStatements
<1> HAVE RanPrefix(k)
<1>1. \A j \in 0..NStatements : RanPrefix(j) => j = k
  BY PrefixUnique
<1> QED
  BY <1>1 DEF AppliedCount

\* A step that leaves the schema alone and begins no run is none of the ledger's, or
\* the end of one.
LEMMA QuietStep ==
  ASSUME UNCHANGED <<ran, marked, AppliedCount>>, Running' => Running
  PROVE  [Ledger!LedgerNext]_(Ledger!ledgerVars)
<1>1. CASE Running' <=> Running
  <2>1. UNCHANGED Running
    BY <1>1
  <2> QED
    BY <2>1 DEF Ledger!ledgerVars
<1>2. CASE Running /\ ~Running'
  BY <1>2 DEF Ledger!LedgerNext, Ledger!Leave
<1> QED
  BY <1>1, <1>2

\* applyMigration implements the ledger: a step of the protocol is a step of
\* the ledger or leaves the schema alone.
THEOREM ClaimImplementsLedger == Spec => ImplementsLedger
<1> USE StatementsAssumption
<1>1. Init => Ledger!LedgerInit
  <2> SUFFICES ASSUME Init PROVE Ledger!LedgerInit
    OBVIOUS
  <2>1. RanPrefix(0)
    BY DEF Init, RanPrefix, Statements
  <2>2. AppliedCount = 0
    BY <2>1, InitIInv, CountIs DEF IInv
  <2>3. Running = FALSE
    BY DEF Init, Running, Body
  <2>4. ran = [s \in 1..NStatements |-> 0] /\ marked = FALSE
    BY DEF Init, Statements
  <2> QED
    BY <2>2, <2>3, <2>4 DEF Ledger!LedgerInit
<1>2. (TypeOK => \A k \in 0..NStatements : RanPrefix(k) => AppliedCount = k)'
  BY CountIs, PTL
<1>3. ASSUME IInv, IInv', [Next]_vars
      PROVE  [Ledger!LedgerNext]_(Ledger!ledgerVars)
  <2>1. PICK k \in 0..NStatements : RanPrefix(k)
    BY <1>3, PrefixExists
  <2>2. AppliedCount = k
    BY <1>3, <2>1, CountIs DEF IInv
  <2>3. TypeOK /\ TypeOK'
    BY <1>3 DEF IInv
  <2>4. ASSUME UNCHANGED schema PROVE UNCHANGED <<ran, marked, AppliedCount>>
    <3>1. RanPrefix(k)'
      BY <2>1, <2>4, RanPrefixStable DEF schema
    <3> QED
      BY <1>2, <2>2, <2>3, <2>4, <3>1 DEF schema
  <2>5. ASSUME NEW c \in Calls, NEW place, Goto(c, place),
               place \in Body => pc[c] \in Body
        PROVE  Running' => Running
    <3> SUFFICES ASSUME NEW d \in Calls, pc'[d] \in Body PROVE Running
      BY DEF Running
    <3> QED
      BY <2>3, <2>5 DEF Goto, Running, TypeOK
  <2>6. ASSUME NEW c \in Calls, Recheck(c) PROVE [Ledger!LedgerNext]_(Ledger!ledgerVars)
    <3>1. UNCHANGED schema
      BY <2>6 DEF Recheck
    <3>2. CASE Goto(c, "progress") /\ ~marked
      <4>1. claimOwner = c /\ RanPrefix(0)
        BY <1>3, <2>6, <3>2 DEF Recheck, IInv, OwnerInv, SchemaInv, HeldAt
      <4>2. AppliedCount = 0
        BY <2>3, <4>1, CountIs
      <4>3. ~Running
        BY <1>3, <2>6, <4>1 DEF Recheck, Running, IInv, OwnerInv, Body
      <4>4. Running'
        BY <2>3, <3>2 DEF Goto, Running, TypeOK, Body
      <4> QED
        BY <2>4, <3>1, <3>2, <4>2, <4>3, <4>4 DEF Ledger!LedgerNext, Ledger!Begin
    <3>3. CASE Goto(c, "release") \/ Goto(c, "fail")
      <4>1. Running' => Running
        BY <2>5, <3>3 DEF Body
      <4> QED
        BY <2>4, <3>1, <4>1, QuietStep
    <3> QED
      BY <2>6, <3>2, <3>3 DEF Recheck
  <2>7. ASSUME NEW c \in Calls, Execute(c) PROVE [Ledger!LedgerNext]_(Ledger!ledgerVars)
    <3>1. claimOwner = c /\ ~marked /\ idx[c] \in Statements /\ RanPrefix(idx[c] - 1)
      BY <1>3, <2>7 DEF Execute, IInv, TypeOK, OwnerInv, SchemaInv, HeldAt, Body, Statements
    <3>2. Running
      BY <2>7 DEF Execute, Running, Body
    <3>3. CASE UNCHANGED ran
      <4>1. Running' => Running
        BY <3>2
      <4>2. UNCHANGED schema
        BY <2>7, <3>3 DEF Execute, schema
      <4> QED
        BY <2>4, <4>1, <4>2, QuietStep
    <3>4. CASE RunStatement(idx[c])
      <4>1. k = idx[c] - 1
        <5>1. idx[c] - 1 \in 0..NStatements
          BY <3>1 DEF Statements
        <5> QED
          BY <2>1, <2>3, <3>1, <5>1, PrefixUnique
      <4>2. k + 1 \in Statements /\ ran' = [ran EXCEPT ![k + 1] = @ + 1]
        <5>1. idx[c] = k + 1
          BY <3>1, <4>1 DEF Statements
        <5> QED
          BY <3>1, <3>4, <5>1 DEF RunStatement
      <4>3. UNCHANGED <<marked, left>>
        BY <2>7 DEF Execute
      <4>4. RanPrefix(k + 1)' /\ k + 1 \in 0..NStatements
        <5>1. k + 1 \in 0..NStatements
          BY <4>2 DEF Statements
        <5>2. ASSUME NEW s \in Statements
              PROVE  ran'[s] = left'[s] + (IF s <= k + 1 THEN 1 ELSE 0)
          <6>1. left'[s] = left[s] /\ ran[s] = left[s] + (IF s <= k THEN 1 ELSE 0)
            BY <2>1, <4>3 DEF RanPrefix
          <6>2. ran'[s] = IF s = k + 1 THEN ran[s] + 1 ELSE ran[s]
            BY <2>3, <4>2 DEF TypeOK
          <6> QED
            BY <2>3, <6>1, <6>2 DEF TypeOK, Statements
        <5> QED
          BY <5>1, <5>2 DEF RanPrefix
      <4>5. AppliedCount' = k + 1
        BY <1>2, <2>3, <4>4
      <4>6. Running' \in BOOLEAN
        BY DEF Running
      <4>7. k < NStatements
        BY <4>2 DEF Statements
      <4> QED
        BY <2>2, <3>2, <4>2, <4>3, <4>5, <4>6, <4>7 DEF Ledger!LedgerNext, Ledger!ExecuteNext
    <3> QED
      BY <2>7, <3>3, <3>4 DEF Execute
  <2>8. ASSUME NEW c \in Calls, MarkApplied(c) PROVE [Ledger!LedgerNext]_(Ledger!ledgerVars)
    <3>1. claimOwner = c /\ ~marked /\ RanPrefix(NStatements) /\ UNCHANGED <<ran, left>>
      BY <1>3, <2>8 DEF MarkApplied, IInv, OwnerInv, SchemaInv, HeldAt, Body
    <3>2. Running
      BY <2>8 DEF MarkApplied, Running, Body
    <3>3. CASE UNCHANGED marked
      BY <2>4, <3>1, <3>2, <3>3, QuietStep DEF schema
    <3>4. CASE marked' = TRUE
      <4>1. AppliedCount = NStatements
        BY <2>3, <3>1, CountIs
      <4>2. AppliedCount' = NStatements
        BY <1>2, <2>3, <3>1, RanPrefixStable
      <4>3. Running' = FALSE
        BY <1>3, <3>4 DEF IInv, OwnerInv, Running
      <4> QED
        BY <3>1, <3>2, <3>4, <4>1, <4>2, <4>3 DEF Ledger!LedgerNext, Ledger!Mark
    <3> QED
      BY <2>8, <3>3, <3>4 DEF MarkApplied
  <2>9. ASSUME Operator PROVE [Ledger!LedgerNext]_(Ledger!ledgerVars)
    <3>1. ~Running
      BY <1>3, <2>9 DEF Operator, OperatorRepairs, OperatorDeletes, OwnerIsGone, Running,
                        IInv, OwnerInv, Body, Ended, Rejected
    <3>2. UNCHANGED marked /\ UNCHANGED Running
      BY <2>9 DEF Operator, OperatorRepairs, OperatorDeletes, Running
    <3>3. CASE marked
      <4>1. UNCHANGED schema
        BY <2>9, <3>3 DEF Operator, OperatorRepairs, OperatorDeletes, schema
      <4> QED
        BY <2>4, <3>2, <4>1, QuietStep
    <3>4. CASE ~marked
      <4>1. RanPrefix(0)'
        <5>1. left' = ran'
          BY <2>9, <3>4 DEF Operator, OperatorRepairs, OperatorDeletes
        <5> QED
          BY <2>3, <5>1 DEF RanPrefix, TypeOK, Statements
      <4>2. AppliedCount' = 0
        BY <1>2, <2>3, <4>1
      <4>3. UNCHANGED ran \/ ran' = [s \in 1..NStatements |-> 0]
        BY <2>9, <3>4 DEF Operator, OperatorRepairs, OperatorDeletes, Statements
      <4> QED
        BY <3>1, <3>2, <3>4, <4>2, <4>3 DEF Ledger!LedgerNext, Ledger!Repair, Ledger!StartOver
    <3> QED
      BY <3>3, <3>4
  <2>10. ASSUME NEW c \in Calls, CallStep(c) \/ Kill(c),
                ~Recheck(c), ~Execute(c), ~MarkApplied(c)
         PROVE  [Ledger!LedgerNext]_(Ledger!ledgerVars)
    <3>1. UNCHANGED schema
      BY <2>10 DEF CallStep, Start, Cleanup, Insert, Lookup, PollOwn, PollFailed,
         Deadline, Sleep, PollFault, Progress, RecordFailure, Release, Kill
    <3>2. \E place : Goto(c, place) /\ (place \in Body => pc[c] \in Body)
      BY <2>10 DEF CallStep, Start, Cleanup, Insert, Lookup, PollOwn, PollFailed,
         Deadline, Sleep, PollFault, Progress, RecordFailure, Release, Kill, Body
    <3>3. Running' => Running
      BY <2>5, <3>2
    <3> QED
      BY <2>4, <3>1, <3>3, QuietStep
  <2>11. CASE UNCHANGED vars
    <3>1. UNCHANGED schema /\ UNCHANGED Running
      BY <2>11 DEF vars, Running
    <3> QED
      BY <2>4, <3>1, QuietStep
  <2> QED
    BY <1>3, <2>6, <2>7, <2>8, <2>9, <2>10, <2>11 DEF Next, CallStep
<1> QED
  BY <1>1, <1>3, Invariance, PTL DEF Spec, ImplementsLedger, Ledger!LedgerSpec
=============================================================================
