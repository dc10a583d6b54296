--------------------------- MODULE ServerProcessProofs ---------------------------
(***************************************************************************)
(* What a mutation answers, audits and announces is true of what it did,   *)
(* for any number of requests, rows and faults and for every adapter; and  *)
(* the publishers and event streams that carry what it announces lose      *)
(* nobody, for any number of streams, channels, publishers and             *)
(* connections.                                                            *)
(***************************************************************************)
EXTENDS ServerProcess, TLAPS

(* Mutations.  The invariant is local to a request.  Another request       *)
(* disturbs it in one way only: it removes a row, which Removed then       *)
(* remembers.                                                              *)


Places ==
  {"idle", "read", "write", "orphan", "readBack", "commit", "audit", "effects"} \cup Answers

Types ==
  /\ adapter \in AllAdapters
  /\ table \in [Rows -> {"absent", "live", "stamped"}]
  /\ kind \in [Requests -> Kinds \cup {"none"}]
  /\ pc \in [Requests -> Places]
  /\ targets \in [Requests -> SUBSET Rows] /\ pending \in [Requests -> SUBSET Rows]
  /\ staged \in [Requests -> SUBSET Rows] /\ acked \in [Requests -> SUBSET Rows]
  /\ trail \in [Requests -> SUBSET Rows] /\ did \in [Requests -> SUBSET Rows]
  /\ told \subseteq Requests /\ troubled \subseteq Requests /\ muted \subseteq Requests

Deletes(q) == kind[q] \in {"delete", "bulk"}

\* How far a request is, and what it can have done by then.
Progress(q) ==
  /\ pc[q] = "idle" <=> kind[q] = "none"
  /\ pc[q] \in {"idle", "read"} => did[q] = {} /\ acked[q] = {}
  /\ pc[q] \in {"read", "write", "orphan", "readBack", "audit"} =>
       pending[q] \subseteq targets[q]
  /\ pc[q] = "write" /\ kind[q] \notin {"bulk", "import"} =>
       pending[q] = targets[q] /\ did[q] = {} /\ acked[q] = {}
  /\ pc[q] \in {"write", "audit"} /\ kind[q] = "import" => did[q] \cap pending[q] = {}
  /\ pc[q] = "readBack" => kind[q] \in {"update", "inline"}
  /\ pc[q] = "commit" => InTransaction(q) /\ pending[q] = {}
  /\ pc[q] = "orphan" => Refuses(q)
  /\ staged[q] # {} => InTransaction(q) /\ pc[q] \in {"write", "commit"}
  /\ staged[q] \subseteq targets[q]
  /\ kind[q] \notin Actions => did[q] \subseteq targets[q]
  /\ pc[q] # "idle" /\ kind[q] \notin Several => \E r \in Rows : targets[q] = {r}

\* A row that was there when the request read it still is, or was removed.
Present(q, r) == table[r] # "absent" \/ Removed(r, q) \/ (Deletes(q) /\ r \in did[q])

Seen(q) ==
  kind[q] \in Reading =>
    /\ pc[q] = "read" => \A r \in targets[q] \ pending[q] : Present(q, r)
    /\ pc[q] \in {"write", "readBack", "commit"} => \A r \in targets[q] : Present(q, r)

\* A batch in a transaction has done nothing until its commit does everything.
Batch(q) ==
  InTransaction(q) =>
    /\ pc[q] \in {"read", "write", "commit"} => did[q] = {}
    /\ pc[q] \in {"write", "commit"} =>
         \A r \in targets[q] \ pending[q] : r \in staged[q] \/ Removed(r, q)
    /\ did[q] # {} => \A r \in targets[q] : r \in did[q] \/ Removed(r, q)

Truthful(q) ==
  pc[q] \in {"refused", "failed"} /\ kind[q] \notin Actions =>
    \/ q \in troubled
    \/ kind[q] = "bulk" /\ ~InTransaction(q)
    \/ ThrowsAfterInsert(q)
    \/ \A r \in did[q] : Removed(r, q)

Acknowledged(q) ==
  kind[q] \notin Actions /\ pc[q] \notin {"refused", "failed"} =>
    \A r \in acked[q] : r \in did[q] \/ r \in staged[q] \/ Removed(r, q)

Trailed(q) ==
  /\ trail[q] \subseteq acked[q]
  /\ kind[q] \notin Actions => \A r \in trail[q] \ did[q] : Removed(r, q)

Announced(q) ==
  q \notin muted =>
    /\ pc[q] = "write" /\ kind[q] = "import" => trail[q] = acked[q]
    /\ pc[q] = "effects" => trail[q] = acked[q]
    /\ pc[q] = "ok" /\ acked[q] # {} =>
         /\ acked[q] = trail[q]
         /\ kind[q] \notin Actions \cup {"bulk"} => q \in told

Local(q) ==
  /\ Progress(q) /\ Seen(q) /\ Batch(q) /\ Truthful(q)
  /\ Acknowledged(q) /\ Trailed(q) /\ Announced(q)

MutationInv == Types /\ \A q \in Requests : Local(q)

-----------------------------------------------------------------------------
(* A step of one request, as the others see it *)

Frame(q) ==
  /\ adapter' = adapter
  /\ \A d \in Requests \ {q} :
       /\ kind'[d] = kind[d] /\ targets'[d] = targets[d] /\ pc'[d] = pc[d]
       /\ pending'[d] = pending[d] /\ staged'[d] = staged[d] /\ acked'[d] = acked[d]
       /\ trail'[d] = trail[d] /\ did'[d] = did[d]
       /\ d \in told' <=> d \in told
       /\ d \in troubled' <=> d \in troubled
       /\ d \in muted' <=> d \in muted
  /\ Deletes(q) => kind'[q] = kind[q] /\ did[q] \subseteq did'[q]
  /\ \A r \in Rows : table'[r] = "absent" /\ table[r] # "absent" =>
       r \in did'[q] /\ kind'[q] \in {"delete", "bulk"}

\* A removal is remembered.
LEMMA RemovedStays ==
  ASSUME NEW q \in Requests, Frame(q), NEW d \in Requests, NEW r \in Rows, Removed(r, d)
  PROVE  Removed(r, d)'
  BY DEF Frame, Removed, Deletes

\* The other requests keep their invariant.
LEMMA OthersKeep ==
  ASSUME MutationInv, NEW q \in Requests, Frame(q), NEW d \in Requests \ {q}
  PROVE  Local(d)'
  <1>1. /\ adapter' = adapter
        /\ kind'[d] = kind[d] /\ targets'[d] = targets[d] /\ pc'[d] = pc[d]
        /\ pending'[d] = pending[d] /\ staged'[d] = staged[d] /\ acked'[d] = acked[d]
        /\ trail'[d] = trail[d] /\ did'[d] = did[d]
        /\ d \in told' <=> d \in told
        /\ d \in troubled' <=> d \in troubled
        /\ d \in muted' <=> d \in muted
    BY DEF Frame
  <1>2. \A r \in Rows : Removed(r, d) => Removed(r, d)'
    BY RemovedStays
  <1>3. \A r \in Rows : Present(d, r) => Present(d, r)'
    <2> SUFFICES ASSUME NEW r \in Rows, Present(d, r) PROVE Present(d, r)'
      OBVIOUS
    <2>1. table[r] # "absent" /\ table'[r] = "absent" => Removed(r, d)'
      BY DEF Frame, Removed
    <2> QED BY <1>1, <1>2, <2>1 DEF Present, Deletes
  <1>4. Local(d) /\ Types
    BY DEF MutationInv
  <1>5. /\ targets[d] \subseteq Rows /\ acked[d] \subseteq Rows
        /\ trail[d] \subseteq Rows /\ did[d] \subseteq Rows
    BY <1>4 DEF Types
  <1>6. /\ InTransaction(d)' = InTransaction(d) /\ Refuses(d)' = Refuses(d)
        /\ ThrowsAfterInsert(d)' = ThrowsAfterInsert(d)
    BY <1>1 DEF InTransaction, Refuses, ThrowsAfterInsert
  <1>7. Progress(d)'
    BY <1>1, <1>4, <1>6 DEF Local, Progress
  <1>8. Seen(d)'
    BY <1>1, <1>3, <1>4, <1>5 DEF Local, Seen
  <1>9. Batch(d)'
    BY <1>1, <1>2, <1>4, <1>5, <1>6 DEF Local, Batch
  <1>10. Truthful(d)'
    BY <1>1, <1>2, <1>4, <1>5, <1>6 DEF Local, Truthful
  <1>11. Acknowledged(d)'
    BY <1>1, <1>2, <1>4, <1>5 DEF Local, Acknowledged
  <1>12. Trailed(d)'
    BY <1>1, <1>2, <1>4, <1>5 DEF Local, Trailed
  <1>13. Announced(d)'
    BY <1>1, <1>4 DEF Local, Announced
  <1> QED
    BY <1>7, <1>8, <1>9, <1>10, <1>11, <1>12, <1>13 DEF Local

LEMMA InitMutation == Init => MutationInv
  <1> SUFFICES ASSUME Init PROVE MutationInv
    OBVIOUS
  <1>1. Types
    BY AdaptersAssumption DEF Init, Types, Places
  <1>2. ASSUME NEW q \in Requests PROVE Local(q)
    <2>1. /\ pc[q] = "idle" /\ kind[q] = "none" /\ pending[q] = {} /\ staged[q] = {}
          /\ acked[q] = {} /\ trail[q] = {} /\ did[q] = {} /\ targets[q] = {}
      BY DEF Init
    <2> QED
      BY <2>1 DEF Local, Progress, Seen, Batch, Truthful, Acknowledged, Trailed, Announced,
                  Reading, Kinds, Actions, InTransaction, Refuses
  <1> QED BY <1>1, <1>2 DEF MutationInv

-----------------------------------------------------------------------------
(* The request itself, one action at a time *)

\* What the actions that leave the rows alone owe the others.
LEMMA RestingFrame ==
  ASSUME NEW q \in Requests, Types,
         UNCHANGED <<adapter, table, kind, targets, did>>,
         \A d \in Requests \ {q} :
           /\ pc'[d] = pc[d] /\ pending'[d] = pending[d] /\ staged'[d] = staged[d]
           /\ acked'[d] = acked[d] /\ trail'[d] = trail[d]
           /\ d \in told' <=> d \in told
           /\ d \in troubled' <=> d \in troubled
           /\ d \in muted' <=> d \in muted
  PROVE  /\ Frame(q)
         /\ \A d \in Requests, r \in Rows : Removed(r, d)' = Removed(r, d)
         /\ \A d \in Requests, r \in Rows : Present(d, r)' = Present(d, r)
         /\ \A d \in Requests : /\ InTransaction(d)' = InTransaction(d)
                              /\ Refuses(d)' = Refuses(d)
                              /\ ThrowsAfterInsert(d)' = ThrowsAfterInsert(d)
  <1>1. \A d \in Requests, r \in Rows : Removed(r, d)' = Removed(r, d)
    BY DEF Removed
  <1>2. \A d \in Requests, r \in Rows : Present(d, r)' = Present(d, r)
    BY <1>1 DEF Present, Deletes
  <1> QED
    BY <1>1, <1>2 DEF Frame, Deletes, InTransaction, Refuses, ThrowsAfterInsert

\* The effect of a fault on the history.
LEMMA FaultTypes ==
  ASSUME Types, NEW q \in Requests, DatabaseFails(q) \/ NoFault
  PROVE  /\ troubled' \subseteq Requests
         /\ \A d \in Requests \ {q} : d \in troubled' <=> d \in troubled
         /\ q \in troubled => q \in troubled'
         /\ DatabaseFails(q) => q \in troubled'
  BY DEF Types, DatabaseFails, NoFault

LEMMA ArriveKeeps ==
  ASSUME MutationInv, NEW q \in Requests, Arrive(q)
  PROVE  Types' /\ Frame(q) /\ Local(q)'
  <1>0. Types /\ Local(q)
    BY DEF MutationInv
  <1>1. /\ UNCHANGED <<adapter, table, staged, acked, did, trail, told, muted, troubled>>
        /\ pc[q] = "idle"
    BY DEF Arrive, effects, NoFault
  <1>2. PICK k \in Kinds, rs \in SUBSET Rows \ {{}} :
          /\ k \notin Several => \E r \in Rows : rs = {r}
          /\ kind' = [kind EXCEPT ![q] = k]
          /\ targets' = [targets EXCEPT ![q] = rs]
          /\ pending' = [pending EXCEPT ![q] = rs]
          /\ pc' = [pc EXCEPT ![q] = IF k \in Reading THEN "read" ELSE "write"]
    BY DEF Arrive, Goto
  <1>3. Types'
    BY <1>0, <1>1, <1>2 DEF Types, Places
  <1>4. kind[q] = "none" /\ did[q] = {} /\ acked[q] = {} /\ trail[q] = {} /\ staged[q] = {}
    BY <1>0, <1>1 DEF Local, Progress, Trailed
  <1>5. Frame(q)
    BY <1>0, <1>1, <1>2, <1>4 DEF Types, Frame, Deletes
  <1>6. /\ kind'[q] = k /\ targets'[q] = rs /\ pending'[q] = rs
        /\ pc'[q] = IF k \in Reading THEN "read" ELSE "write"
        /\ did'[q] = {} /\ acked'[q] = {} /\ trail'[q] = {} /\ staged'[q] = {}
    BY <1>0, <1>1, <1>2, <1>4 DEF Types
  <1>7. k # "none" /\ (k \in {"bulk"} => k \in Reading)
    BY DEF Kinds, Actions, Reading
  <1>8. Progress(q)'
    BY <1>2, <1>6, <1>7 DEF Progress, InTransaction, Refuses
  <1>9. Seen(q)' /\ Batch(q)' /\ Truthful(q)' /\ Acknowledged(q)' /\ Trailed(q)'
          /\ Announced(q)'
    BY <1>6, <1>7
    DEF Seen, Batch, InTransaction, Refuses, Truthful, Acknowledged, Trailed, Announced
  <1> QED BY <1>3, <1>5, <1>8, <1>9 DEF Local

LEMMA RefuseKeeps ==
  ASSUME MutationInv, NEW q \in Requests, Refuse(q)
  PROVE  Types' /\ Frame(q) /\ Local(q)'
  <1>0. Types /\ Local(q)
    BY DEF MutationInv
  <1>1. /\ UNCHANGED <<adapter, table, kind, targets, pending, staged, acked, did, trail,
                       told, muted, troubled>>
        /\ pc' = [pc EXCEPT ![q] = "refused"]
        /\ \/ pc[q] = "read"
           \/ /\ pc[q] = "write" /\ pending[q] = targets[q]
              /\ kind[q] \notin {"delete", "bulk", "bulkAction", "restore"}
    BY DEF Refuse, Goto, NoFault, request, effects
  <1>2. Types' /\ pc'[q] = "refused" /\ \A d \in Requests \ {q} : pc'[d] = pc[d]
    BY <1>0, <1>1 DEF Types, Places, Answers
  <1>3. /\ Frame(q)
        /\ \A r \in Rows : Removed(r, q)' = Removed(r, q)
        /\ InTransaction(q)' = InTransaction(q)
    BY <1>0, <1>1, <1>2, RestingFrame
  <1>4. kind[q] \notin Actions => did[q] = {}
    BY <1>0, <1>1 DEF Local, Progress
  <1>5. staged[q] = {}
    BY <1>0, <1>1 DEF Local, Progress, Batch, InTransaction, Refuses
  <1>6. targets[q] \subseteq Rows /\ trail[q] \subseteq Rows
    BY <1>0 DEF Types
  <1>7. Progress(q)'
    BY <1>0, <1>1, <1>2, <1>3, <1>4, <1>5 DEF Local, Progress
  <1>8. Batch(q)'
    BY <1>0, <1>1, <1>2, <1>3, <1>6 DEF Local, Batch
  <1>9. Trailed(q)'
    BY <1>0, <1>1, <1>2, <1>3, <1>6 DEF Local, Trailed
  <1>10. Seen(q)' /\ Truthful(q)' /\ Acknowledged(q)' /\ Announced(q)'
    BY <1>1, <1>2, <1>4 DEF Seen, Truthful, Acknowledged, Announced
  <1> QED BY <1>2, <1>3, <1>7, <1>8, <1>9, <1>10 DEF Local

LEMMA ReadKeeps ==
  ASSUME MutationInv, NEW q \in Requests, Read(q)
  PROVE  Types' /\ Frame(q) /\ Local(q)'
  <1>0. Types /\ Local(q)
    BY DEF MutationInv
  <1>1. /\ UNCHANGED <<adapter, table, kind, targets, staged, acked, did, trail, told, muted>>
        /\ pc[q] = "read"
        /\ DatabaseFails(q) \/ NoFault
    BY DEF Read, request, effects
  <1>2. /\ troubled' \subseteq Requests
        /\ \A d \in Requests \ {q} : d \in troubled' <=> d \in troubled
        /\ DatabaseFails(q) => q \in troubled'
    BY <1>0, <1>1, FaultTypes
  <1>3. /\ did[q] = {} /\ acked[q] = {} /\ trail[q] = {} /\ staged[q] = {}
        /\ kind[q] # "none" /\ pending[q] \subseteq targets[q]
    BY <1>0, <1>1 DEF Local, Progress, Trailed
  <1>4. \/ pc' = [pc EXCEPT ![q] = "refused"] /\ pending' = pending
        \/ /\ pc' = [pc EXCEPT ![q] = "failed"] /\ pending' = pending
        \/ \E r \in pending[q] :
             /\ table[r] # "absent" /\ pending[q] = {r}
             /\ pc' = [pc EXCEPT ![q] = "write"]
             /\ pending' = [pending EXCEPT ![q] = targets[q]]
        \/ \E r \in pending[q] :
             /\ table[r] # "absent" /\ pc' = pc
             /\ pending' = [pending EXCEPT ![q] = pending[q] \ {r}]
    BY DEF Read, Found, Goto
  <1>5. Types'
    BY <1>0, <1>1, <1>2, <1>4 DEF Types, Places, Answers
  <1>6. \A d \in Requests \ {q} : pc'[d] = pc[d] /\ pending'[d] = pending[d]
    BY <1>0, <1>4 DEF Types
  <1>7. /\ Frame(q)
        /\ \A r \in Rows : Present(q, r)' = Present(q, r)
        /\ InTransaction(q)' = InTransaction(q)
    BY <1>0, <1>1, <1>2, <1>6, RestingFrame
  <1>8. targets[q] \subseteq Rows /\ pending[q] \subseteq Rows
    BY <1>0 DEF Types
  <1>9. \/ pc'[q] \in {"refused", "failed"} /\ pending'[q] = pending[q]
        \/ /\ pc'[q] = "write" /\ pending'[q] = targets[q]
           /\ \A r \in targets[q] : Present(q, r) \/ kind[q] \notin Reading
        \/ /\ pc'[q] = "read" /\ pending'[q] \subseteq pending[q]
           /\ \A r \in targets[q] \ pending'[q] : Present(q, r) \/ kind[q] \notin Reading
    BY <1>0, <1>1, <1>4, <1>8 DEF Types, Local, Seen, Present
  <1>10. Progress(q)'
    BY <1>0, <1>1, <1>3, <1>7, <1>9 DEF Local, Progress
  <1>11. Seen(q)'
    BY <1>1, <1>7, <1>8, <1>9 DEF Seen
  <1>12. Batch(q)'
    BY <1>1, <1>3, <1>7, <1>9 DEF Batch
  <1>13. Truthful(q)' /\ Acknowledged(q)' /\ Trailed(q)' /\ Announced(q)'
    BY <1>1, <1>3, <1>9 DEF Truthful, Acknowledged, Trailed, Announced
  <1> QED BY <1>5, <1>7, <1>10, <1>11, <1>12, <1>13 DEF Local

LEMMA LockVictimKeeps ==
  ASSUME MutationInv, NEW q \in Requests, NEW r \in Rows, LockVictim(q, r)
  PROVE  Types' /\ Frame(q) /\ Local(q)'
  <1>0. Types /\ Local(q)
    BY DEF MutationInv
  <1>1. /\ UNCHANGED <<adapter, table, kind, targets, pending, acked, did, trail,
                       told, muted, troubled>>
        /\ pc[q] = "write" /\ staged[q] # {}
        /\ pc' = [pc EXCEPT ![q] = "failed"]
        /\ staged' = [staged EXCEPT ![q] = {}]
    BY DEF LockVictim, Goto, Rollback, NoFault, request, effects
  <1>2. /\ Types' /\ pc'[q] = "failed" /\ staged'[q] = {}
        /\ \A d \in Requests \ {q} : pc'[d] = pc[d] /\ staged'[d] = staged[d]
    BY <1>0, <1>1 DEF Types, Places, Answers
  <1>3. /\ Frame(q)
        /\ \A x \in Rows : Removed(x, q)' = Removed(x, q)
        /\ InTransaction(q)' = InTransaction(q)
    BY <1>0, <1>1, <1>2, RestingFrame
  <1>4. InTransaction(q) /\ did[q] = {}
    BY <1>0, <1>1 DEF Local, Progress, Batch
  <1>5. trail[q] \subseteq Rows
    BY <1>0 DEF Types
  <1>6. Progress(q)'
    BY <1>0, <1>1, <1>2, <1>3, <1>4 DEF Local, Progress
  <1>7. Trailed(q)'
    BY <1>0, <1>1, <1>2, <1>3, <1>5 DEF Local, Trailed
  <1>8. Seen(q)' /\ Batch(q)' /\ Truthful(q)' /\ Acknowledged(q)' /\ Announced(q)'
    BY <1>1, <1>2, <1>4 DEF Seen, Batch, Truthful, Acknowledged, Announced
  <1> QED BY <1>2, <1>3, <1>6, <1>7, <1>8 DEF Local

LEMMA ReadBackKeeps ==
  ASSUME MutationInv, NEW q \in Requests, ReadBack(q)
  PROVE  Types' /\ Frame(q) /\ Local(q)'
  <1>0. Types /\ Local(q)
    BY DEF MutationInv
  <1>1. /\ UNCHANGED <<adapter, table, kind, targets, pending, staged, acked, did, trail,
                       told, muted>>
        /\ pc[q] = "readBack" /\ (DatabaseFails(q) \/ NoFault)
        /\ \/ /\ pc' = [pc EXCEPT ![q] = "refused"]
              /\ kind[q] = "update" /\ \E r \in targets[q] : table[r] = "absent"
           \/ pc' = [pc EXCEPT ![q] = "audit"]
           \/ pc' = [pc EXCEPT ![q] = "failed"] /\ DatabaseFails(q)
    BY DEF ReadBack, Goto, request, effects
  <1>2. /\ troubled' \subseteq Requests
        /\ \A d \in Requests \ {q} : d \in troubled' <=> d \in troubled
        /\ DatabaseFails(q) => q \in troubled'
    BY <1>0, <1>1, FaultTypes
  <1>3. Types' /\ \A d \in Requests \ {q} : pc'[d] = pc[d]
    BY <1>0, <1>1, <1>2 DEF Types, Places, Answers
  <1>4. /\ Frame(q)
        /\ \A r \in Rows : Removed(r, q)' = Removed(r, q)
        /\ InTransaction(q)' = InTransaction(q)
    BY <1>0, <1>1, <1>2, <1>3, RestingFrame
  <1>5. kind[q] \in {"update", "inline"} /\ staged[q] = {}
    BY <1>0, <1>1 DEF Local, Progress
  <1>6. PICK t \in Rows : targets[q] = {t}
    BY <1>0, <1>1, <1>5 DEF Local, Progress, Several
  <1>7. did[q] \subseteq {t} /\ (table[t] # "absent" \/ Removed(t, q))
    BY <1>0, <1>1, <1>5, <1>6
    DEF Local, Progress, Seen, Present, Deletes, Reading, Kinds, Actions
  <1>8. \/ pc'[q] = "refused" /\ Removed(t, q)
        \/ pc'[q] = "audit"
        \/ pc'[q] = "failed" /\ q \in troubled'
    BY <1>0, <1>1, <1>2, <1>6, <1>7 DEF Types
  <1>9. trail[q] \subseteq Rows /\ acked[q] \subseteq Rows
    BY <1>0 DEF Types
  <1>10. pending[q] \subseteq targets[q]
    BY <1>0, <1>1 DEF Local, Progress
  <1>11. Progress(q)'
    BY <1>0, <1>1, <1>4, <1>5, <1>8, <1>10 DEF Local, Progress
  <1>12. Truthful(q)'
    BY <1>1, <1>4, <1>7, <1>8 DEF Truthful
  <1>13. Acknowledged(q)' /\ Trailed(q)'
    BY <1>0, <1>1, <1>4, <1>8, <1>9 DEF Local, Acknowledged, Trailed
  <1>14. Seen(q)' /\ Batch(q)' /\ Announced(q)'
    BY <1>1, <1>5, <1>8 DEF Seen, Batch, InTransaction, Refuses, Announced
  <1> QED BY <1>3, <1>4, <1>11, <1>12, <1>13, <1>14 DEF Local

LEMMA RefuseBatchKeeps ==
  ASSUME MutationInv, NEW q \in Requests, RefuseBatch(q)
  PROVE  Types' /\ Frame(q) /\ Local(q)'
  <1>0. Types /\ Local(q)
    BY DEF MutationInv
  <1>1. /\ UNCHANGED <<adapter, table, kind, targets, pending, staged, acked, did, trail,
                       told, muted>>
        /\ pc[q] = "write" /\ Refuses(q) /\ (DatabaseFails(q) \/ NoFault)
        /\ \/ pc' = [pc EXCEPT ![q] = "orphan"]
           \/ pc' = [pc EXCEPT ![q] = "failed"] /\ DatabaseFails(q)
    BY DEF RefuseBatch, Goto, request, effects
  <1>2. /\ troubled' \subseteq Requests
        /\ \A d \in Requests \ {q} : d \in troubled' <=> d \in troubled
        /\ DatabaseFails(q) => q \in troubled'
    BY <1>0, <1>1, FaultTypes
  <1>3. /\ Types' /\ pc'[q] \in {"orphan", "failed"}
        /\ \A d \in Requests \ {q} : pc'[d] = pc[d]
    BY <1>0, <1>1, <1>2 DEF Types, Places, Answers
  <1>4. /\ Frame(q)
        /\ \A r \in Rows : Removed(r, q)' = Removed(r, q)
        /\ InTransaction(q)' = InTransaction(q) /\ Refuses(q)' = Refuses(q)
    BY <1>0, <1>1, <1>2, <1>3, RestingFrame
  <1>5. kind[q] = "bulk" /\ ~InTransaction(q)
    BY <1>1 DEF InTransaction, Refuses
  <1>6. staged[q] = {} /\ acked[q] \subseteq Rows /\ trail[q] \subseteq Rows
    BY <1>0, <1>5 DEF Types, Local, Progress
  <1>7. Progress(q)'
    BY <1>0, <1>1, <1>3, <1>4, <1>5, <1>6 DEF Local, Progress
  <1>8. Truthful(q)' /\ Batch(q)'
    BY <1>1, <1>4, <1>5 DEF Truthful, Batch
  <1>9. Acknowledged(q)' /\ Trailed(q)'
    BY <1>0, <1>1, <1>3, <1>4, <1>6 DEF Local, Acknowledged, Trailed
  <1>10. Seen(q)' /\ Announced(q)'
    BY <1>3 DEF Seen, Announced
  <1> QED BY <1>3, <1>4, <1>7, <1>8, <1>9, <1>10 DEF Local

LEMMA CommitKeeps ==
  ASSUME MutationInv, NEW q \in Requests, Commit(q)
  PROVE  Types' /\ Frame(q) /\ Local(q)'
  <1>0. Types /\ Local(q)
    BY DEF MutationInv
  <1>1. /\ UNCHANGED <<adapter, kind, targets, pending, acked, trail, told, muted>>
        /\ pc[q] = "commit" /\ (DatabaseFails(q) \/ NoFault)
        /\ staged' = [staged EXCEPT ![q] = {}]
    BY DEF Commit, Rollback, request, effects
  <1>2. /\ \/ pc' = [pc EXCEPT ![q] = "audit"]
           \/ pc' = [pc EXCEPT ![q] = "failed"] /\ DatabaseFails(q)
        /\ \/ /\ table' = [r \in Rows |-> IF r \in staged[q] THEN Written(q, r) ELSE table[r]]
              /\ did' = [did EXCEPT ![q] = did[q] \cup staged[q]]
           \/ /\ UNCHANGED <<table, did>>
              /\ pc' = [pc EXCEPT ![q] = "failed"]
    BY DEF Commit, Goto
  <1>3. /\ troubled' \subseteq Requests
        /\ \A d \in Requests \ {q} : d \in troubled' <=> d \in troubled
        /\ DatabaseFails(q) => q \in troubled'
    BY <1>0, <1>1, FaultTypes
  <1>4. /\ InTransaction(q) /\ kind[q] = "bulk" /\ pending[q] = {} /\ did[q] = {}
        /\ staged[q] \subseteq targets[q]
    BY <1>0, <1>1 DEF Local, Progress, Batch, InTransaction, Refuses
  <1>5. \A r \in Rows : Written(q, r) \in {"absent", "stamped"}
    BY <1>4 DEF Written
  <1>6. Types'
    <2>1. table' \in [Rows -> {"absent", "live", "stamped"}]
      BY <1>0, <1>2, <1>5 DEF Types
    <2>2. did' \in [Requests -> SUBSET Rows] /\ staged' \in [Requests -> SUBSET Rows]
      BY <1>0, <1>1, <1>2 DEF Types
    <2>3. pc' \in [Requests -> Places]
      BY <1>0, <1>2 DEF Types, Places, Answers
    <2> QED BY <1>0, <1>1, <1>3, <2>1, <2>2, <2>3 DEF Types
  <1>7. /\ staged'[q] = {}
        /\ \/ pc'[q] = "audit" /\ did'[q] = staged[q]
           \/ /\ pc'[q] = "failed" /\ did'[q] \in {{}, staged[q]}
              /\ q \in troubled'
    BY <1>0, <1>1, <1>2, <1>3, <1>4 DEF Types
  <1>8. Frame(q)
    <2>1. \A d \in Requests \ {q} : pc'[d] = pc[d] /\ did'[d] = did[d] /\ staged'[d] = staged[d]
      BY <1>0, <1>1, <1>2 DEF Types
    <2>2. \A r \in Rows : table'[r] = "absent" /\ table[r] # "absent" => r \in did'[q]
      BY <1>0, <1>2, <1>4 DEF Types
    <2> QED BY <1>1, <1>3, <1>4, <2>1, <2>2 DEF Frame
  <1>9. \A r \in Rows : Removed(r, q) => Removed(r, q)'
    BY <1>8, RemovedStays
  <1>10. InTransaction(q)' /\ kind'[q] = "bulk"
    BY <1>1, <1>4 DEF InTransaction, Refuses
  <1>11. /\ targets[q] \subseteq Rows /\ acked[q] \subseteq Rows /\ trail[q] \subseteq Rows
    BY <1>0 DEF Types
  <1>12. Progress(q)'
    BY <1>0, <1>1, <1>4, <1>7, <1>10 DEF Local, Progress, Actions, Several
  <1>13. Batch(q)'
    BY <1>0, <1>1, <1>4, <1>7, <1>9, <1>11 DEF Local, Batch
  <1>14. Acknowledged(q)'
    BY <1>0, <1>1, <1>4, <1>7, <1>9, <1>11 DEF Local, Acknowledged
  <1>15. Trailed(q)'
    BY <1>0, <1>1, <1>4, <1>9, <1>11 DEF Local, Trailed, Actions
  <1>16. Seen(q)' /\ Truthful(q)' /\ Announced(q)'
    BY <1>7 DEF Seen, Truthful, Announced
  <1> QED BY <1>6, <1>8, <1>12, <1>13, <1>14, <1>15, <1>16 DEF Local

LEMMA RunKeeps ==
  ASSUME MutationInv, NEW q \in Requests, Run(q)
  PROVE  Types' /\ Frame(q) /\ Local(q)'
  <1>0. Types /\ Local(q)
    BY DEF MutationInv
  <1>1. /\ UNCHANGED <<adapter, table, kind, targets, pending, staged, trail,
                       told, muted, troubled>>
        /\ pc[q] = "write" /\ kind[q] \in Actions
        /\ acked' = [acked EXCEPT ![q] = Named(q)]
    BY DEF Run, NoFault, request, effects
  <1>2. PICK rs \in SUBSET Rows : did' = [did EXCEPT ![q] = rs]
    BY <1>0 DEF Run, Types
  <1>3. PICK place \in {"audit", "refused", "failed"} : pc' = [pc EXCEPT ![q] = place]
    BY DEF Run, Goto
  <1>4. ~Deletes(q) /\ kind[q] \notin {"bulk", "import", "update", "inline", "none"}
    BY <1>1 DEF Deletes, Actions
  <1>5. /\ pending[q] = targets[q] /\ acked[q] = {} /\ trail[q] = {} /\ staged[q] = {}
    BY <1>0, <1>1, <1>4 DEF Local, Progress, Trailed, InTransaction, Refuses
  <1>6. Types'
    BY <1>0, <1>1, <1>2, <1>3 DEF Types, Places, Answers, Named
  <1>7. Frame(q)
    BY <1>0, <1>1, <1>2, <1>3, <1>4 DEF Types, Frame
  <1>8. pc'[q] \in {"audit", "refused", "failed"} /\ trail'[q] = {}
    BY <1>0, <1>1, <1>3, <1>5 DEF Types
  <1>9. Progress(q)'
    BY <1>0, <1>1, <1>4, <1>5, <1>8 DEF Local, Progress
  <1>10. /\ Seen(q)' /\ Batch(q)' /\ Truthful(q)' /\ Acknowledged(q)' /\ Trailed(q)'
         /\ Announced(q)'
    BY <1>1, <1>4, <1>8
    DEF Seen, Batch, InTransaction, Refuses, Truthful, Acknowledged, Trailed, Announced
  <1> QED BY <1>6, <1>7, <1>9, <1>10 DEF Local

LEMMA AuditKeeps ==
  ASSUME MutationInv, NEW q \in Requests, Audit(q)
  PROVE  Types' /\ Frame(q) /\ Local(q)'
  <1>0. Types /\ Local(q)
    BY DEF MutationInv
  <1>1. /\ UNCHANGED <<adapter, table, kind, targets, pending, staged, acked, did, told, troubled>>
        /\ pc[q] = "audit"
        /\ pc' = [pc EXCEPT ![q] = IF kind[q] = "import" /\ pending[q] # {}
                                   THEN "write" ELSE "effects"]
        /\ \/ trail' = [trail EXCEPT ![q] = trail[q] \cup acked[q]] /\ muted' = muted
           \/ trail' = trail /\ muted' = muted \cup {q}
    BY DEF Audit, EffectFails, NoFault, Goto, request
  <1>2. Types'
    BY <1>0, <1>1 DEF Types, Places
  <1>3. /\ \A d \in Requests \ {q} : pc'[d] = pc[d] /\ trail'[d] = trail[d]
        /\ pc'[q] = IF kind[q] = "import" /\ pending[q] # {} THEN "write" ELSE "effects"
    BY <1>0, <1>1 DEF Types
  <1>4. /\ Frame(q)
        /\ \A r \in Rows : Removed(r, q)' = Removed(r, q)
        /\ InTransaction(q)' = InTransaction(q)
    BY <1>0, <1>1, <1>3, RestingFrame
  <1>5. /\ staged[q] = {} /\ trail[q] \subseteq acked[q]
        /\ acked[q] \subseteq Rows /\ targets[q] \subseteq Rows
    BY <1>0, <1>1 DEF Types, Local, Progress, Trailed
  <1>6. \/ trail'[q] = acked[q]
        \/ trail'[q] = trail[q] /\ q \in muted'
    <2>1. trail[q] \cup acked[q] = acked[q]
      BY <1>5
    <2>2. CASE trail' = [trail EXCEPT ![q] = trail[q] \cup acked[q]]
      <3>1. trail'[q] = trail[q] \cup acked[q]
        BY <1>0, <2>2 DEF Types
      <3>2. trail'[q] = acked[q]
        BY <2>1, <3>1
      <3> QED BY <3>2
    <2>3. CASE trail' = trail /\ muted' = muted \cup {q}
      BY <2>3
    <2> QED BY <1>1, <2>2, <2>3
  <1>7. Progress(q)'
    BY <1>0, <1>1, <1>3, <1>4, <1>5 DEF Local, Progress, InTransaction, Refuses
  <1>8. Batch(q)'
    BY <1>0, <1>1, <1>3, <1>4, <1>5 DEF Local, Batch, InTransaction, Refuses
  <1>9. Acknowledged(q)'
    BY <1>0, <1>1, <1>3, <1>4, <1>5 DEF Local, Acknowledged
  <1>10. Trailed(q)'
    <2>1. kind[q] \notin Actions => \A r \in acked[q] \ did[q] : Removed(r, q)
      BY <1>0, <1>1, <1>5 DEF Local, Acknowledged
    <2> QED BY <1>0, <1>1, <1>4, <1>5, <1>6, <2>1 DEF Local, Trailed
  <1>11. Seen(q)' /\ Truthful(q)' /\ Announced(q)'
    BY <1>1, <1>3, <1>6 DEF Seen, Reading, Truthful, Announced
  <1> QED BY <1>2, <1>4, <1>7, <1>8, <1>9, <1>10, <1>11 DEF Local

LEMMA EffectsKeeps ==
  ASSUME MutationInv, NEW q \in Requests, Effects(q)
  PROVE  Types' /\ Frame(q) /\ Local(q)'
  <1>0. Types /\ Local(q)
    BY DEF MutationInv
  <1>1. /\ UNCHANGED <<adapter, table, kind, targets, pending, staged, acked, did, trail, troubled>>
        /\ pc[q] = "effects"
        /\ pc' = [pc EXCEPT ![q] = "ok"]
        /\ \/ muted' = muted /\ \E p \in Publishes(q) : told' = told \cup (IF p THEN {q} ELSE {})
           \/ told' = told /\ muted' = muted \cup {q}
    BY DEF Effects, EffectFails, NoFault, Goto, request
  <1>2. Types'
    BY <1>0, <1>1 DEF Types, Places, Answers
  <1>3. /\ \A d \in Requests \ {q} : pc'[d] = pc[d] /\ (d \in told' <=> d \in told)
        /\ pc'[q] = "ok"
    BY <1>0, <1>1 DEF Types
  <1>4. /\ Frame(q)
        /\ \A r \in Rows : Removed(r, q)' = Removed(r, q)
        /\ InTransaction(q)' = InTransaction(q)
    BY <1>0, <1>1, <1>3, RestingFrame
  <1>5. q \notin muted' => trail[q] = acked[q] /\ (kind[q] \notin Actions \cup {"bulk"} => q \in told')
    BY <1>0, <1>1 DEF Local, Announced, Publishes
  <1>6. targets[q] \subseteq Rows /\ acked[q] \subseteq Rows /\ trail[q] \subseteq Rows
    BY <1>0 DEF Types
  <1>7. Progress(q)'
    BY <1>0, <1>1, <1>3, <1>4 DEF Local, Progress
  <1>8. Batch(q)' /\ Acknowledged(q)' /\ Trailed(q)'
    BY <1>0, <1>1, <1>3, <1>4, <1>6 DEF Local, Batch, Acknowledged, Trailed
  <1>9. Seen(q)' /\ Truthful(q)' /\ Announced(q)'
    BY <1>1, <1>3, <1>5 DEF Seen, Truthful, Announced
  <1> QED BY <1>2, <1>4, <1>7, <1>8, <1>9 DEF Local

-----------------------------------------------------------------------------
(* The write of a row *)

LEMMA TakeEffectFacts ==
  ASSUME Types, NEW q \in Requests, NEW r \in Rows, kind[q] \in Kinds \ Actions,
         TakeEffect(q, r)
  PROVE  /\ table' \in [Rows -> {"absent", "live", "stamped"}]
         /\ did' \in [Requests -> SUBSET Rows] /\ staged' \in [Requests -> SUBSET Rows]
         /\ \A d \in Requests \ {q} : did'[d] = did[d] /\ staged'[d] = staged[d]
         /\ \A x \in Rows : table'[x] = "absent" /\ table[x] # "absent" =>
              x = r /\ r \in did'[q] /\ Deletes(q)
         /\ InTransaction(q) => did' = did
         /\ ~InTransaction(q) => staged' = staged
         /\ did[q] \subseteq did'[q] /\ did'[q] \subseteq did[q] \cup {r}
         /\ staged[q] \subseteq staged'[q] /\ staged'[q] \subseteq staged[q] \cup {r}
         /\ Matches(q, r) => r \in did'[q] \/ r \in staged'[q]
         /\ ~Matches(q, r) => did' = did
  <1>1. Written(q, r) \in {"absent", "live", "stamped"}
    BY DEF Types, Written, Kinds, Actions
  <1>2. Written(q, r) = "absent" => table[r] = "absent" \/ Deletes(q)
    BY DEF Written, Kinds, Actions, Deletes
  <1>3. CASE ~Matches(q, r)
    BY <1>3 DEF TakeEffect, Types
  <1>4. CASE Matches(q, r) /\ InTransaction(q)
    BY <1>4 DEF TakeEffect, Types
  <1>5. CASE Matches(q, r) /\ ~InTransaction(q)
    <2>1. /\ table' = [table EXCEPT ![r] = Written(q, r)]
          /\ did' = [did EXCEPT ![q] = did[q] \cup {r}]
          /\ staged' = staged
      BY <1>5 DEF TakeEffect
    <2>2. table' \in [Rows -> {"absent", "live", "stamped"}]
      BY <1>1, <2>1 DEF Types
    <2>3. did' \in [Requests -> SUBSET Rows] /\ did'[q] = did[q] \cup {r}
      BY <2>1 DEF Types
    <2>4. \A x \in Rows : table'[x] = "absent" /\ table[x] # "absent" => x = r /\ Deletes(q)
      BY <1>2, <2>1 DEF Types
    <2> QED BY <1>5, <2>1, <2>2, <2>3, <2>4 DEF Types
  <1> QED BY <1>3, <1>4, <1>5

\* A write that returned, with no fault.
LEMMA WriteReturns ==
  ASSUME MutationInv, NEW q \in Requests, NEW r \in Rows,
         pc[q] = "write", kind[q] \notin Actions, r \in pending[q],
         NoFault, ~Throws(q, r), TakeEffect(q, r), Returned(q, r),
         UNCHANGED <<adapter, kind, targets, trail, told, muted>>
  PROVE  Types' /\ Frame(q) /\ Local(q)'
  <1>0. Types /\ Local(q) /\ troubled' = troubled
    BY DEF MutationInv, NoFault
  <1>1. kind[q] \in Kinds \ Actions
    BY <1>0 DEF Types, Local, Progress
  <1>2. /\ table' \in [Rows -> {"absent", "live", "stamped"}]
        /\ did' \in [Requests -> SUBSET Rows] /\ staged' \in [Requests -> SUBSET Rows]
        /\ \A d \in Requests \ {q} : did'[d] = did[d] /\ staged'[d] = staged[d]
        /\ \A x \in Rows : table'[x] = "absent" /\ table[x] # "absent" =>
             x = r /\ r \in did'[q] /\ Deletes(q)
        /\ InTransaction(q) => did' = did
        /\ ~InTransaction(q) => staged' = staged
        /\ did[q] \subseteq did'[q] /\ did'[q] \subseteq did[q] \cup {r}
        /\ staged[q] \subseteq staged'[q] /\ staged'[q] \subseteq staged[q] \cup {r}
        /\ Matches(q, r) => r \in did'[q] \/ r \in staged'[q]
        /\ ~Matches(q, r) => did' = did
    BY <1>0, <1>1, TakeEffectFacts
  <1>3. PICK place \in {"readBack", "audit", "refused", "write", "commit"} :
          /\ pc' = [pc EXCEPT ![q] = place]
          /\ place = "readBack" => kind[q] \in {"update", "inline"}
          /\ place = "refused" => kind[q] = "update" /\ ~Matches(q, r)
          /\ place \in {"write", "commit"} => kind[q] = "bulk"
          /\ place = "commit" => InTransaction(q) /\ pending[q] = {r}
          /\ kind[q] = "bulk" => place \in {"write", "commit", "audit"}
          /\ InTransaction(q) => place # "audit"
    BY DEF Returned, Goto, InTransaction
  <1>4. /\ acked' = [acked EXCEPT ![q] = acked[q] \cup {r}]
        /\ pending' = [pending EXCEPT ![q] = pending[q] \ {r}]
    BY DEF Returned
  <1>5. Types'
    BY <1>0, <1>2, <1>3, <1>4 DEF Types, Places, Answers
  <1>6. /\ pc'[q] = place /\ acked'[q] = acked[q] \cup {r} /\ pending'[q] = pending[q] \ {r}
        /\ \A d \in Requests \ {q} :
             pc'[d] = pc[d] /\ acked'[d] = acked[d] /\ pending'[d] = pending[d]
    BY <1>0, <1>3, <1>4 DEF Types
  <1>7. Frame(q)
    BY <1>0, <1>2, <1>6 DEF Frame, Deletes
  <1>8. \A x \in Rows : Removed(x, q) => Removed(x, q)'
    BY <1>7, RemovedStays
  <1>9. \A x \in Rows : Present(q, x) => Present(q, x)'
    BY <1>2, <1>8 DEF Present, Deletes
  <1>10. InTransaction(q)' = InTransaction(q) /\ ThrowsAfterInsert(q)' = ThrowsAfterInsert(q)
    BY DEF InTransaction, Refuses, ThrowsAfterInsert
  <1>11. /\ targets[q] \subseteq Rows /\ acked[q] \subseteq Rows /\ trail[q] \subseteq Rows
         /\ did[q] \subseteq Rows /\ r \in targets[q] /\ pending[q] \subseteq targets[q]
    BY <1>0 DEF Types, Local, Progress
  \* A write that matched no row and said nothing missed a row that was read.
  <1>12. ~Matches(q, r) => Removed(r, q) \/ (Deletes(q) /\ r \in did[q])
    <2>1. ASSUME ~Matches(q, r) PROVE kind[q] \in Reading /\ table[r] = "absent"
      BY <1>0, <1>1, <2>1 DEF Throws, Matches, Reading, Actions
    <2> QED BY <1>0, <1>11, <2>1 DEF Local, Seen, Present
  <1>13. Progress(q)'
    <2>1. /\ pc'[q] \in {"read", "write", "readBack", "audit"} => pending'[q] \subseteq targets'[q]
          /\ staged'[q] \subseteq targets'[q] /\ did'[q] \subseteq targets'[q]
      BY <1>0, <1>2, <1>6, <1>11 DEF Local, Progress
    <2>2. pc'[q] \in {"write", "audit"} /\ kind'[q] = "import" => did'[q] \cap pending'[q] = {}
      BY <1>0, <1>2, <1>6 DEF Local, Progress
    <2>3. staged'[q] # {} => InTransaction(q) /\ pc'[q] \in {"write", "commit"}
      BY <1>0, <1>2, <1>3, <1>6 DEF Local, Progress, InTransaction, Refuses
    <2>4. pc'[q] = "commit" => InTransaction(q)' /\ pending'[q] = {}
      BY <1>3, <1>6, <1>10 DEF InTransaction, Refuses
    <2>5. pc'[q] # "idle" /\ kind'[q] \notin Several => \E x \in Rows : targets'[q] = {x}
      BY <1>0 DEF Local, Progress
    <2> QED
      BY <1>1, <1>3, <1>6, <1>10, <2>1, <2>2, <2>3, <2>4, <2>5 DEF Progress, Kinds, Actions
  <1>14. Seen(q)'
    BY <1>0, <1>6, <1>9, <1>11, <1>3 DEF Local, Seen
  <1>15. Batch(q)'
    <2> SUFFICES ASSUME InTransaction(q)
                 PROVE  /\ did'[q] = {}
                        /\ pc'[q] \in {"write", "commit"} =>
                             \A x \in targets'[q] \ pending'[q] :
                               x \in staged'[q] \/ Removed(x, q)'
      BY <1>10 DEF Batch
    <2>1. did[q] = {} /\ did'[q] = {}
      BY <1>0, <1>2 DEF Local, Batch
    <2>2. \A x \in targets[q] \ pending[q] : x \in staged[q] \/ Removed(x, q)
      BY <1>0 DEF Local, Batch
    <2>3. r \in staged'[q] \/ Removed(r, q)'
      BY <1>2, <1>8, <1>12, <2>1
    <2> QED BY <1>2, <1>6, <1>8, <1>11, <2>1, <2>2, <2>3
  <1>16. Truthful(q)'
    BY <1>0, <1>2, <1>3, <1>6 DEF Local, Progress, Truthful
  <1>17. Acknowledged(q)'
    <2>1. \A x \in acked[q] : x \in did[q] \/ x \in staged[q] \/ Removed(x, q)
      BY <1>0 DEF Local, Acknowledged
    <2>2. r \in did'[q] \/ r \in staged'[q] \/ Removed(r, q)'
      BY <1>2, <1>8, <1>12
    <2> QED BY <1>2, <1>6, <1>8, <1>11, <2>1, <2>2 DEF Acknowledged
  <1>18. Trailed(q)'
    BY <1>0, <1>2, <1>6, <1>8, <1>11 DEF Local, Trailed
  <1>19. Announced(q)'
    BY <1>3, <1>6 DEF Announced
  <1> QED BY <1>5, <1>7, <1>13, <1>14, <1>15, <1>16, <1>17, <1>18, <1>19 DEF Local

\* A write that threw: with effect (moved) where the fault or MySQL's insert came
\* after it, without where the database refused it.
LEMMA WriteThrows ==
  ASSUME MutationInv, NEW q \in Requests, NEW r \in Rows,
         pc[q] = "write", kind[q] \notin Actions, r \in pending[q],
         DatabaseFails(q) \/ NoFault, Threw(q, r),
         \/ Rollback(q) /\ UNCHANGED <<table, did>>
         \/ TakeEffect(q, r) /\ ~InTransaction(q),
         \/ DatabaseFails(q)
         \/ ThrowsAfterInsert(q)
         \/ Rollback(q) /\ UNCHANGED <<table, did>>,
         UNCHANGED <<adapter, kind, targets, trail, told, muted>>
  PROVE  Types' /\ Frame(q) /\ Local(q)'
  <1>0. Types /\ Local(q)
    BY DEF MutationInv
  <1>1. kind[q] \in Kinds \ Actions
    BY <1>0 DEF Types, Local, Progress
  <1>2. /\ table' \in [Rows -> {"absent", "live", "stamped"}]
        /\ did' \in [Requests -> SUBSET Rows] /\ staged' \in [Requests -> SUBSET Rows]
        /\ \A d \in Requests \ {q} : did'[d] = did[d] /\ staged'[d] = staged[d]
        /\ \A x \in Rows : table'[x] = "absent" /\ table[x] # "absent" =>
             x = r /\ r \in did'[q] /\ Deletes(q)
        /\ did[q] \subseteq did'[q] /\ did'[q] \subseteq did[q] \cup {r}
        /\ staged'[q] = {}
        /\ InTransaction(q) => did' = did
    <2>1. CASE Rollback(q) /\ UNCHANGED <<table, did>>
      BY <1>0, <2>1 DEF Rollback, Types
    <2>2. CASE TakeEffect(q, r) /\ ~InTransaction(q)
      <3>1. staged[q] = {}
        BY <1>0, <2>2 DEF Local, Progress
      <3> QED BY <1>0, <1>1, <2>2, <3>1, TakeEffectFacts
    <2> QED BY <2>1, <2>2
  <1>3. /\ troubled' \subseteq Requests
        /\ \A d \in Requests \ {q} : d \in troubled' <=> d \in troubled
        /\ DatabaseFails(q) => q \in troubled'
    BY <1>0, FaultTypes
  <1>4. /\ pending' = [pending EXCEPT ![q] = pending[q] \ {r}] /\ acked' = acked
        /\ pc' = [pc EXCEPT ![q] = IF kind[q] # "import" THEN "failed"
                                   ELSE IF pending[q] # {r} THEN "write"
                                   ELSE IF acked[q] # {} THEN "effects" ELSE "ok"]
    BY DEF Threw, Goto
  <1>5. Types'
    BY <1>0, <1>2, <1>3, <1>4 DEF Types, Places, Answers
  <1>6. /\ pending'[q] = pending[q] \ {r}
        /\ pc'[q] = IF kind[q] # "import" THEN "failed"
                    ELSE IF pending[q] # {r} THEN "write"
                    ELSE IF acked[q] # {} THEN "effects" ELSE "ok"
        /\ \A d \in Requests \ {q} : pc'[d] = pc[d] /\ pending'[d] = pending[d]
    BY <1>0, <1>4 DEF Types
  <1>7. Frame(q)
    BY <1>0, <1>2, <1>3, <1>4, <1>6 DEF Frame, Deletes
  <1>8. \A x \in Rows : Removed(x, q) => Removed(x, q)'
    BY <1>7, RemovedStays
  <1>9. InTransaction(q)' = InTransaction(q) /\ ThrowsAfterInsert(q)' = ThrowsAfterInsert(q)
    BY DEF InTransaction, Refuses, ThrowsAfterInsert
  <1>10. /\ acked[q] \subseteq Rows /\ trail[q] \subseteq Rows /\ r \in targets[q]
         /\ pending[q] \subseteq targets[q] /\ did[q] \subseteq targets[q]
    BY <1>0 DEF Types, Local, Progress
  <1>11. kind[q] = "import" => did[q] \cap pending[q] = {} /\ staged[q] = {}
    BY <1>0 DEF Local, Progress, InTransaction, Refuses
  <1>12. Progress(q)'
    <2>1. kind[q] # "none" /\ pc'[q] \in {"failed", "write", "effects", "ok"}
      BY <1>1, <1>6 DEF Kinds, Actions
    <2>2. pc'[q] # "failed" => kind[q] = "import"
      BY <1>6
    <2>3. did'[q] \subseteq targets[q] /\ pending'[q] \subseteq targets[q]
      BY <1>2, <1>6, <1>10
    <2>4. kind[q] = "import" => did'[q] \cap pending'[q] = {}
      BY <1>2, <1>6, <1>11
    <2>5. kind[q] \notin Several => \E x \in Rows : targets[q] = {x}
      BY <1>0 DEF Local, Progress
    <2> QED BY <1>2, <2>1, <2>2, <2>3, <2>4, <2>5 DEF Progress
  <1>13. Seen(q)'
    BY <1>6 DEF Seen, Reading
  <1>14. Batch(q)'
    <2>1. InTransaction(q) => did'[q] = {} /\ pc'[q] = "failed"
      BY <1>0, <1>2, <1>6 DEF Local, Batch, InTransaction, Refuses
    <2> QED BY <1>9, <2>1 DEF Batch
  <1>15. Truthful(q)'
    <2>1. CASE DatabaseFails(q)
      BY <1>3, <2>1 DEF Truthful
    <2>2. CASE ThrowsAfterInsert(q)
      BY <1>9, <2>2 DEF Truthful
    <2>3. CASE Rollback(q) /\ UNCHANGED <<table, did>>
      <3>1. did[q] = {} \/ kind[q] = "import" \/ (kind[q] = "bulk" /\ ~InTransaction(q))
        BY <1>0 DEF Local, Progress, Batch
      <3> QED BY <1>6, <1>9, <2>3, <3>1 DEF Truthful
    <2> QED BY <2>1, <2>2, <2>3
  <1>16. Acknowledged(q)'
    BY <1>0, <1>2, <1>4, <1>6, <1>8, <1>10, <1>11 DEF Local, Acknowledged
  <1>17. Trailed(q)'
    BY <1>0, <1>2, <1>4, <1>8, <1>10 DEF Local, Trailed
  <1>18. Announced(q)'
    BY <1>0, <1>4, <1>6 DEF Local, Announced
  <1> QED BY <1>5, <1>7, <1>12, <1>13, <1>14, <1>15, <1>16, <1>17, <1>18 DEF Local

\* A row deleted behind the answer: the exception of a batch in no transaction.
LEMMA DeleteOrphanedKeeps ==
  ASSUME MutationInv, NEW q \in Requests, NEW r \in Rows, DeleteOrphaned(q, r)
  PROVE  Types' /\ Frame(q) /\ Local(q)'
  <1>0. Types /\ Local(q)
    BY DEF MutationInv
  <1>1. /\ UNCHANGED <<adapter, kind, targets, acked, trail, told, muted>>
        /\ pc[q] = "orphan" /\ r \in pending[q] /\ (DatabaseFails(q) \/ NoFault)
        /\ pending' = [pending EXCEPT ![q] = pending[q] \ {r}]
        /\ \E place \in {"orphan", "failed"} : pc' = [pc EXCEPT ![q] = place]
        /\ TakeEffect(q, r) \/ UNCHANGED <<table, did, staged>>
    BY DEF DeleteOrphaned, Goto, request, effects
  <1>2. Refuses(q) /\ kind[q] = "bulk" /\ ~InTransaction(q) /\ staged[q] = {}
    BY <1>0, <1>1 DEF Local, Progress, InTransaction, Refuses
  <1>3. /\ table' \in [Rows -> {"absent", "live", "stamped"}]
        /\ did' \in [Requests -> SUBSET Rows] /\ staged' = staged
        /\ \A d \in Requests \ {q} : did'[d] = did[d]
        /\ \A x \in Rows : table'[x] = "absent" /\ table[x] # "absent" =>
             x = r /\ r \in did'[q] /\ Deletes(q)
        /\ did[q] \subseteq did'[q] /\ did'[q] \subseteq did[q] \cup {r}
    <2>1. CASE TakeEffect(q, r)
      <3>1. kind[q] \in Kinds \ Actions
        BY <1>2 DEF Kinds, Actions
      <3> QED BY <1>0, <1>2, <2>1, <3>1, TakeEffectFacts
    <2>2. CASE UNCHANGED <<table, did, staged>>
      BY <1>0, <2>2 DEF Types
    <2> QED BY <1>1, <2>1, <2>2
  <1>4. /\ troubled' \subseteq Requests
        /\ \A d \in Requests \ {q} : d \in troubled' <=> d \in troubled
    BY <1>0, <1>1, FaultTypes
  <1>5. Types'
    <2>1. pc' \in [Requests -> Places]
      BY <1>0, <1>1 DEF Types, Places, Answers
    <2>2. pending' \in [Requests -> SUBSET Rows]
      BY <1>0, <1>1 DEF Types
    <2> QED BY <1>0, <1>1, <1>3, <1>4, <2>1, <2>2 DEF Types
  <1>6. /\ pending'[q] = pending[q] \ {r} /\ pc'[q] \in {"orphan", "failed"}
        /\ \A d \in Requests \ {q} : pc'[d] = pc[d] /\ pending'[d] = pending[d]
    BY <1>0, <1>1 DEF Types
  <1>7. Frame(q)
    BY <1>0, <1>1, <1>3, <1>4, <1>6 DEF Frame, Deletes
  <1>8. \A x \in Rows : Removed(x, q) => Removed(x, q)'
    BY <1>7, RemovedStays
  <1>9. Refuses(q)' /\ ~InTransaction(q)'
    BY <1>1, <1>2 DEF InTransaction, Refuses
  <1>10. /\ acked[q] \subseteq Rows /\ trail[q] \subseteq Rows /\ r \in targets[q]
         /\ pending[q] \subseteq targets[q] /\ did[q] \subseteq targets[q]
    BY <1>0, <1>1, <1>2 DEF Types, Local, Progress, Actions
  <1>11. Progress(q)'
    BY <1>1, <1>2, <1>3, <1>6, <1>9, <1>10 DEF Progress, Several
  <1>12. Truthful(q)' /\ Batch(q)'
    BY <1>1, <1>2, <1>9 DEF Truthful, Batch
  <1>13. Acknowledged(q)' /\ Trailed(q)'
    BY <1>0, <1>1, <1>2, <1>3, <1>6, <1>8, <1>10 DEF Local, Acknowledged, Trailed
  <1>14. Seen(q)' /\ Announced(q)'
    BY <1>6 DEF Seen, Announced
  <1> QED BY <1>5, <1>7, <1>11, <1>12, <1>13, <1>14 DEF Local

-----------------------------------------------------------------------------
LEMMA StepMutation == MutationInv /\ [Next]_vars => MutationInv'
  <1> SUFFICES ASSUME MutationInv, [Next]_vars PROVE MutationInv'
    OBVIOUS
  <1>1. ASSUME NEW q \in Requests, Types' /\ Frame(q) /\ Local(q)' PROVE MutationInv'
    BY <1>1, OthersKeep DEF MutationInv
  <1>2. CASE UNCHANGED vars
    BY <1>2
    DEF vars, request, effects, MutationInv, Types, Local, Progress, Seen, Present, Deletes,
        Removed, Batch, InTransaction, Refuses, Truthful, ThrowsAfterInsert, Acknowledged, Trailed,
        Announced
  <1>3. ASSUME NEW q \in Requests,
               \/ Arrive(q) \/ Refuse(q) \/ Read(q) \/ Commit(q) \/ ReadBack(q)
               \/ RefuseBatch(q) \/ Run(q) \/ Audit(q) \/ Effects(q)
        PROVE  MutationInv'
    BY <1>1, <1>3, ArriveKeeps, RefuseKeeps, ReadKeeps, CommitKeeps, ReadBackKeeps,
       RefuseBatchKeeps, RunKeeps, AuditKeeps, EffectsKeeps
  <1>4. ASSUME NEW q \in Requests, NEW r \in Rows, LockVictim(q, r) \/ DeleteOrphaned(q, r)
        PROVE  MutationInv'
    BY <1>1, <1>4, LockVictimKeeps, DeleteOrphanedKeeps
  <1>5. ASSUME NEW q \in Requests, NEW r \in Rows, Write(q, r) PROVE MutationInv'
    <2>1. /\ pc[q] = "write" /\ kind[q] \notin Actions /\ r \in pending[q]
          /\ UNCHANGED <<adapter, kind, targets, trail, told, muted>>
      BY <1>5 DEF Write, request, effects
    <2>2. CASE NoFault /\ ~Throws(q, r) /\ TakeEffect(q, r) /\ Returned(q, r)
      BY <1>1, <2>1, <2>2, WriteReturns
    <2>3. CASE /\ NoFault \/ DatabaseFails(q)
               /\ Rollback(q) /\ UNCHANGED <<table, did>> /\ Threw(q, r)
      BY <1>1, <2>1, <2>3, WriteThrows
    <2>4. CASE NoFault /\ ThrowsAfterInsert(q) /\ TakeEffect(q, r) /\ Threw(q, r)
      <3>1. ~InTransaction(q)
        BY <2>4 DEF ThrowsAfterInsert, InTransaction, Refuses
      <3> QED BY <1>1, <2>1, <2>4, <3>1, WriteThrows
    <2>5. CASE DatabaseFails(q) /\ ~InTransaction(q) /\ TakeEffect(q, r) /\ Threw(q, r)
      BY <1>1, <2>1, <2>5, WriteThrows
    <2> QED BY <1>5, <2>2, <2>3, <2>4, <2>5 DEF Write
  <1> QED BY <1>2, <1>3, <1>4, <1>5 DEF Next

\* The inductive invariant holds throughout.
THEOREM MutationInvariance == Spec => []MutationInv
  BY InitMutation, StepMutation, PTL DEF Spec

\* A batch in a transaction deletes its whole selection or none of it, whatever
\* fails, whoever waits and whoever deletes rows of it first.
THEOREM BatchIsAtomic == Spec => []BulkIsAllOrNothing
  <1>1. MutationInv => BulkIsAllOrNothing
    BY DEF MutationInv, Local, Batch, BulkIsAllOrNothing
  <1> QED BY <1>1, MutationInvariance, PTL

\* A mutation that is refused or fails did nothing that still stands, with the
\* exceptions the property names.
THEOREM RefusalIsTrue == Spec => []FailureIsTrue
  <1>1. MutationInv => FailureIsTrue
    BY DEF MutationInv, Local, Truthful, FailureIsTrue
  <1> QED BY <1>1, MutationInvariance, PTL

\* The audit trail names what its request did, or what a race took from it.
THEOREM TrailIsTrue == Spec => []PhantomsAreRaces
  <1>1. MutationInv => PhantomsAreRaces
    BY DEF MutationInv, Local, Trailed, PhantomsAreRaces
  <1> QED BY <1>1, MutationInvariance, PTL

\* A mutation answered with ok is audited and announced.
THEOREM ChangesAreHeard == Spec => []NothingIsSilent
  <1>1. MutationInv => NothingIsSilent
    BY DEF MutationInv, Local, Announced, NothingIsSilent
  <1> QED BY <1>1, MutationInvariance, PTL

\* What a caller is told is what was done.
THEOREM AnswersTellTheTruth == Spec => []AnswersAreTrue
  BY RefusalIsTrue, ChangesAreHeard, PTL DEF AnswersAreTrue

-----------------------------------------------------------------------------
(* Publishers and streams.  At most one publisher is open, the current     *)
(* one, so whatever somebody listens to or is due is its own; and no       *)
(* connection that carries anything is without an owner.                   *)

\* A publisher that was not created has nothing.
NothingBeforeCreation ==
  \A p \in Publishers : options[p] = Nothing =>
    p \notin closed /\ \A ch \in Channels : handlers[p][ch] = {}

\* What is subscribed, and what an event flies on, is the connection of somebody.
ConnectionsAreOwned ==
  /\ \A p \in Publishers : sub[p] # Nothing => owner[sub[p]] = p
  /\ \A c \in Connections, ch \in Channels : <<c, ch>> \in wired => owner[c] # Nothing
  /\ \A c \in flying : owner[c] # Nothing

OpenOnPublisher ==
  \A s \in Streams : phase[s] = "open" => on[s] \in Publishers /\ options[on[s]] # Nothing

NoEventNoDelivery == event = Nothing => flying = {} /\ due = {} /\ got = {}

ServerInv ==
  /\ ServerTypeOK
  /\ NothingBeforeCreation /\ ConnectionsAreOwned /\ OpenOnPublisher /\ NoEventNoDelivery
  /\ HandlersAreStreams /\ ListenedIsCarried /\ EventsReachTheirStreams

LEMMA NewPublisherIsFresh ==
  ASSUME CanCreate PROVE NewPublisher \in Publishers /\ options[NewPublisher] = Nothing
  BY DEF CanCreate, NewPublisher

LEMMA NewConnectionIsFree ==
  ASSUME CanConnect PROVE NewConnection \in Connections /\ owner[NewConnection] = Nothing
  BY DEF CanConnect, NewConnection

\* Only the publisher in use has listeners.
LEMMA ListenersAreCurrent ==
  ASSUME ServerInv, NEW p \in Publishers, NEW ch \in Channels, Listening(p, ch) # {}
  PROVE  p = current /\ p \notin closed
  BY DEF ServerInv, NothingBeforeCreation, HandlersAreStreams, Listening

LEMMA InitServer == ServerInit => ServerInv
  BY NothingAssumption, BoundsAssumption
  DEF ServerInit, PublisherInit, ServerInv, ServerTypeOK, PublisherTypeOK, NothingBeforeCreation,
      ConnectionsAreOwned, OpenOnPublisher, NoEventNoDelivery, HandlersAreStreams,
      ListenedIsCarried, EventsReachTheirStreams, Streams, Created, InMemory

OpenStreamsKeep ==
  /\ UNCHANGED <<gone, channels, on, heartbeat>>
  /\ phase' \in [Streams -> {"ended", "opening", "open"}]
  /\ \A t \in Streams : phase'[t] = "open" <=> phase[t] = "open"

LEMMA InstallKeeps ==
  ASSUME ServerInv, NEW o \in Created, CanCreate, current' = NewPublisher,
         Replace(current, NewPublisher, o), OpenStreamsKeep,
         \/ current = Nothing /\ UNCHANGED delivery
         \/ current # Nothing /\ DropDelivery(current)
  PROVE  ServerInv'
  <1> DEFINE n == NewPublisher
  <1>1. n \in Publishers /\ options[n] = Nothing
    BY NewPublisherIsFresh
  <1>2. o # Nothing /\ Nothing \notin Publishers \cup Connections
    BY NothingAssumption
  <1>3. /\ options' = [options EXCEPT ![n] = o]
        /\ closed' = closed \cup ({current} \ {Nothing})
        /\ sub' = [p \in Publishers |-> IF p = current THEN Nothing ELSE sub[p]]
        /\ owner' = [c \in Connections |-> IF c \in Owned(current) THEN Nothing ELSE owner[c]]
        /\ wired' = wired \ (Owned(current) \X Channels)
        /\ UNCHANGED <<handlers, connecting, refused, refusals>>
        /\ UNCHANGED <<gone, channels, on, heartbeat>>
        /\ phase' \in [Streams -> {"ended", "opening", "open"}]
        /\ \A t \in Streams : phase'[t] = "open" <=> phase[t] = "open"
    BY DEF Replace, OpenStreamsKeep
  <1> HIDE DEF n
  <1>4. ServerTypeOK'
    BY <1>1, <1>2, <1>3 DEF ServerInv, ServerTypeOK, PublisherTypeOK, n, DropDelivery, delivery
  <1>5. current # n
    BY <1>1, <1>2 DEF ServerInv, HandlersAreStreams
  <1>6. NothingBeforeCreation'
    BY <1>1, <1>2, <1>3, <1>5 DEF ServerInv, ServerTypeOK, PublisherTypeOK,
       NothingBeforeCreation, HandlersAreStreams
  <1>7. OpenOnPublisher'
    BY <1>1, <1>2, <1>3 DEF ServerInv, ServerTypeOK, PublisherTypeOK, OpenOnPublisher
  <1>8. HandlersAreStreams'
    <2>1. {p \in Publishers : options'[p] # Nothing} \ closed' = {current'} \ {Nothing}
      BY <1>1, <1>2, <1>3, <1>5 DEF ServerInv, ServerTypeOK, PublisherTypeOK, HandlersAreStreams,
         NothingBeforeCreation, n
    <2>2. closed \subseteq closed'
      BY <1>3
    <2> QED BY <1>3, <2>1, <2>2 DEF ServerInv, HandlersAreStreams
  <1>9. current = Nothing => UNCHANGED <<owner, wired, sub>>
    BY <1>2, <1>3 DEF ServerInv, ServerTypeOK, PublisherTypeOK, Owned, ConnectionsAreOwned
  <1>10. ConnectionsAreOwned'
    <2>1. CASE current = Nothing
      BY <2>1, <1>9, <1>2 DEF ServerInv, ConnectionsAreOwned, delivery
    <2>2. CASE current # Nothing
      BY <2>2, <1>2, <1>3 DEF ServerInv, ServerTypeOK, PublisherTypeOK, ConnectionsAreOwned,
         DropDelivery, Owned
    <2> QED BY <2>1, <2>2
  <1>11. NoEventNoDelivery'
    BY DEF ServerInv, NoEventNoDelivery, delivery, DropDelivery
  <1>12. ListenedIsCarried'
    <2> SUFFICES ASSUME NEW p \in Publishers \ closed', NEW ch \in Channels,
                        handlers'[p][ch] # {}, options'[p] \notin InMemory
                 PROVE  Carried(p, ch)' \/ connecting'[p][ch] > 0 \/ <<p, ch>> \in refused'
      BY DEF ListenedIsCarried
    <2>1. handlers[p][ch] # {} /\ p \notin closed /\ p # current
      BY <1>3, <1>2
    <2> QED BY <2>1, ListenersAreCurrent DEF Listening
  <1>13. EventsReachTheirStreams'
    <2>1. CASE current = Nothing
      <3>1. due = {}
        BY <2>1, <1>2, ListenersAreCurrent
           DEF ServerInv, ServerTypeOK, PublisherTypeOK, EventsReachTheirStreams,
               ConnectionsAreOwned, NoEventNoDelivery
      <3> QED BY <2>1, <1>3, <3>1 DEF delivery, ServerInv, ServerTypeOK, EventsReachTheirStreams
    <2>2. CASE current # Nothing
      <3>1. \A s \in due : on[s] = current
        <4> SUFFICES ASSUME NEW s \in due PROVE on[s] = current
          OBVIOUS
        <4>1. event \in Channels
          BY DEF ServerInv, ServerTypeOK, NoEventNoDelivery
        <4>2. PICK c \in flying : s \in Listening(owner[c], event)
          BY DEF ServerInv, EventsReachTheirStreams
        <4>3. owner[c] \in Publishers
          BY DEF ServerInv, ServerTypeOK, PublisherTypeOK, ConnectionsAreOwned
        <4> QED BY <4>1, <4>2, <4>3, ListenersAreCurrent
                DEF ServerInv, HandlersAreStreams, Listening
      <3>2. due' = {}
        BY <2>2, <3>1 DEF DropDelivery, ServerInv, ServerTypeOK
      <3> QED BY <2>2, <3>2, <1>3 DEF DropDelivery, ServerInv, ServerTypeOK, EventsReachTheirStreams
    <2> QED BY <2>1, <2>2
  <1> QED BY <1>4, <1>6, <1>7, <1>8, <1>10, <1>11, <1>12, <1>13 DEF ServerInv

\* Streams and events, where no publisher changes.
LEMMA StreamsKeep ==
  ASSUME ServerInv, UNCHANGED <<pubVars, current, channels, on, heartbeat>>,
         NEW s \in Streams,
         \/ RefuseStream(s) \/ Disconnect(s)
         \/ phase[s] = "opening" /\ s \in gone /\ phase' = [phase EXCEPT ![s] = "ended"]
            /\ gone' = gone \ {s} /\ UNCHANGED delivery
  PROVE  ServerInv'
  <1>1. /\ UNCHANGED delivery /\ gone' \subseteq gone \cup {s}
        /\ phase' \in [Streams -> {"ended", "opening", "open"}]
        /\ \A t \in Streams : phase'[t] = "open" <=> phase[t] = "open"
    BY DEF RefuseStream, Disconnect, ServerInv, ServerTypeOK
  <1>2. ServerTypeOK'
    BY <1>1 DEF ServerInv, ServerTypeOK, PublisherTypeOK, pubVars, wire, delivery
  <1>3. /\ NothingBeforeCreation' /\ ConnectionsAreOwned' /\ OpenOnPublisher'
        /\ NoEventNoDelivery'
    BY <1>1 DEF ServerInv, NothingBeforeCreation, ConnectionsAreOwned, OpenOnPublisher,
       NoEventNoDelivery, pubVars, wire, delivery
  <1>4. HandlersAreStreams' /\ ListenedIsCarried'
    BY <1>1 DEF ServerInv, HandlersAreStreams, ListenedIsCarried, Carried, Owned, pubVars, wire
  <1>5. EventsReachTheirStreams'
    BY <1>1 DEF ServerInv, ServerTypeOK, EventsReachTheirStreams, Listening, pubVars, wire,
       delivery
  <1> QED BY <1>2, <1>3, <1>4, <1>5 DEF ServerInv

LEMMA EventsKeep ==
  ASSUME ServerInv, UNCHANGED <<pubVars, current, streams>>,
         \/ \E ch \in Channels : PublishInMemory(ch) \/ PublishOnRedis(ch)
         \/ \E c \in Connections : Dispatch(c)
  PROVE  ServerInv'
  <1> USE DEF pubVars, wire, streams
  <1>1. /\ NothingBeforeCreation' /\ OpenOnPublisher' /\ HandlersAreStreams'
        /\ ListenedIsCarried'
    BY DEF ServerInv, NothingBeforeCreation, OpenOnPublisher, HandlersAreStreams,
       ListenedIsCarried, Carried, Owned
  <1>2. ASSUME NEW p \in Publishers, NEW ch \in Channels
        PROVE  \A s \in Listening(p, ch) :
                 s \in Streams /\ phase[s] = "open" /\ on[s] = p /\ ch \in channels[s]
    BY DEF ServerInv, HandlersAreStreams, Listening
  <1>3. \A c \in Connections : owner[c] # Nothing => owner[c] \in Publishers
    BY DEF ServerInv, ServerTypeOK, PublisherTypeOK
  <1>4. ASSUME NEW ch \in Channels, PublishInMemory(ch) PROVE ServerInv'
    <2>1. /\ event = Nothing /\ event' = ch /\ got' = Listening(current, ch)
          /\ flying = {} /\ due = {} /\ UNCHANGED <<flying, due>> /\ current \in Publishers
      BY <1>4 DEF PublishInMemory, ServerInv, NoEventNoDelivery, ServerTypeOK
    <2>2. ServerTypeOK'
      BY <1>2, <2>1 DEF ServerInv, ServerTypeOK, PublisherTypeOK
    <2>3. ConnectionsAreOwned' /\ NoEventNoDelivery' /\ EventsReachTheirStreams'
      BY <1>2, <2>1, NothingAssumption DEF ServerInv, ConnectionsAreOwned, NoEventNoDelivery,
         EventsReachTheirStreams, Listening, ServerTypeOK
    <2> QED BY <1>1, <2>2, <2>3 DEF ServerInv
  <1>5. ASSUME NEW ch \in Channels, PublishOnRedis(ch) PROVE ServerInv'
    <2>1. /\ event = Nothing /\ event' = ch /\ got = {} /\ got' = {}
          /\ flying' = {c \in Connections : <<c, ch>> \in wired}
          /\ due' = Reachable(ch)
      BY <1>5 DEF PublishOnRedis, ServerInv, NoEventNoDelivery
    <2>2. ServerTypeOK'
      BY <2>1 DEF ServerInv, ServerTypeOK, PublisherTypeOK, Reachable
    <2>3. \A s \in due' : \E c \in flying' : s \in Listening(owner[c], ch)
      BY <2>1 DEF Reachable, Carried, Owned, Listening, ServerInv, HandlersAreStreams,
         OpenOnPublisher
    <2>4. EventsReachTheirStreams'
      BY <2>1, <2>3 DEF EventsReachTheirStreams, Listening
    <2>5. ConnectionsAreOwned'
      BY <2>1 DEF ServerInv, ConnectionsAreOwned
    <2>6. NoEventNoDelivery'
      BY <2>1, NothingAssumption DEF NoEventNoDelivery
    <2> QED BY <1>1, <2>2, <2>4, <2>5, <2>6 DEF ServerInv
  <1>6. ASSUME NEW c \in Connections, Dispatch(c) PROVE ServerInv'
    <2> DEFINE reached == Listening(owner[c], event)
    <2>1. /\ c \in flying /\ flying' = flying \ {c} /\ got' = got \cup reached
          /\ due' = due \ reached /\ event' = event
      BY <1>6 DEF Dispatch
    <2>2. event \in Channels /\ owner[c] \in Publishers
      BY <1>3, <2>1 DEF ServerInv, NoEventNoDelivery, ConnectionsAreOwned, ServerTypeOK
    <2>3. \A s \in reached : s \in Streams /\ phase[s] = "open" /\ event \in channels[s]
      BY <1>2, <2>2
    <2> HIDE DEF reached
    <2>4. ServerTypeOK'
      BY <2>1, <2>3 DEF ServerInv, ServerTypeOK, PublisherTypeOK
    <2>5. \A s \in due' : \E d \in flying' : s \in Listening(owner[d], event)
      BY <2>1 DEF ServerInv, EventsReachTheirStreams, reached
    <2>6. EventsReachTheirStreams'
      BY <2>1, <2>3, <2>5 DEF ServerInv, EventsReachTheirStreams, Listening
    <2>7. ConnectionsAreOwned' /\ NoEventNoDelivery'
      BY <2>1, <2>2, NothingAssumption DEF ServerInv, ConnectionsAreOwned, NoEventNoDelivery
    <2> QED BY <1>1, <2>4, <2>6, <2>7 DEF ServerInv
  <1> QED BY <1>4, <1>5, <1>6

\* An idle bind: the options are those of the publisher in use.
LEMMA BindKeeps ==
  ASSUME ServerInv, NEW o \in Options, Bind(o), OpenStreamsKeep
  PROVE  ServerInv'
  <1>1. CASE UNCHANGED <<pubVars, current, delivery>>
    <2> USE <1>1 DEF pubVars, wire, delivery, OpenStreamsKeep
    <2>1. ServerTypeOK'
      BY DEF ServerInv, ServerTypeOK, PublisherTypeOK
    <2>2. /\ NothingBeforeCreation' /\ ConnectionsAreOwned' /\ OpenOnPublisher'
          /\ NoEventNoDelivery'
      BY DEF ServerInv, NothingBeforeCreation, ConnectionsAreOwned, OpenOnPublisher,
         NoEventNoDelivery
    <2>3. HandlersAreStreams' /\ ListenedIsCarried'
      BY DEF ServerInv, HandlersAreStreams, ListenedIsCarried, Carried, Owned
    <2>4. EventsReachTheirStreams'
      BY DEF ServerInv, ServerTypeOK, EventsReachTheirStreams, Listening
    <2> QED BY <2>1, <2>2, <2>3, <2>4 DEF ServerInv
  <1>2. CASE Install(o)
    BY <1>2, InstallKeeps, OptionsAssumption DEF Install, Created
  <1> QED BY <1>1, <1>2 DEF Bind

\* What the connections of a publisher look like after a change.
WireTypeOK ==
  /\ connecting \in [Publishers -> [Channels -> 0..MaxPending]]
  /\ sub \in [Publishers -> Connections \cup {Nothing}]
  /\ owner \in [Connections -> Publishers \cup {Nothing}]
  /\ wired \in SUBSET (Connections \X Channels)
  /\ refused \in SUBSET (Publishers \X Channels)
  /\ refusals \in 0..MaxRefusals

WireOwned ==
  /\ \A p \in Publishers : sub[p] # Nothing => owner[sub[p]] = p
  /\ \A c \in Connections, ch \in Channels : <<c, ch>> \in wired => owner[c] # Nothing

Pending(p, ch) == Carried(p, ch) \/ connecting[p][ch] > 0 \/ <<p, ch>> \in refused

\* Channels put on a connection of p are carried for it, or were refused.
LEMMA WireOnCarries ==
  ASSUME WireTypeOK, NEW p \in Publishers, NEW c \in Connections, NEW chs \in SUBSET Channels,
         WireOn(p, c, chs)
  PROVE  /\ wired' \in SUBSET (Connections \X Channels)
         /\ refused' \in SUBSET (Publishers \X Channels)
         /\ refusals' \in 0..MaxRefusals
         /\ wired \subseteq wired' /\ refused \subseteq refused'
         /\ \A d \in Connections, ch \in Channels :
              <<d, ch>> \in wired' => d = c \/ <<d, ch>> \in wired
         /\ \A ch \in chs : <<c, ch>> \in wired' \/ <<p, ch>> \in refused'
  BY BoundsAssumption DEF WireTypeOK, WireOn, AddToWire, Refusal

LEMMA OpenConnectionOwns ==
  ASSUME WireTypeOK, WireOwned, NEW p \in Publishers, OpenConnection(p)
  PROVE  /\ NewConnection \in Connections /\ owner[NewConnection] = Nothing
         /\ sub' \in [Publishers -> Connections \cup {Nothing}]
         /\ owner' \in [Connections -> Publishers \cup {Nothing}]
         /\ owner'[NewConnection] = p
         /\ \A c \in Connections : owner[c] # Nothing => owner'[c] = owner[c]
         /\ \A q \in Publishers : sub'[q] # Nothing => owner'[sub'[q]] = q
  BY NewConnectionIsFree, NothingAssumption DEF WireTypeOK, WireOwned, OpenConnection

\* A new connection that takes the channels of its publisher.
LEMMA OpensAndWires ==
  ASSUME WireTypeOK, WireOwned, NEW p \in Publishers, NEW chs \in SUBSET Channels,
         OpenConnection(p), WireOn(p, NewConnection, chs),
         connecting' \in [Publishers -> [Channels -> 0..MaxPending]]
  PROVE  /\ WireTypeOK' /\ WireOwned'
         /\ \A q \in Publishers, ch \in Channels : Carried(q, ch) => Carried(q, ch)'
         /\ refused \subseteq refused'
         /\ \A ch \in chs : Carried(p, ch)' \/ <<p, ch>> \in refused'
         /\ \A c \in Connections : owner[c] # Nothing => owner'[c] = owner[c]
  <1> DEFINE n == NewConnection
  <1>1. /\ n \in Connections /\ owner[n] = Nothing
        /\ sub' \in [Publishers -> Connections \cup {Nothing}]
        /\ owner' \in [Connections -> Publishers \cup {Nothing}]
        /\ owner'[n] = p
        /\ \A c \in Connections : owner[c] # Nothing => owner'[c] = owner[c]
        /\ \A q \in Publishers : sub'[q] # Nothing => owner'[sub'[q]] = q
    BY OpenConnectionOwns
  <1>2. WireOn(p, n, chs)
    OBVIOUS
  <1> HIDE DEF n
  <1>3. /\ wired' \in SUBSET (Connections \X Channels)
        /\ refused' \in SUBSET (Publishers \X Channels)
        /\ refusals' \in 0..MaxRefusals
        /\ wired \subseteq wired' /\ refused \subseteq refused'
        /\ \A d \in Connections, ch \in Channels :
             <<d, ch>> \in wired' => d = n \/ <<d, ch>> \in wired
        /\ \A ch \in chs : <<n, ch>> \in wired' \/ <<p, ch>> \in refused'
    BY <1>1, <1>2, WireOnCarries
  <1>4. WireTypeOK'
    BY <1>1, <1>3 DEF WireTypeOK
  <1>5. WireOwned'
    BY <1>1, <1>3, NothingAssumption DEF WireOwned
  <1>6. \A q \in Publishers, ch \in Channels : Carried(q, ch) => Carried(q, ch)'
    BY <1>1, <1>3, NothingAssumption DEF Carried, Owned
  <1>7. \A ch \in chs : Carried(p, ch)' \/ <<p, ch>> \in refused'
    BY <1>1, <1>3 DEF Carried, Owned
  <1> QED BY <1>1, <1>3, <1>4, <1>5, <1>6, <1>7

\* The subscriptions of a publisher that go to the wire get there, wait for their
\* connection, or are refused; nothing else changes.
LEMMA WireUpCarries ==
  ASSUME WireTypeOK, WireOwned, NEW p \in Publishers, NEW chs \in SUBSET Channels,
         WireUp(p, chs)
  PROVE  /\ WireTypeOK' /\ WireOwned'
         /\ \A q \in Publishers, ch \in Channels : Pending(q, ch) => Pending(q, ch)'
         /\ options[p] \notin InMemory => \A ch \in chs : Pending(p, ch)'
         /\ \A c \in Connections : owner[c] # Nothing => owner'[c] = owner[c]
  <1>1. CASE UNCHANGED wire /\ (options[p] \in InMemory \/ chs = {})
    BY <1>1 DEF wire, WireTypeOK, WireOwned, Pending, Carried, Owned
  <1>2. CASE sub[p] # Nothing /\ WireOn(p, sub[p], chs) /\ UNCHANGED <<connecting, sub, owner>>
    <2>1. sub[p] \in Connections /\ owner[sub[p]] = p
      BY <1>2 DEF WireTypeOK, WireOwned
    <2> DEFINE c == sub[p]
    <2>2. WireOn(p, c, chs) /\ c \in Connections /\ owner[c] = p
      BY <1>2, <2>1
    <2> HIDE DEF c
    <2>3. WireTypeOK' /\ WireOwned'
      BY <1>2, <2>2, WireOnCarries, NothingAssumption DEF WireTypeOK, WireOwned
    <2>4. \A q \in Publishers, ch \in Channels : Pending(q, ch) => Pending(q, ch)'
      BY <1>2, <2>2, WireOnCarries DEF Pending, Carried, Owned
    <2>5. \A ch \in chs : Pending(p, ch)'
      BY <1>2, <2>2, WireOnCarries DEF Pending, Carried, Owned
    <2> QED BY <1>2, <2>3, <2>4, <2>5
  <1>3. CASE OpenConnection(p) /\ WireOn(p, NewConnection, chs) /\ UNCHANGED connecting
    BY <1>3, OpensAndWires DEF WireTypeOK, Pending
  <1>4. CASE /\ connecting' = [connecting EXCEPT ![p] =
                  [ch \in Channels |-> IF ch \in chs THEN @[ch] + 1 ELSE @[ch]]]
             /\ \A ch \in chs : connecting[p][ch] < MaxPending
             /\ UNCHANGED <<sub, owner, wired, refused, refusals>>
    <2>1. WireTypeOK' /\ WireOwned'
      BY <1>4, BoundsAssumption DEF WireTypeOK, WireOwned
    <2>2. \A q \in Publishers, ch \in Channels :
            connecting'[q][ch] = IF q = p /\ ch \in chs THEN connecting[q][ch] + 1
                                 ELSE connecting[q][ch]
      BY <1>4 DEF WireTypeOK
    <2>3. \A q \in Publishers, ch \in Channels : connecting[q][ch] \in Nat
      BY BoundsAssumption DEF WireTypeOK
    <2>4. \A q \in Publishers, ch \in Channels : Carried(q, ch)' = Carried(q, ch)
      BY <1>4 DEF Carried, Owned
    <2>5. \A q \in Publishers, ch \in Channels : Pending(q, ch) => Pending(q, ch)'
      BY <1>4, <2>2, <2>3, <2>4 DEF Pending
    <2>6. \A ch \in chs : Pending(p, ch)'
      BY <2>2, <2>3 DEF Pending
    <2> QED BY <1>4, <2>1, <2>5, <2>6
  <1>5. \/ UNCHANGED wire /\ (options[p] \in InMemory \/ chs = {})
        \/ sub[p] # Nothing /\ WireOn(p, sub[p], chs) /\ UNCHANGED <<connecting, sub, owner>>
        \/ OpenConnection(p) /\ WireOn(p, NewConnection, chs) /\ UNCHANGED connecting
        \/ /\ connecting' = [connecting EXCEPT ![p] =
                  [ch \in Channels |-> IF ch \in chs THEN @[ch] + 1 ELSE @[ch]]]
           /\ \A ch \in chs : connecting[p][ch] < MaxPending
           /\ UNCHANGED <<sub, owner, wired, refused, refusals>>
    BY DEF WireUp
  <1> QED BY <1>1, <1>2, <1>3, <1>4, <1>5

\* A change of connections alone.
LEMMA ConnectKeeps ==
  ASSUME ServerInv, NEW p \in Publishers, NEW ch \in Channels,
         Connected(p, ch) \/ ConnectFails(p, ch), UNCHANGED <<current, streams, delivery>>
  PROVE  ServerInv'
  <1>1. /\ WireTypeOK /\ WireOwned
        /\ \A q \in Publishers, c \in Channels : connecting[q][c] \in Nat
    BY BoundsAssumption DEF ServerInv, ServerTypeOK, PublisherTypeOK, WireTypeOK,
       ConnectionsAreOwned, WireOwned
  <1>2. /\ connecting[p][ch] > 0
        /\ connecting' = [connecting EXCEPT ![p][ch] = @ - 1]
        /\ UNCHANGED <<options, closed, handlers>>
    BY DEF Connected, ConnectFails
  <1>3. /\ connecting' \in [Publishers -> [Channels -> 0..MaxPending]]
        /\ \A q \in Publishers, c \in Channels :
             q # p \/ c # ch => connecting'[q][c] = connecting[q][c]
    BY <1>1, <1>2, BoundsAssumption DEF WireTypeOK
  <1>4. /\ WireTypeOK' /\ WireOwned'
        /\ \A q \in Publishers, c \in Channels : Carried(q, c) => Carried(q, c)'
        /\ refused \subseteq refused'
        /\ Carried(p, ch)' \/ <<p, ch>> \in refused'
        /\ \A c \in Connections : owner[c] # Nothing => owner'[c] = owner[c]
    <2>1. CASE Connected(p, ch)
      <3>1. OpenConnection(p) /\ WireOn(p, NewConnection, {ch}) /\ {ch} \in SUBSET Channels
        BY <2>1 DEF Connected
      <3>2. \A c \in {ch} : Carried(p, c)' \/ <<p, c>> \in refused'
        BY <1>1, <1>3, <3>1, OpensAndWires
      <3>3. /\ WireTypeOK' /\ WireOwned'
            /\ \A q \in Publishers, c \in Channels : Carried(q, c) => Carried(q, c)'
            /\ refused \subseteq refused'
            /\ \A c \in Connections : owner[c] # Nothing => owner'[c] = owner[c]
        BY <1>1, <1>3, <3>1, OpensAndWires
      <3> QED BY <3>2, <3>3
    <2>2. CASE ConnectFails(p, ch)
      <3>1. /\ refused' = refused \cup {<<p, ch>>} /\ refusals' \in 0..MaxRefusals
            /\ UNCHANGED <<sub, owner, wired>>
        BY <1>1, <2>2, BoundsAssumption DEF ConnectFails, Refusal, WireTypeOK
      <3>2. WireTypeOK'
        BY <1>1, <1>3, <3>1 DEF WireTypeOK
      <3>3. WireOwned'
        BY <1>1, <3>1 DEF WireOwned
      <3>4. \A q \in Publishers, c \in Channels : Carried(q, c) => Carried(q, c)'
        BY <3>1 DEF Carried, Owned
      <3> QED BY <3>1, <3>2, <3>3, <3>4
    <2> QED BY <2>1, <2>2
  <1>5. ServerTypeOK'
    BY <1>2, <1>4 DEF ServerInv, ServerTypeOK, PublisherTypeOK, WireTypeOK, streams, delivery
  <1>6. NothingBeforeCreation' /\ OpenOnPublisher' /\ NoEventNoDelivery' /\ HandlersAreStreams'
    BY <1>2 DEF ServerInv, NothingBeforeCreation, OpenOnPublisher, NoEventNoDelivery,
       HandlersAreStreams, streams, delivery
  <1>7. \A c \in flying : owner'[c] = owner[c]
    BY <1>4 DEF ServerInv, ServerTypeOK, ConnectionsAreOwned
  <1>8. ConnectionsAreOwned'
    BY <1>4, <1>7 DEF ServerInv, ConnectionsAreOwned, WireOwned, delivery
  <1>9. EventsReachTheirStreams'
    BY <1>2, <1>7 DEF ServerInv, EventsReachTheirStreams, Listening, streams, delivery
  <1>10. ListenedIsCarried'
    BY <1>2, <1>3, <1>4 DEF ServerInv, ListenedIsCarried
  <1> QED BY <1>5, <1>6, <1>8, <1>9, <1>10 DEF ServerInv

\* A stream starts: it is one of the handlers of its channels from then on.
LEMMA SubscribeKeeps ==
  ASSUME ServerInv, NEW s \in Streams, NEW chs \in SUBSET Channels,
         phase[s] = "opening", current # Nothing,
         phase' = [phase EXCEPT ![s] = "open"], on' = [on EXCEPT ![s] = current],
         channels' = [channels EXCEPT ![s] = chs], heartbeat' = heartbeat \cup {s},
         Subscribe(current, s, chs), UNCHANGED <<gone, delivery, current>>
  PROVE  ServerInv'
  <1>1. current \in Publishers \ closed /\ options[current] # Nothing
    BY NothingAssumption DEF ServerInv, ServerTypeOK, HandlersAreStreams
  <1>2. /\ handlers' = [handlers EXCEPT ![current] =
              [ch \in Channels |-> IF ch \in chs THEN @[ch] \cup {s} ELSE @[ch]]]
        /\ WireUp(current, Firsts(current, chs))
        /\ UNCHANGED <<options, closed>>
    BY <1>1 DEF Subscribe
  <1>3. \A p \in Publishers, ch \in Channels :
          handlers'[p][ch] = IF p = current /\ ch \in chs THEN handlers[p][ch] \cup {s}
                             ELSE handlers[p][ch]
    BY <1>1, <1>2 DEF ServerInv, ServerTypeOK, PublisherTypeOK
  <1>4. WireTypeOK /\ WireOwned /\ Firsts(current, chs) \in SUBSET Channels
    BY DEF ServerInv, ServerTypeOK, PublisherTypeOK, WireTypeOK, ConnectionsAreOwned, WireOwned,
       Firsts
  <1>5. /\ WireTypeOK' /\ WireOwned'
        /\ \A q \in Publishers, ch \in Channels : Pending(q, ch) => Pending(q, ch)'
        /\ options[current] \notin InMemory => \A ch \in Firsts(current, chs) : Pending(current, ch)'
        /\ \A c \in Connections : owner[c] # Nothing => owner'[c] = owner[c]
    BY <1>1, <1>2, <1>4, WireUpCarries
  <1>6. ServerTypeOK'
    <2>1. handlers' \in [Publishers -> [Channels -> SUBSET Handlers]]
      BY <1>1, <1>2 DEF ServerInv, ServerTypeOK, PublisherTypeOK, Streams
    <2> QED BY <1>1, <1>2, <1>5, <2>1
            DEF ServerInv, ServerTypeOK, PublisherTypeOK, WireTypeOK, delivery
  <1>7. NothingBeforeCreation'
    BY <1>1, <1>2, <1>3 DEF ServerInv, NothingBeforeCreation
  <1>8. OpenOnPublisher'
    BY <1>1, <1>2 DEF ServerInv, ServerTypeOK, OpenOnPublisher
  <1>9. NoEventNoDelivery'
    BY DEF ServerInv, NoEventNoDelivery, delivery
  <1>10. HandlersAreStreams'
    <2>2. \A t \in Streams : phase'[t] = (IF t = s THEN "open" ELSE phase[t])
            /\ on'[t] = (IF t = s THEN current ELSE on[t])
            /\ channels'[t] = (IF t = s THEN chs ELSE channels[t])
      BY DEF ServerInv, ServerTypeOK
    <2>3. ASSUME NEW p \in Publishers \ closed, NEW ch \in Channels
          PROVE  handlers'[p][ch] =
                   {t \in Streams : phase'[t] = "open" /\ on'[t] = p /\ ch \in channels'[t]}
      <3>1. handlers[p][ch] = {t \in Streams : phase[t] = "open" /\ on[t] = p /\ ch \in channels[t]}
        BY DEF ServerInv, HandlersAreStreams
      <3>2. handlers'[p][ch] \subseteq Streams
        BY <1>6 DEF ServerTypeOK, PublisherTypeOK, Streams
      <3>3. \A t \in Streams : t \in handlers'[p][ch] <=>
              phase'[t] = "open" /\ on'[t] = p /\ ch \in channels'[t]
        <4> TAKE t \in Streams
        <4>1. t \in handlers'[p][ch] <=> t \in handlers[p][ch] \/ (p = current /\ ch \in chs /\ t = s)
          BY <1>3
        <4>2. CASE t = s
          BY <2>2, <3>1, <4>1, <4>2
        <4>3. CASE t # s
          BY <2>2, <3>1, <4>1, <4>3
        <4> QED BY <4>2, <4>3
      <3> QED BY <3>2, <3>3
    <2>4. heartbeat' = {t \in Streams : phase'[t] = "open"}
      BY <2>2 DEF ServerInv, HandlersAreStreams
    <2> QED BY <1>2, <2>3, <2>4 DEF ServerInv, HandlersAreStreams
  <1>11. \A c \in flying : owner'[c] = owner[c] /\ owner[c] \in Publishers
    BY <1>5 DEF ServerInv, ServerTypeOK, PublisherTypeOK, ConnectionsAreOwned
  <1>12. ConnectionsAreOwned'
    BY <1>5, <1>11, NothingAssumption DEF ConnectionsAreOwned, WireOwned, delivery
  <1>13. EventsReachTheirStreams'
    <2>1. event \in Channels \/ due = {}
      BY DEF ServerInv, ServerTypeOK, NoEventNoDelivery
    <2>2. \A c \in flying : event \in Channels =>
            Listening(owner[c], event) \subseteq Listening(owner[c], event)'
      BY <1>2, <1>3, <1>11 DEF Listening, delivery
    <2>3. \A t \in due : \E c \in flying : t \in Listening(owner[c], event)'
      BY <2>1, <2>2 DEF ServerInv, EventsReachTheirStreams
    <2>4. \A t \in got : t \in Streams /\ t # s
      BY DEF ServerInv, ServerTypeOK, EventsReachTheirStreams
    <2> QED BY <2>3, <2>4 DEF ServerInv, ServerTypeOK, EventsReachTheirStreams, delivery
  <1>14. ListenedIsCarried'
    <2> SUFFICES ASSUME NEW p \in Publishers \ closed, NEW ch \in Channels,
                        handlers'[p][ch] # {}, options[p] \notin InMemory
                 PROVE  Pending(p, ch)'
      BY <1>2 DEF ListenedIsCarried, Pending
    <2>1. CASE handlers[p][ch] # {}
      BY <1>5, <2>1 DEF ServerInv, ListenedIsCarried, Pending
    <2>2. CASE handlers[p][ch] = {}
      BY <1>3, <1>5, <2>2 DEF Firsts
    <2> QED BY <2>1, <2>2
  <1> QED BY <1>6, <1>7, <1>8, <1>9, <1>10, <1>12, <1>13, <1>14 DEF ServerInv

\* A stream ends: it is the handler of nothing from then on, and its channels stay
\* on the wire while others listen.
LEMMA EndKeeps ==
  ASSUME ServerInv, NEW s \in Streams, End(s)
  PROVE  ServerInv'
  <1> DEFINE p == on[s]
             last == {ch \in Channels : handlers[p][ch] = {s}}
  <1>1. /\ phase[s] = "open" /\ phase' = [phase EXCEPT ![s] = "ended"]
        /\ handlers' = [handlers EXCEPT ![p] = [ch \in Channels |-> @[ch] \ {s}]]
        /\ wired' = wired \ ({sub[p]} \X last)
        /\ refused' = refused \ ({p} \X last)
        /\ heartbeat' = heartbeat \ {s} /\ gone' = gone \ {s}
        /\ channels' = [channels EXCEPT ![s] = {}] /\ on' = [on EXCEPT ![s] = Nothing]
        /\ due' = due \ {s} /\ got' = got \ {s}
        /\ UNCHANGED <<options, closed, connecting, sub, owner, refusals, event, flying, current>>
    BY DEF End, Cleanup, Dispose
  <1>2. p \in Publishers
    BY <1>1 DEF ServerInv, OpenOnPublisher
  <1> HIDE DEF p
  <1>3. \A q \in Publishers, ch \in Channels :
          handlers'[q][ch] = IF q = p THEN handlers[q][ch] \ {s} ELSE handlers[q][ch]
    BY <1>1, <1>2 DEF ServerInv, ServerTypeOK, PublisherTypeOK
  <1>4. \A t \in Streams : /\ phase'[t] = (IF t = s THEN "ended" ELSE phase[t])
                           /\ on'[t] = (IF t = s THEN Nothing ELSE on[t])
                           /\ channels'[t] = (IF t = s THEN {} ELSE channels[t])
    BY <1>1 DEF ServerInv, ServerTypeOK
  <1>5. ServerTypeOK'
    <2>1. handlers' \in [Publishers -> [Channels -> SUBSET Handlers]]
      BY <1>1, <1>2 DEF ServerInv, ServerTypeOK, PublisherTypeOK
    <2> QED BY <1>1, <2>1 DEF ServerInv, ServerTypeOK, PublisherTypeOK
  <1>6. NothingBeforeCreation'
    BY <1>1, <1>3 DEF ServerInv, NothingBeforeCreation
  <1>7. OpenOnPublisher'
    BY <1>1, <1>4 DEF ServerInv, OpenOnPublisher
  <1>8. NoEventNoDelivery' /\ ConnectionsAreOwned'
    BY <1>1 DEF ServerInv, NoEventNoDelivery, ConnectionsAreOwned
  <1>9. HandlersAreStreams'
    <2>1. ASSUME NEW q \in Publishers \ closed, NEW ch \in Channels
          PROVE  handlers'[q][ch] =
                   {t \in Streams : phase'[t] = "open" /\ on'[t] = q /\ ch \in channels'[t]}
      <3>1. handlers[q][ch] = {t \in Streams : phase[t] = "open" /\ on[t] = q /\ ch \in channels[t]}
        BY DEF ServerInv, HandlersAreStreams
      <3>2. handlers'[q][ch] \subseteq Streams
        BY <1>5 DEF ServerTypeOK, PublisherTypeOK, Streams
      <3>3. \A t \in Streams : t \in handlers'[q][ch] <=>
              phase'[t] = "open" /\ on'[t] = q /\ ch \in channels'[t]
        <4> TAKE t \in Streams
        <4>1. t \in handlers'[q][ch] <=> t \in handlers[q][ch] /\ ~(q = p /\ t = s)
          BY <1>3
        <4>2. CASE t = s
          BY <1>4, <3>1, <4>1, <4>2 DEF p
        <4>3. CASE t # s
          BY <1>4, <3>1, <4>1, <4>3
        <4> QED BY <4>2, <4>3
      <3> QED BY <3>2, <3>3
    <2>2. heartbeat' = {t \in Streams : phase'[t] = "open"}
      BY <1>1, <1>4 DEF ServerInv, HandlersAreStreams
    <2> QED BY <1>1, <2>1, <2>2 DEF ServerInv, HandlersAreStreams
  <1>10. ListenedIsCarried'
    <2> SUFFICES ASSUME NEW q \in Publishers \ closed, NEW ch \in Channels,
                        handlers'[q][ch] # {}, options[q] \notin InMemory
                 PROVE  Pending(q, ch)'
      BY <1>1 DEF ListenedIsCarried, Pending
    <2>1. handlers[q][ch] # {} /\ (q = p => ch \notin last)
      BY <1>3
    <2>2. Pending(q, ch)
      BY <2>1 DEF ServerInv, ListenedIsCarried, Pending
    <2>3. Carried(q, ch) => Carried(q, ch)'
      <3> SUFFICES ASSUME NEW c \in Owned(q), <<c, ch>> \in wired PROVE <<c, ch>> \in wired'
        BY <1>1 DEF Carried, Owned
      <3>1. c = sub[p] => q = p
        BY <1>2, NothingAssumption DEF Owned, ServerInv, ConnectionsAreOwned
      <3> QED BY <1>1, <2>1, <3>1
    <2>4. <<q, ch>> \in refused => <<q, ch>> \in refused'
      BY <1>1, <2>1
    <2> QED BY <1>1, <2>2, <2>3, <2>4 DEF Pending
  <1>11. EventsReachTheirStreams'
    <2>1. event \in Channels \/ due = {}
      BY DEF ServerInv, ServerTypeOK, NoEventNoDelivery
    <2>2. \A c \in flying : owner[c] \in Publishers
      BY DEF ServerInv, ServerTypeOK, PublisherTypeOK, ConnectionsAreOwned
    <2>3. \A t \in due' : \E c \in flying : t \in Listening(owner[c], event)'
      BY <1>1, <1>3, <2>1, <2>2 DEF ServerInv, EventsReachTheirStreams, Listening
    <2>4. \A t \in got' : t \in Streams /\ t # s /\ phase[t] = "open" /\ event \in channels[t]
      BY <1>1 DEF ServerInv, ServerTypeOK, EventsReachTheirStreams
    <2> QED BY <1>1, <1>4, <2>3, <2>4 DEF EventsReachTheirStreams
  <1> QED BY <1>5, <1>6, <1>7, <1>8, <1>9, <1>10, <1>11 DEF ServerInv

LEMMA StepServer == ServerInv /\ [ServerNext]_serverVars => ServerInv'
  <1> SUFFICES ASSUME ServerInv, [ServerNext]_serverVars PROVE ServerInv'
    OBVIOUS
  <1>1. phase \in [Streams -> {"ended", "opening", "open"}]
    BY DEF ServerInv, ServerTypeOK
  <1>2. CASE UNCHANGED serverVars
    <2> USE <1>2 DEF serverVars, pubVars, wire, streams, delivery
    <2>1. ServerTypeOK'
      BY DEF ServerInv, ServerTypeOK, PublisherTypeOK
    <2>2. /\ NothingBeforeCreation' /\ ConnectionsAreOwned' /\ OpenOnPublisher'
          /\ NoEventNoDelivery'
      BY DEF ServerInv, NothingBeforeCreation, ConnectionsAreOwned, OpenOnPublisher,
         NoEventNoDelivery
    <2>3. HandlersAreStreams' /\ ListenedIsCarried' /\ EventsReachTheirStreams'
      BY DEF ServerInv, HandlersAreStreams, ListenedIsCarried, EventsReachTheirStreams, Carried,
         Owned, Listening
    <2> QED BY <2>1, <2>2, <2>3 DEF ServerInv
  <1>3. CASE RequestBinds
    BY <1>1, <1>3, BindKeeps DEF RequestBinds, OpenStreamsKeep, streams
  <1>4. CASE PublisherStep
    BY <1>4, ConnectKeeps DEF PublisherStep
  <1>5. CASE PublishUnbound
    <2>1. OpenStreamsKeep /\ current = Nothing
      BY <1>1, <1>5 DEF PublishUnbound, OpenStreamsKeep, streams
    <2>2. "unbound" \in Created
      BY DEF Created, InMemory
    <2> QED BY <1>5, <2>1, <2>2, InstallKeeps DEF PublishUnbound
  <1>6. ASSUME NEW s \in Streams, Open(s) PROVE ServerInv'
    <2>1. OpenStreamsKeep
      BY <1>1, <1>6 DEF Open, OpenStreamsKeep
    <2> QED BY <1>6, <2>1, BindKeeps DEF Open
  <1>7. ASSUME NEW s \in Streams, RefuseStream(s) \/ Disconnect(s) PROVE ServerInv'
    BY <1>7, StreamsKeep DEF RefuseStream, Disconnect
  <1>8. ASSUME NEW s \in Streams, NEW chs \in SUBSET Channels, Start(s, chs) PROVE ServerInv'
    <2>1. CASE s \in gone
      BY <1>8, <2>1, StreamsKeep DEF Start
    <2>2. CASE s \notin gone
      BY <1>8, <2>2, SubscribeKeeps DEF Start
    <2> QED BY <2>1, <2>2
  <1>9. ASSUME NEW s \in Streams, End(s) PROVE ServerInv'
    BY <1>9, EndKeeps
  <1>10. CASE \/ \E ch \in Channels : PublishInMemory(ch) \/ PublishOnRedis(ch)
              \/ \E c \in Connections : Dispatch(c)
    <2>1. UNCHANGED <<pubVars, current, streams>>
      BY <1>10 DEF PublishInMemory, PublishOnRedis, Dispatch
    <2> QED BY <1>10, <2>1, EventsKeep
  <1> QED BY <1>2, <1>3, <1>4, <1>5, <1>6, <1>7, <1>8, <1>9, <1>10 DEF ServerNext

\* The inductive invariant holds throughout.
THEOREM ServerInvariance == ServerSpec => []ServerInv
  BY InitServer, StepServer, PTL DEF ServerSpec

\* Every variable of the server's side keeps its type.
THEOREM ServerTypeCorrect == ServerSpec => []ServerTypeOK
  BY ServerInvariance, PTL DEF ServerInv

\* The callbacks of the publisher in use are the open streams, in any order of
\* opening, binding and disconnecting.
THEOREM NoStreamIsLeft == ServerSpec => []HandlersAreStreams
  BY ServerInvariance, PTL DEF ServerInv

\* What somebody listens to is on the wire or about to be, or was refused.
THEOREM ListenersAreServed == ServerSpec => []ListenedIsCarried
  BY ServerInvariance, PTL DEF ServerInv

\* An event that is due at a stream is on its way there.
THEOREM EventsArrive == ServerSpec => []EventsReachTheirStreams
  BY ServerInvariance, PTL DEF ServerInv
=============================================================================
