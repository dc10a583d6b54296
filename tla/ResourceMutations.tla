------------------------- MODULE ResourceMutations -------------------------
(***************************************************************************)
(* The server's mutations of a resource's rows, from several requests at   *)
(* once: create, update and delete of makeActions (the JSON API and the    *)
(* forms), the inline edit, the built-in bulk delete, the restore of a     *)
(* soft-deleted row, the import of a file, and the application's own       *)
(* actions: on a row (of the table's menu or of the drawer), on a          *)
(* selection, and of a dashboard.  Each reads its rows, writes through the *)
(* adapter, and after the commit audits and announces what it did.         *)
(*                                                                         *)
(* Nothing guards a row between a request's read and its write, the        *)
(* database may fail at every call, with or without effect, and so may the *)
(* audit sink and the publisher.  An audit sink and realtime are           *)
(* configured.  Values and tenant scopes are not modelled: a row outside   *)
(* the caller's scope is absent to every call of that caller alike.        *)
(***************************************************************************)
EXTENDS Integers

CONSTANTS Requests,
          Rows,       \* row keys
          Adapters,   \* kinds of adapter, see AllAdapters
          MaxFaults   \* bound on failing calls

\* The adapters of the repository: Drizzle's dialects, with SQLite's drivers that
\* answer at once (better-sqlite3, which its tests use) apart from those that
\* promise to, and Prisma without and with a tenant scope; transacts: the adapter
\* offers transaction(); soft: the resource's delete stamps the row.
Sqlite == {"sqlite", "syncSqlite"}
Drizzle == {"pg", "mysql"} \cup Sqlite
AllAdapters ==
  {a \in [driver : Drizzle \cup {"prisma", "prismaScoped"}, transacts : BOOLEAN,
          soft : BOOLEAN] : a.driver \in Drizzle => a.transacts}

ASSUME AdaptersAssumption == Adapters \subseteq AllAdapters

VARIABLES
  adapter,
  table,      \* the rows: absent, live or stamped as deleted
  kind,       \* what a request asks for
  targets,    \* and for which rows
  pc, pending,
  staged,     \* rows that an open transaction deletes
  acked,      \* rows whose write was answered
  trail,      \* rows that the request's audit entries name
  told,       \* requests whose mutation was published
  did,        \* history: rows that a request's committed writes changed
  troubled,   \* history: requests to which the database failed
  muted,      \* history: requests to which the sink or an effect failed
  faults

request == <<kind, targets>>
effects == <<trail, told, muted>>
vars == <<adapter, table, request, pc, pending, staged, acked, did, effects,
          troubled, faults>>

\* "action" is a row's or a drawer's, "bulkAction" a selection's, which are read
\* first; of a dashboard's, targets are the rows it may change.
Actions == {"action", "bulkAction", "dashboardAction"}
Kinds == Actions \cup {"create", "update", "inline", "delete", "bulk", "restore", "import"}
Reading == Kinds \ {"create", "import", "dashboardAction"}
Several == {"bulk", "import", "bulkAction"}
Answers == {"ok", "refused", "failed"}

TypeOK ==
  /\ adapter \in Adapters
  /\ table \in [Rows -> {"absent", "live", "stamped"}]
  /\ kind \in [Requests -> Kinds \cup {"none"}]
  /\ pc \in [Requests -> {"idle", "read", "write", "orphan", "readBack", "commit",
                          "audit", "effects"}
                         \cup Answers]
  /\ \A f \in {targets, pending, staged, acked, trail, did} : f \in [Requests -> SUBSET Rows]
  /\ \A s \in {told, troubled, muted} : s \subseteq Requests
  /\ \A q \in Requests : staged[q] # {} => pc[q] \in {"write", "commit"} /\ adapter.transacts
  /\ faults \in 0..MaxFaults

Init ==
  /\ adapter \in Adapters
  /\ table \in [Rows -> {"absent", "live"}]
  /\ kind = [q \in Requests |-> "none"]
  /\ pc = [q \in Requests |-> "idle"]
  /\ LET none == [q \in Requests |-> {}] IN
       /\ targets = none /\ pending = none /\ staged = none /\ acked = none
       /\ trail = none /\ did = none
  /\ told = {} /\ troubled = {} /\ muted = {}
  /\ faults = 0

-----------------------------------------------------------------------------
Goto(q, place) == pc' = [pc EXCEPT ![q] = place]

NoFault == UNCHANGED <<troubled, faults>>

\* The database rejects a call, or its answer is lost.
DatabaseFails(q) ==
  /\ faults < MaxFaults
  /\ faults' = faults + 1
  /\ troubled' = troubled \cup {q}

-----------------------------------------------------------------------------
(* Before the write *)

Arrive(q) ==
  /\ pc[q] = "idle"
  /\ \E k \in Kinds, rs \in SUBSET Rows \ {{}} :
       /\ k \notin Several => \E r \in Rows : rs = {r}
       /\ k = "restore" => adapter.soft
       /\ kind' = [kind EXCEPT ![q] = k]
       /\ targets' = [targets EXCEPT ![q] = rs]
       /\ pending' = [pending EXCEPT ![q] = rs]
       /\ Goto(q, IF k \in Reading THEN "read" ELSE "write")
  /\ NoFault
  /\ UNCHANGED <<adapter, table, staged, acked, did, effects>>

\* The guards refuse the caller, or the input is invalid: after the read for
\* requests whose input is judged against the row, before it for the others.
\* The row of a row action may also hide or disable it.
Refuse(q) ==
  /\ \/ pc[q] = "read"
     \/ /\ pc[q] = "write" /\ pending[q] = targets[q]
        /\ kind[q] \notin {"delete", "bulk", "bulkAction", "restore"}
  /\ Goto(q, "refused")
  /\ NoFault
  /\ UNCHANGED <<adapter, table, request, pending, staged, acked, did, effects>>

\* Faulty: writes whatever the read found.
ReadUnchecked(q, r) ==
  IF pending[q] = {r}
  THEN /\ Goto(q, "write")
       /\ pending' = [pending EXCEPT ![q] = targets[q]]
  ELSE /\ pending' = [pending EXCEPT ![q] = @ \ {r}]
       /\ UNCHANGED pc

\* A missing row is a 404; a stamped one is found, the read asks for no
\* soft-delete filter.
Found(q, r) ==
  IF table[r] = "absent"
  THEN Goto(q, "refused") /\ UNCHANGED pending
  ELSE IF pending[q] = {r}
  THEN /\ Goto(q, "write")
       /\ pending' = [pending EXCEPT ![q] = targets[q]]
  ELSE /\ pending' = [pending EXCEPT ![q] = @ \ {r}]
       /\ UNCHANGED pc

\* adapter.get, for the rows of a selection in any order.
Read(q) ==
  /\ pc[q] = "read"
  /\ \/ NoFault /\ \E r \in pending[q] : Found(q, r)
     \/ DatabaseFails(q) /\ Goto(q, "failed") /\ UNCHANGED pending
  /\ UNCHANGED <<adapter, table, request, staged, acked, did, effects>>

-----------------------------------------------------------------------------
(* The write *)

\* A batch is handed to the adapter's transaction() as an asynchronous callback.
\* better-sqlite3 refuses one that returns a promise: it rolls back, with nothing
\* done yet, and throws.
Refuses(q) == kind[q] = "bulk" /\ adapter.transacts /\ adapter.driver = "syncSqlite"
InTransaction(q) == kind[q] = "bulk" /\ adapter.transacts /\ ~Refuses(q)

\* A row deleted in an open transaction makes every other writer wait.
Free(q, r) == \A d \in Requests \ {q} : r \notin staged[d]

\* What the request's write makes of a row it matches.
Written(q, r) ==
  CASE kind[q] \in {"delete", "bulk"}              -> IF adapter.soft THEN "stamped" ELSE "absent"
    [] kind[q] \in {"restore", "create", "import"} -> "live"
    [] kind[q] \in {"update", "inline"}            -> table[r]

\* An insert needs a free key, every other write an existing row.
Matches(q, r) == (table[r] = "absent") <=> (kind[q] \in {"create", "import"})

\* Faulty: the batch deletes through config.adapter.db, not the transaction.
TakeEffectAtOnce(q, r) ==
  IF ~Matches(q, r) THEN UNCHANGED <<table, did, staged>>
  ELSE /\ table' = [table EXCEPT ![r] = Written(q, r)]
       /\ did' = [did EXCEPT ![q] = @ \cup {r}]
       /\ UNCHANGED staged

TakeEffect(q, r) ==
  IF ~Matches(q, r) THEN UNCHANGED <<table, did, staged>>
  ELSE IF InTransaction(q)
  THEN staged' = [staged EXCEPT ![q] = @ \cup {r}] /\ UNCHANGED <<table, did>>
  ELSE /\ table' = [table EXCEPT ![r] = Written(q, r)]
       /\ did' = [did EXCEPT ![q] = @ \cup {r}]
       /\ UNCHANGED staged

\* update() without RETURNING selects the row; Prisma's updateMany has told
\* whether it matched one.
ReadsBack(q, r) ==
  \/ adapter.driver \in {"mysql"} \cup Sqlite
  \/ adapter.driver = "prismaScoped" /\ Matches(q, r)

\* A write that returned: the next row, the read-back, COMMIT, or the audit.
Returned(q, r) ==
  /\ acked' = [acked EXCEPT ![q] = @ \cup {r}]
  /\ pending' = [pending EXCEPT ![q] = @ \ {r}]
  /\ Goto(q, CASE kind[q] \in {"update", "inline"} /\ ReadsBack(q, r) -> "readBack"
               [] kind[q] = "update" /\ ~ReadsBack(q, r) ->
                    IF Matches(q, r) THEN "audit" ELSE "refused"
               [] kind[q] = "bulk" /\ pending[q] # {r} -> "write"
               [] kind[q] = "bulk" /\ pending[q] = {r} ->
                    IF InTransaction(q) THEN "commit" ELSE "audit"
               [] OTHER -> "audit")

\* A write that threw: an import notes the row and goes on with the next.
Threw(q, r) ==
  /\ pending' = [pending EXCEPT ![q] = @ \ {r}]
  /\ Goto(q, IF kind[q] # "import" THEN "failed"
             ELSE IF pending[q] # {r} THEN "write"
             ELSE IF acked[q] # {} THEN "effects" ELSE "ok")
  /\ UNCHANGED acked

\* Inserts throw on a taken key, Prisma's unscoped writes on a missing row; the
\* others match no row and say nothing.
Throws(q, r) ==
  ~Matches(q, r) /\ (kind[q] \in {"create", "import"} \/ adapter.driver = "prisma")

\* On MySQL, Drizzle's insert of a row whose key the database makes up throws
\* after it took effect.
ThrowsAfterInsert(q) == kind[q] \in {"create", "import"} /\ adapter.driver = "mysql"

\* The transaction ends: what it had staged is committed or forgotten.
Rollback(q) == staged' = [staged EXCEPT ![q] = {}]

Write(q, r) ==
  /\ pc[q] = "write" /\ kind[q] \notin Actions /\ ~Refuses(q)
  /\ r \in pending[q] /\ Free(q, r)
  /\ \/ /\ NoFault /\ ~Throws(q, r)
        /\ TakeEffect(q, r) /\ Returned(q, r)
     \/ /\ NoFault /\ Throws(q, r)
        /\ Rollback(q) /\ UNCHANGED <<table, did>> /\ Threw(q, r)
     \/ /\ NoFault /\ ThrowsAfterInsert(q) /\ ~Throws(q, r)
        /\ TakeEffect(q, r) /\ Threw(q, r)
     \/ /\ DatabaseFails(q) /\ Rollback(q) /\ UNCHANGED <<table, did>> /\ Threw(q, r)
     \/ /\ DatabaseFails(q) /\ ~InTransaction(q)
        /\ TakeEffect(q, r) /\ Threw(q, r)
  /\ UNCHANGED <<adapter, request, effects>>

\* The request is answered with the driver's error, but the callback goes on ...
RefuseBatch(q) ==
  /\ pc[q] = "write" /\ Refuses(q)
  /\ \/ NoFault /\ Goto(q, "orphan")
     \/ DatabaseFails(q) /\ Goto(q, "failed")
  /\ UNCHANGED <<adapter, table, request, pending, staged, acked, did, effects>>

\* ... deleting row by row, each at once, till it is done or a delete throws, which
\* nobody hears.
DeleteOrphaned(q, r) ==
  /\ pc[q] = "orphan" /\ r \in pending[q] /\ Free(q, r)
  /\ pending' = [pending EXCEPT ![q] = @ \ {r}]
  /\ \/ /\ NoFault /\ TakeEffect(q, r)
        /\ Goto(q, IF pending[q] = {r} THEN "failed" ELSE "orphan")
     \/ /\ DatabaseFails(q) /\ Goto(q, "failed")
        /\ TakeEffect(q, r) \/ UNCHANGED <<table, did, staged>>
  /\ UNCHANGED <<adapter, request, acked, effects>>

\* The server breaks a deadlock of two batches that wait for each other's rows.
LockVictim(q, r) ==
  /\ pc[q] = "write" /\ staged[q] # {} /\ r \in pending[q] /\ ~Free(q, r)
  /\ Rollback(q)
  /\ Goto(q, "failed")
  /\ NoFault
  /\ UNCHANGED <<adapter, table, request, pending, acked, did, effects>>

Commit(q) ==
  /\ pc[q] = "commit"
  /\ LET committed ==
           /\ table' = [r \in Rows |-> IF r \in staged[q] THEN Written(q, r) ELSE table[r]]
           /\ did' = [did EXCEPT ![q] = @ \cup staged[q]]
     IN \/ NoFault /\ committed /\ Goto(q, "audit")
        \/ DatabaseFails(q) /\ Goto(q, "failed") /\ (committed \/ UNCHANGED <<table, did>>)
  /\ Rollback(q)
  /\ UNCHANGED <<adapter, request, pending, acked, effects>>

\* update() answers null when it selects nothing, and its caller with a 404;
\* the inline edit does not look at the answer.
ReadBack(q) ==
  /\ pc[q] = "readBack"
  /\ \/ /\ NoFault
        /\ Goto(q, IF kind[q] = "update" /\ \E r \in targets[q] : table[r] = "absent"
                   THEN "refused" ELSE "audit")
     \/ DatabaseFails(q) /\ Goto(q, "failed")
  /\ UNCHANGED <<adapter, table, request, pending, staged, acked, did, effects>>

\* The audit entry of an action names the whole selection, of a dashboard's no row.
Named(q) == IF kind[q] = "dashboardAction" THEN {} ELSE targets[q]

\* An application's action: it changes some of its rows, and succeeds, declines,
\* throws, or returns an output that does not validate.
Run(q) ==
  /\ pc[q] = "write" /\ kind[q] \in Actions
  /\ \E rs \in SUBSET {r \in targets[q] : Free(q, r) /\ Matches(q, r)} :
       did' = [did EXCEPT ![q] = rs]
  /\ acked' = [acked EXCEPT ![q] = Named(q)]
  /\ \E place \in {"audit", "refused", "failed"} : Goto(q, place)
  /\ NoFault
  /\ UNCHANGED <<adapter, table, request, pending, staged, effects>>

-----------------------------------------------------------------------------
(* After the commit *)

\* A failing effect is logged.
EffectFails(q) ==
  /\ faults < MaxFaults
  /\ faults' = faults + 1
  /\ muted' = muted \cup {q}
  /\ UNCHANGED troubled

\* Faulty: a sink that throws fails the request.
AuditOrThrow(q) ==
  /\ pc[q] = "audit"
  /\ \/ /\ trail' = [trail EXCEPT ![q] = @ \cup acked[q]]
        /\ Goto(q, IF pending[q] # {} THEN "write" ELSE "effects")
        /\ NoFault /\ UNCHANGED muted
     \/ EffectFails(q) /\ Goto(q, "failed") /\ UNCHANGED trail
  /\ UNCHANGED <<adapter, table, request, pending, staged, acked, did, told>>

\* emitAudit: one entry for what was answered; an import audits row by row.
Audit(q) ==
  /\ pc[q] = "audit"
  /\ \/ /\ trail' = [trail EXCEPT ![q] = @ \cup acked[q]]
        /\ NoFault /\ UNCHANGED muted
     \/ EffectFails(q) /\ UNCHANGED trail
  /\ Goto(q, IF kind[q] = "import" /\ pending[q] # {} THEN "write" ELSE "effects")
  /\ UNCHANGED <<adapter, table, request, pending, staged, acked, did, told>>

\* Faulty: an import with failed rows is not announced.
PublishesComplete(q) ==
  CASE kind[q] \in Actions -> BOOLEAN
    [] kind[q] = "bulk"    -> {FALSE}
    [] kind[q] = "import"  -> {acked[q] = targets[q]}
    [] OTHER               -> {TRUE}

\* The built-in bulk delete returns no `refresh`, and an action what it likes.
Publishes(q) ==
  CASE kind[q] \in Actions -> BOOLEAN
    [] kind[q] = "bulk"    -> {FALSE}
    [] OTHER               -> {TRUE}

\* runPostCommitEffects, applyActionResult, and the notification of an import,
\* whose failing revalidation also skips the publication.
Effects(q) ==
  /\ pc[q] = "effects"
  /\ \/ /\ \E p \in Publishes(q) : told' = told \cup (IF p THEN {q} ELSE {})
        /\ NoFault /\ UNCHANGED muted
     \/ EffectFails(q) /\ UNCHANGED told
  /\ Goto(q, "ok")
  /\ UNCHANGED <<adapter, table, request, pending, staged, acked, did, trail>>

Next ==
  \E q \in Requests :
    \/ Arrive(q) \/ Refuse(q) \/ Read(q) \/ Commit(q) \/ ReadBack(q)
    \/ RefuseBatch(q)
    \/ \E r \in Rows : Write(q, r) \/ LockVictim(q, r) \/ DeleteOrphaned(q, r)
    \/ Run(q) \/ Audit(q) \/ Effects(q)

Spec == Init /\ [][Next]_vars

-----------------------------------------------------------------------------
(* Properties.  What an application's action does is its own affair. *)

Removed(r, q) ==
  \E d \in Requests \ {q} : kind[d] \in {"delete", "bulk"} /\ r \in did[d]

\* "A bulk delete is all or nothing": where the adapter runs it in a transaction,
\* whatever fails, a batch that deleted a row leaves no other row of its selection
\* undeleted.
BulkIsAllOrNothing ==
  \A q \in Requests : InTransaction(q) /\ did[q] # {} =>
    \A r \in targets[q] : r \in did[q] \/ Removed(r, q)

\* "Post-commit audit, realtime or revalidation failures do not turn a
\* committed mutation into a false failure": a caller told that nothing was done
\* is told the truth, unless the database itself failed, a batch ran outside a
\* transaction (the adapter has none, or its driver refused the callback), MySQL
\* was to make the key of an insert, or somebody deleted the row straight after.
FailureIsTrue ==
  \A q \in Requests :
    pc[q] \in {"refused", "failed"} /\ kind[q] \notin Actions =>
      \/ q \in troubled
      \/ kind[q] = "bulk" /\ ~InTransaction(q)
      \/ ThrowsAfterInsert(q)
      \/ \A r \in did[q] : Removed(r, q)

\* The test of the batch: "rolls the batch back when one row fails", answered with
\* an error and nothing deleted: with any adapter that offers a transaction a batch
\* that was answered with an error, while the database did not fail, deleted nothing.
FailedBatchDeletedNothing ==
  \A q \in Requests :
    kind[q] = "bulk" /\ adapter.transacts /\ pc[q] \in {"orphan", "failed"} =>
      q \in troubled \/ did[q] = {}

\* The trail names no row that its request left alone, except one that a
\* concurrent request deleted between the read and the write.
PhantomsAreRaces ==
  \A q \in Requests : kind[q] \notin Actions =>
    \A r \in trail[q] \ did[q] : Removed(r, q)

\* No change is silent: a mutation answered with ok is in the trail and was
\* published, also when rows of an import failed, unless the sink or an effect
\* failed; the built-in bulk delete is not published.
NothingIsSilent ==
  \A q \in Requests : pc[q] = "ok" /\ q \notin muted /\ acked[q] # {} =>
    /\ acked[q] = trail[q]
    /\ kind[q] \notin Actions \cup {"bulk"} => q \in told

\* What a caller is told is what was done: a failure changed nothing, a change that
\* is answered with ok is in the trail and heard.
AnswersAreTrue == FailureIsTrue /\ NothingIsSilent
=============================================================================
