-------------------------- MODULE AdminRequestsProofs --------------------------
(***************************************************************************)
(* A request is charged once, and what it shows does not depend on a field *)
(* the caller could not read, for any configuration, database, requests,   *)
(* reads, keys and retries, and any policies and writes meanwhile.         *)
(***************************************************************************)
EXTENDS AdminRequests, SequenceTheorems, WellFoundedInduction, TLAPS

(* Reading.  The query is the reason: once resolved, every field it        *)
(* selects, filters, sorts or searches by was readable when it was, and an *)
(* answer is a function of the cells its query names.                      *)

\* The fields a query names.
QueryFields(q) ==
  q.select \cup q.later \cup q.search \cup {f.field : f \in q.filters}
    \cup (IF q.sort = NoField THEN {} ELSE {q.sort})

Query == [id : Rows \cup {NoRow}, select : SUBSET Fields, filters : SUBSET Filter,
          sort : Fields \cup {NoField}, search : SUBSET Fields,
          text : Values \cup {NoText}, hides : BOOLEAN, scoped : BOOLEAN,
          later : SUBSET Fields, void : BOOLEAN]

ReadTypes ==
  /\ config \in Config /\ db \in Database
  /\ readable \subseteq Fields /\ everReadable \subseteq Fields
  /\ req \in Request

Resolved == pc \in {"ready", "projecting", "tabbing"}

\* What the policies allow now, they have allowed during this request.
ReadableIsRemembered == pc # "idle" => readable \subseteq everReadable

QueryIsReadable ==
  Resolved => query \in Query /\ QueryFields(query) \subseteq everReadable

QueryIsScoped ==
  Resolved =>
    /\ config.scope = "predicate" => query.scoped
    /\ config.softDelete /\ req.surface \in {"listPage", "jsonList", "related"}
         /\ ~req.deleted => query.hides

ReadInv == ReadTypes /\ ReadableIsRemembered /\ QueryIsReadable /\ QueryIsScoped

-----------------------------------------------------------------------------
LEMMA OtherCells ==
  ASSUME NEW d \in Database, NEW r \in Rows, NEW f \in Fields, NEW v \in Values,
         NEW s \in Rows, NEW g \in Fields, g # f
  PROVE  [d EXCEPT ![r][f] = v][s][g] = d[s][g]
  BY DEF Database

\* An answer is a function of the cells its query names.
LEMMA AnswerReadsItsFields ==
  ASSUME NEW d \in Database, NEW r \in Rows, NEW f \in Fields, NEW v \in Values,
         NEW q \in Query, f \notin QueryFields(q), q.hides => f # Gone
  PROVE  Answer(q, [d EXCEPT ![r][f] = v]) = Answer(q, d)
  <1> DEFINE e == [d EXCEPT ![r][f] = v]
  <1>1. \A s \in Rows, g \in Fields : g # f => e[s][g] = d[s][g]
    BY OtherCells
  <1> HIDE DEF e
  <1>2. \A s \in Rows : Matches(q, s, e) <=> Matches(q, s, d)
    <2> TAKE s \in Rows
    <2>1. \A t \in q.filters : e[s][t.field] = d[s][t.field]
      BY <1>1 DEF QueryFields, Query, Filter
    <2>2. \A g \in q.search : e[s][g] = d[s][g]
      BY <1>1 DEF QueryFields, Query
    <2>3. q.hides => e[s][Gone] = d[s][Gone]
      BY <1>1, ReadAssumption
    <2> QED BY <2>1, <2>2, <2>3 DEF Matches
  <1>3. Found(q, e) = Found(q, d)
    BY <1>2 DEF Found
  <1>4. \A s \in Rows : [g \in q.select |-> e[s][g]] = [g \in q.select |-> d[s][g]]
    BY <1>1 DEF QueryFields, Query
  <1>5. [s \in Found(q, e) |-> [g \in q.select |-> e[s][g]]]
          = [s \in Found(q, d) |-> [g \in q.select |-> d[s][g]]]
    BY <1>3, <1>4 DEF Found
  <1>6. q.sort # NoField => \A s \in Rows : e[s][q.sort] = d[s][q.sort]
    BY <1>1 DEF QueryFields, Query
  <1>7. Answer(q, e).before = Answer(q, d).before
    BY <1>3, <1>6 DEF Answer, Found
  <1> QED BY <1>3, <1>5, <1>7 DEF Answer, e

-----------------------------------------------------------------------------
\* Each of the three ways to build a query names allowed fields only, carries the
\* scope, and hides deleted rows where a list does.
LEMMA QueryOfIsReadable ==
  ASSUME ReadTypes, NEW allowed \in SUBSET Fields
  PROVE  /\ QueryOf(req, allowed) \in Query
         /\ QueryFields(QueryOf(req, allowed)) \subseteq allowed
         /\ config.scope = "predicate" => QueryOf(req, allowed).scoped
         /\ config.softDelete /\ req.surface \in {"listPage", "jsonList", "related"}
              /\ ~req.deleted => QueryOf(req, allowed).hides
  <1> DEFINE q == QueryOf(req, allowed)
             Good(x) == /\ x \in Query /\ QueryFields(x) \subseteq allowed
                        /\ config.scope = "predicate" => x.scoped
                        /\ config.softDelete /\ req.surface \in {"listPage", "jsonList", "related"}
                             /\ ~req.deleted => x.hides
  <1>1. CASE req.surface = "count" /\ CountsDirectly
    <2>1. q = DirectCount(req, allowed)
      BY <1>1 DEF QueryOf
    <2>2. DirectCount(req, allowed) \in Query
      BY DEF DirectCount, Query, ReadTypes, Config, Request, Filter
    <2>3. QueryFields(DirectCount(req, allowed)) \subseteq allowed
      BY DEF DirectCount, QueryFields
    <2> QED BY <1>1, <2>1, <2>2, <2>3 DEF CountsDirectly, applyScope
  <1>2. CASE req.surface \in Related /\ ~(req.surface = "count" /\ CountsDirectly)
    <2>1. q = RelatedQuery(req, allowed)
      BY <1>2 DEF QueryOf
    <2>2. RelatedQuery(req, allowed) \in Query
      BY ReadAssumption DEF RelatedQuery, RelatedSort, applyScope, Query, ReadTypes, Config, Request, Filter
    <2>3. QueryFields(RelatedQuery(req, allowed)) \subseteq allowed
      BY DEF RelatedQuery, RelatedSort, QueryFields
    <2>4. /\ config.scope = "predicate" => RelatedQuery(req, allowed).scoped
          /\ config.softDelete /\ req.surface = "related" => RelatedQuery(req, allowed).hides
      BY DEF RelatedQuery, applyScope
    <2> QED BY <1>2, <2>1, <2>2, <2>3, <2>4 DEF Related
  <1>3. CASE req.surface \notin Related
    <2>1. q = OwnQuery(req, allowed)
      BY <1>3 DEF QueryOf, Related
    <2>2. OwnQuery(req, allowed) \in Query
      BY ReadAssumption DEF OwnQuery, SortOf, Kept, applyScope, Query, ReadTypes, Config, Request, Filter
    <2>3. QueryFields(OwnQuery(req, allowed)) \subseteq allowed
      BY DEF OwnQuery, SortOf, Kept, QueryFields
    <2>4. /\ config.scope = "predicate" => OwnQuery(req, allowed).scoped
          /\ config.softDelete /\ req.surface \in Listing /\ ~req.deleted
               => OwnQuery(req, allowed).hides
      BY DEF OwnQuery, applyScope
    <2> QED BY <1>3, <2>1, <2>2, <2>3, <2>4 DEF Related, Listing
  <1> QED BY <1>1, <1>2, <1>3

LEMMA InitRead == Init => ReadInv
  BY ReadAssumption
  DEF Init, NoRequest, ReadInv, ReadTypes, ReadableIsRemembered, QueryIsReadable,
      QueryIsScoped, Resolved, Request, Surfaces

LEMMA StepRead == ReadInv /\ [Next]_vars => ReadInv'
  <1> SUFFICES ASSUME ReadInv, [Next]_vars PROVE ReadInv'
    OBVIOUS
  <1> USE ReadAssumption
      DEF ReadInv, ReadTypes, ReadableIsRemembered, QueryIsReadable, QueryIsScoped, Resolved
  <1>1. ASSUME NEW r \in Requests, Ask(r) PROVE ReadInv'
    BY <1>1 DEF Ask
  <1>2. CASE Authorize
    BY <1>2 DEF Authorize
  <1>3. CASE Sift
    <2>1. req' \in Request
      BY <1>3 DEF Sift, Kept, Request
    <2> QED BY <1>3, <2>1 DEF Sift
  <1>4. CASE Resolve
    BY <1>4, QueryOfIsReadable DEF Resolve
  <1>5. CASE Read
    BY <1>5 DEF Read
  <1>6. CASE Project
    BY <1>6 DEF Project
  <1>7. CASE ReadTab
    BY <1>7 DEF ReadTab
  <1>8. CASE End
    <2>1. NoRequest \in Request
      BY DEF NoRequest, Request, Surfaces
    <2> QED BY <1>8, <2>1 DEF End
  <1>9. ASSUME NEW f \in Dynamic, ChangePolicy(f) PROVE ReadInv'
    BY <1>9 DEF ChangePolicy
  <1>10. ASSUME NEW r \in Rows, NEW f \in Fields, NEW v \in Values, Write(r, f, v)
         PROVE ReadInv'
    <2>1. db' \in Database
      BY <1>10 DEF Write, Database
    <2> QED BY <1>10, <2>1 DEF Write
  <1>11. CASE UNCHANGED vars
    BY <1>11 DEF vars
  <1> QED BY <1>1, <1>2, <1>3, <1>4, <1>5, <1>6, <1>7, <1>8, <1>9, <1>10, <1>11 DEF Next

-----------------------------------------------------------------------------
\* Reading, among the pieces of a request: the others leave it alone.
LEMMA ReadInvariance == RequestsSpec => []ReadInv
  <1>1. RequestsInit => ReadInv
    BY InitRead DEF RequestsInit
  <1>2. ReadInv /\ [RequestsNext]_requests => ReadInv'
    BY StepRead DEF RequestsNext, Admitting, requests
  <1> QED BY <1>1, <1>2, PTL DEF RequestsSpec

\* No surface's answer depends on what a field holds that the caller could not read
\* at any moment of the request.
THEOREM UnreadableNeverTells == RequestsSpec => []UnreadableHasNoSay
  <1>1. ReadInv => UnreadableHasNoSay
    <2> SUFFICES ASSUME ReadInv, pc \in {"ready", "tabbing"},
                        NEW q, q = IF pc = "ready" THEN query ELSE TabQuery,
                        NEW r \in Rows, NEW v \in Values,
                        NEW f \in Fields \ (everReadable \cup (IF q.hides THEN {Gone} ELSE {}))
                 PROVE  Answer(q, [db EXCEPT ![r][f] = v]) = Answer(q, db)
      BY DEF UnreadableHasNoSay
    <2>1. query \in Query /\ QueryFields(query) \subseteq everReadable
      BY DEF ReadInv, QueryIsReadable, Resolved
    <2>2. TabQuery \in Query /\ QueryFields(TabQuery) \subseteq everReadable
      BY <2>1 DEF TabQuery, Query, QueryFields
    <2>3. q \in Query /\ f \notin QueryFields(q) /\ (q.hides => f # Gone)
      BY <2>1, <2>2
    <2> QED BY <2>3, AnswerReadsItsFields DEF ReadInv, ReadTypes
  <1> QED BY <1>1, ReadInvariance, PTL

\* Every row read is the caller's, and no list shows a deleted row unasked.
THEOREM OnlyTheCallersRows == RequestsSpec => []RowsAreTheCallers
  <1>1. ReadInv => RowsAreTheCallers
    BY DEF ReadInv, QueryIsScoped, Resolved, RowsAreTheCallers, Found, Matches
  <1> QED BY <1>1, ReadInvariance, PTL

\* A row of a list is found by its id wherever a record is opened, with the list's
\* fields and perhaps more.
LEMMA OpenedIsFound ==
  ASSUME readable \subseteq Fields, NEW l, l.surface = "listPage",
         NEW s \in {"drawer", "detail", "jsonGet"}, NEW r \in Rows,
         NEW o, o.surface = s, o.id = r,
         r \in Answer(QueryOf(l, readable), db).rows
  PROVE  /\ Allowed(l) => Allowed(o)
         /\ r \in Answer(QueryOf(o, readable), db).rows
         /\ DOMAIN Answer(QueryOf(l, readable), db).shown[r]
              \subseteq DOMAIN Answer(QueryOf(o, readable), db).shown[r]
  <1> DEFINE ql == QueryOf(l, readable)
             qo == QueryOf(o, readable)
  <1>1. ql = OwnQuery(l, readable) /\ qo = OwnQuery(o, readable)
    BY DEF QueryOf, Related
  <1>2. /\ qo.id = r /\ qo.filters = {} /\ qo.text = NoText /\ qo.hides = FALSE
        /\ qo.scoped = applyScope /\ qo.void = FALSE
        /\ qo.select = Projection(o) \cap readable
    BY <1>1 DEF OwnQuery, Listing
  <1>3. ql.scoped = applyScope /\ ql.select = Projection(l) \cap readable
    BY <1>1 DEF OwnQuery
  <1>4. r \in Found(ql, db)
    BY DEF Answer
  <1>5. r \in Found(qo, db)
    BY <1>2, <1>3, <1>4 DEF Found, Matches
  <1>6. Projection(l) \subseteq Projection(o)
    BY DEF Projection, declaredDrawerRowFields, declaredDetailBaseFields, declaredDetailPolicyFields
  <1>7. Answer(ql, db).shown[r] = [f \in ql.select |-> db[r][f]]
        /\ Answer(qo, db).shown[r] = [f \in qo.select |-> db[r][f]]
    BY <1>4, <1>5 DEF Answer
  <1>8. DOMAIN Answer(ql, db).shown[r] = ql.select /\ DOMAIN Answer(qo, db).shown[r] = qo.select
    BY <1>7
  <1>9. Allowed(l) => Allowed(o)
    BY DEF Allowed
  <1>10. r \in Answer(qo, db).rows
    BY <1>5 DEF Answer
  <1> QED BY <1>2, <1>3, <1>6, <1>8, <1>9, <1>10

\* The JSON API asks the adapter what the page asks under the same controls.
LEMMA ListsAskTheSame ==
  ASSUME NEW r \in Requests, r.surface = "jsonList", r.sort = NoField,
         NEW p, p = [r EXCEPT !.surface = "listPage"]
  PROVE  QueryOf(r, readable) = QueryOf(p, readable)
  <1>1. r \in Request
    BY ReadAssumption
  <1>2. /\ p.surface = "listPage" /\ p.id = r.id /\ p.filters = r.filters /\ p.sort = NoField
        /\ p.text = r.text /\ p.deleted = r.deleted
    BY <1>1 DEF Request
  <1>3. ~r.deleted
    BY RequestsAssumption
  <1>4. QueryOf(r, readable) = OwnQuery(r, readable) /\ QueryOf(p, readable) = OwnQuery(p, readable)
    BY <1>2 DEF QueryOf, Related
  <1>5. /\ Projection(r) = Projection(p) /\ Kept(r, readable) = Kept(p, readable)
        /\ SortOf(r, readable) = SortOf(p, readable)
    BY <1>2 DEF Projection, Kept, SortOf
  <1>6. OwnQuery(r, readable) = OwnQuery(p, readable)
    BY <1>2, <1>3, <1>5 DEF OwnQuery, Listing
  <1> QED BY <1>4, <1>6

\* A count by the adapter is a count by a related read that finds the same rows.
LEMMA CountsAgree ==
  ASSUME NEW r \in Requests, r.surface = "count", \A f \in r.filters : f.field # Gone
  PROVE  Found(QueryOf(r, readable), db) = Found(RelatedQuery(r, readable), db)
  <1>1. r.text = NoText
    BY RequestsAssumption
  <1>2. CASE CountsDirectly
    <2> DEFINE q == DirectCount(r, readable)
               n == RelatedQuery(r, readable)
    <2>1. QueryOf(r, readable) = q /\ ~applyScope
      BY <1>2 DEF QueryOf, CountsDirectly
    <2>2. /\ q.id = NoRow /\ q.text = NoText /\ q.scoped = FALSE
          /\ q.filters = {f \in r.filters : f.field \in readable}
          /\ q.hides <=> config.softDelete
          /\ q.void <=> \E f \in r.filters : f.field \notin readable
      BY DEF DirectCount
    <2>3. /\ n.id = NoRow /\ n.text = NoText /\ n.scoped = applyScope
          /\ n.filters = {f \in r.filters : f.field \in readable}
          /\ n.hides <=> config.softDelete
          /\ n.void <=> \E f \in r.filters : f.field \notin readable
      BY <1>1 DEF RelatedQuery
    <2>4. \A t \in Rows : Matches(q, t, db) <=> Matches(n, t, db)
      BY <2>1, <2>2, <2>3 DEF Matches
    <2> QED BY <2>1, <2>4 DEF Found
  <1>3. CASE ~CountsDirectly
    BY <1>3 DEF QueryOf, Related
  <1> QED BY <1>2, <1>3

LEMMA AgreementHolds == readable \subseteq Fields => SurfacesAgree
  <1> SUFFICES ASSUME readable \subseteq Fields PROVE SurfacesAgree
    OBVIOUS
  <1> DEFINE l == [NoRequest EXCEPT !.surface = "listPage", !.deleted = TRUE]
             openedAs(s, r) == [NoRequest EXCEPT !.surface = s, !.id = r]
             seen(r) == Answer(QueryOf(r, readable), db)
  <1>1. ASSUME Allowed(l), NEW r \in seen(l).rows, NEW s \in {"drawer", "detail", "jsonGet"}
        PROVE  /\ Allowed(openedAs(s, r))
               /\ r \in seen(openedAs(s, r)).rows
               /\ DOMAIN seen(l).shown[r] \subseteq DOMAIN seen(openedAs(s, r)).shown[r]
    <2> DEFINE o == openedAs(s, r)
    <2>1. r \in Rows
      BY DEF Answer, Found
    <2>2. /\ l.surface = "listPage" /\ o.surface = s /\ o.id = r
          /\ r \in Answer(QueryOf(l, readable), db).rows
      BY DEF NoRequest
    <2>3. s \in {"drawer", "detail", "jsonGet"}
      OBVIOUS
    <2> HIDE DEF l, o
    <2>4. /\ Allowed(l) => Allowed(o)
          /\ r \in Answer(QueryOf(o, readable), db).rows
          /\ DOMAIN Answer(QueryOf(l, readable), db).shown[r]
               \subseteq DOMAIN Answer(QueryOf(o, readable), db).shown[r]
      BY <2>1, <2>2, <2>3, OpenedIsFound
    <2>5. o = openedAs(s, r)
      BY DEF o
    <2> HIDE DEF openedAs
    <2> QED BY <1>1, <2>4, <2>5
  <1>2. ASSUME Allowed(l), NEW r \in Requests, r.surface = "jsonList", r.sort = NoField
        PROVE  Allowed(r) /\ seen(r) = seen([r EXCEPT !.surface = "listPage"])
    <2>1. Allowed(r)
      BY <1>2 DEF Allowed, NoRequest
    <2> QED BY <1>2, <2>1, ListsAskTheSame
  <1>3. ASSUME NEW r \in Requests, r.surface = "count", \A f \in r.filters : f.field # Gone
        PROVE  seen(r).rows = Found(RelatedQuery(r, readable), db)
    BY <1>3, CountsAgree DEF Answer
  <1> QED BY <1>1, <1>2, <1>3 DEF SurfacesAgree

\* Between requests one surface of a resource tells what the next one does: what the
\* list shows opens elsewhere, and lists and counts agree by whichever path.
THEOREM SurfacesTellTheSame == RequestsSpec => []SurfacesAgree
  <1>1. ReadInv => SurfacesAgree
    BY AgreementHolds DEF ReadInv, ReadTypes
  <1> QED BY <1>1, ReadInvariance, PTL

-----------------------------------------------------------------------------
(* Admission.  The memo is the reason: while a resolution runs the memo is *)
(* pending and some read waits for it, so nobody begins a second one and   *)
(* the slot is not given to another Request; once one has been charged the *)
(* memo is fulfilled and stays.                                            *)

AdmissionTypes ==
  /\ memo \in [Arrivals -> {"none", "pending", "ok"}]
  /\ step \in [Arrivals -> {"idle", "identity", "scope", "limit", "pexpire"}]
  /\ read \in [Arrivals -> [Reads -> {"out", "waiting", "ok", "failed"}]]
  /\ charged \in [Arrivals -> Nat]

\* A resolution is under way exactly while the memo is pending, and somebody waits.
PendingIsRunning ==
  \A r \in Arrivals :
    /\ step[r] # "idle" <=> memo[r] = "pending"
    /\ memo[r] = "pending" => \E c \in Reads : read[r][c] = "waiting"

\* Unless a failed PEXPIRE has counted it, only a fulfilled Request is charged, once.
ChargedOnFulfilment ==
  \A r \in Arrivals \ spoilt :
    charged[r] <= 1 /\ (memo[r] # "ok" => charged[r] = 0)

AdmissionInv == AdmissionTypes /\ PendingIsRunning /\ ChargedOnFulfilment

LEMMA InitAdmission == AdmissionInit => AdmissionInv
  BY DEF AdmissionInit, AdmissionInv, AdmissionTypes, PendingIsRunning, ChargedOnFulfilment

\* Whatever settles the promise of a request that was being resolved.
LEMMA FulfilKeeps ==
  ASSUME AdmissionInv, NEW r \in Arrivals, step[r] # "idle",
         Fulfil(r), charged' = [charged EXCEPT ![r] = @ + 1] \/ charged' = charged,
         spoilt' = spoilt
  PROVE  AdmissionInv'
  <1>1. AdmissionTypes'
    BY DEF AdmissionInv, AdmissionTypes, Fulfil, Settle
  <1>2. PendingIsRunning'
    BY DEF AdmissionInv, AdmissionTypes, PendingIsRunning, Fulfil, Settle
  <1>3. ChargedOnFulfilment'
    BY DEF AdmissionInv, AdmissionTypes, PendingIsRunning, ChargedOnFulfilment, Fulfil
  <1> QED BY <1>1, <1>2, <1>3 DEF AdmissionInv

LEMMA RejectKeeps ==
  ASSUME AdmissionInv, NEW r \in Arrivals, step[r] # "idle", Reject(r),
         \/ charged' = charged /\ spoilt' = spoilt
         \/ charged' = [charged EXCEPT ![r] = @ + 1] /\ spoilt' = spoilt \cup {r}
  PROVE  AdmissionInv'
  <1>1. AdmissionTypes'
    BY DEF AdmissionInv, AdmissionTypes, Reject, Settle
  <1>2. PendingIsRunning'
    BY DEF AdmissionInv, AdmissionTypes, PendingIsRunning, Reject, Settle
  <1>3. ChargedOnFulfilment'
    BY DEF AdmissionInv, AdmissionTypes, PendingIsRunning, ChargedOnFulfilment, Reject
  <1> QED BY <1>1, <1>2, <1>3 DEF AdmissionInv

LEMMA AskKeeps ==
  ASSUME AdmissionInv, NEW r \in Arrivals, NEW c \in Reads, AskContext(r, c)
  PROVE  AdmissionInv'
  <1> USE DEF AdmissionInv, AskContext, history
  <1>1. AdmissionTypes'
    BY DEF AdmissionTypes
  <1>2. PendingIsRunning'
    <2> SUFFICES ASSUME NEW q \in Arrivals
                 PROVE  /\ step'[q] # "idle" <=> memo'[q] = "pending"
                        /\ memo'[q] = "pending" => \E d \in Reads : read'[q][d] = "waiting"
      BY DEF PendingIsRunning
    <2>1. CASE q # r
      BY <2>1 DEF AdmissionTypes, PendingIsRunning
    <2>2. CASE q = r /\ memo[r] = "none"
      <3>1. read'[r][c] = "waiting"
        BY <2>2 DEF AdmissionTypes
      <3> QED BY <2>2, <3>1 DEF AdmissionTypes, PendingIsRunning
    <2>3. CASE q = r /\ memo[r] # "none"
      <3>1. memo[r] = "pending" => read'[r][c] = "waiting"
        BY <2>3 DEF AdmissionTypes
      <3> QED BY <2>3, <3>1 DEF AdmissionTypes, PendingIsRunning
    <2> QED BY <2>1, <2>2, <2>3
  <1>3. ChargedOnFulfilment'
    BY DEF AdmissionTypes, ChargedOnFulfilment
  <1> QED BY <1>1, <1>2, <1>3

LEMMA ProceedKeeps ==
  ASSUME AdmissionInv, NEW r \in Arrivals,
         NEW from \in {"identity", "scope"}, NEW to \in {"scope", "limit"},
         Proceed(r, from, to)
  PROVE  AdmissionInv'
  <1>1. CASE Reject(r)
    BY <1>1, RejectKeeps DEF Proceed, history
  <1>2. CASE step' = [step EXCEPT ![r] = to] /\ UNCHANGED <<memo, tries, rateKey, read>>
    BY <1>2 DEF AdmissionInv, AdmissionTypes, PendingIsRunning, ChargedOnFulfilment, Proceed, history
  <1> QED BY <1>1, <1>2 DEF Proceed

LEMMA AdvanceKeeps ==
  ASSUME AdmissionInv, NEW r \in Arrivals, Advance(r)
  PROVE  AdmissionInv'
  <1>1. CASE Identify(r)
    BY <1>1, ProceedKeeps DEF Identify
  <1>2. CASE ResolveScope(r)
    BY <1>2, ProceedKeeps DEF ResolveScope
  <1>3. CASE NoLimiter(r)
    BY <1>3, FulfilKeeps DEF NoLimiter, history
  <1>4. CASE CheckMemory(r)
    <2>1. CASE Admit(r)
      BY <1>4, <2>1, FulfilKeeps DEF CheckMemory, Admit
    <2>2. CASE Refuse(r)
      BY <1>4, <2>2, RejectKeeps DEF CheckMemory, Refuse, history
    <2> QED BY <1>4, <2>1, <2>2 DEF CheckMemory
  <1>5. CASE Incr(r)
    <2>1. CASE Admit(r)
      BY <1>5, <2>1, FulfilKeeps DEF Incr, Admit
    <2>2. CASE Refuse(r)
      BY <1>5, <2>2, RejectKeeps DEF Incr, Refuse, history
    <2>3. CASE step' = [step EXCEPT ![r] = "pexpire"]
               /\ UNCHANGED <<memo, tries, rateKey, read, history>>
      BY <1>5, <2>3 DEF Incr, AdmissionInv, AdmissionTypes, PendingIsRunning, ChargedOnFulfilment, history
    <2> QED BY <1>5, <2>1, <2>2, <2>3 DEF Incr
  <1>6. CASE IncrFails(r)
    BY <1>6, RejectKeeps DEF IncrFails
  <1>7. CASE PExpire(r)
    BY <1>7, FulfilKeeps DEF PExpire, Admit
  <1>8. CASE PExpireFails(r)
    BY <1>8, RejectKeeps DEF PExpireFails
  <1> QED BY <1>1, <1>2, <1>3, <1>4, <1>5, <1>6, <1>7, <1>8 DEF Advance

\* The slot of a request is free only when nothing runs for it.
LEMMA EndKeeps ==
  ASSUME AdmissionInv, NEW r \in Arrivals, Respond(r)
  PROVE  AdmissionInv'
  <1>1. memo[r] # "pending" /\ step[r] = "idle"
    BY DEF AdmissionInv, PendingIsRunning, Respond
  <1>2. AdmissionTypes'
    BY DEF AdmissionInv, AdmissionTypes, Respond
  <1>3. PendingIsRunning'
    BY <1>1 DEF AdmissionInv, AdmissionTypes, PendingIsRunning, Respond
  <1>4. ChargedOnFulfilment'
    BY DEF AdmissionInv, AdmissionTypes, ChargedOnFulfilment, Respond
  <1> QED BY <1>2, <1>3, <1>4 DEF AdmissionInv

LEMMA StepAdmission == AdmissionInv /\ [AdmissionNext]_admission => AdmissionInv'
  <1> SUFFICES ASSUME AdmissionInv, [AdmissionNext]_admission PROVE AdmissionInv'
    OBVIOUS
  <1>1. ASSUME NEW r \in Arrivals, Advance(r) PROVE AdmissionInv'
    BY <1>1, AdvanceKeeps
  <1>2. ASSUME NEW r \in Arrivals, Respond(r) PROVE AdmissionInv'
    BY <1>2, EndKeeps
  <1>3. ASSUME NEW r \in Arrivals, NEW c \in Reads, AskContext(r, c) PROVE AdmissionInv'
    BY <1>3, AskKeeps
  <1>4. CASE Tick
    BY <1>4 DEF Tick, request, AdmissionInv, AdmissionTypes, PendingIsRunning, ChargedOnFulfilment
  <1>5. CASE UNCHANGED admission
    BY <1>5 DEF admission, request, history, AdmissionInv, AdmissionTypes, PendingIsRunning, ChargedOnFulfilment
  <1> QED BY <1>1, <1>2, <1>3, <1>4, <1>5 DEF AdmissionNext

\* A page with several reads, failing and asking again in any order, consumes the
\* request limit once, unless the check that counted it failed afterwards.
THEOREM AdmittedOnce == RequestsSpec => []OneAdmissionPerRequest
  <1>1. AdmissionInv => OneAdmissionPerRequest
    BY DEF AdmissionInv, AdmissionTypes, ChargedOnFulfilment, OneAdmissionPerRequest
  <1>2. RequestsInit => AdmissionInv
    BY InitAdmission DEF RequestsInit
  <1>3. AdmissionInv /\ [RequestsNext]_requests => AdmissionInv'
    BY StepAdmission DEF RequestsNext, Admitting, requests
  <1> QED BY <1>1, <1>2, <1>3, PTL DEF RequestsSpec

-----------------------------------------------------------------------------
(* The limiter.  The current window of a key is the last Elapsed ticks, and *)
(* its counter bounds what they admitted; older ticks are those of the      *)
(* window before, which admitted Limit at most.  In Redis the first check   *)
(* of a window is counted some time before it is admitted.                  *)

Spans == [1..Window -> Nat]

LimiterTypes ==
  /\ rateKey \in [Arrivals -> Keys]
  /\ count \in [Keys -> Nat]
  /\ left \in [Keys -> 0..Window]
  /\ expires \in [Keys -> BOOLEAN]
  /\ recent \in [Keys -> Spans]

\* At most n admissions in the last e ticks, at most Limit more in a window's length.
Bounded(f, n, e) ==
  \A i \in 1..Window : f[i] <= Limit + n /\ (i <= e => f[i] <= n)

\* Counts beyond the limit admitted nobody.
Spent(c) == IF c <= Limit THEN c ELSE Limit

Elapsed(k) == Window - left[k] + 1

\* The check that found the counter at zero and has still to set its end.
Opening(r, k) == step[r] = "pexpire" /\ rateKey[r] = k
Owed(k) == IF \E r \in Arrivals : Opening(r, k) THEN 1 ELSE 0

MemoryWindow(k) ==
  /\ left[k] = 0 => Bounded(recent[k], 0, 1)
  /\ left[k] > 0 => count[k] <= Limit /\ Bounded(recent[k], count[k], Elapsed(k))

RedisWindow(k) ==
  /\ expires[k] => left[k] > 0 /\ count[k] > 0 /\ Bounded(recent[k], Spent(count[k]), Elapsed(k))
  /\ ~expires[k] => left[k] = 0 /\ Bounded(recent[k], Spent(count[k]) - Owed(k), 1)

WindowOf(k) == IF driver = "memory" THEN MemoryWindow(k) ELSE RedisWindow(k)

\* One check at a time opens a window, on a counter that has no end yet.
OneOpens ==
  \A r \in Arrivals : step[r] = "pexpire" =>
    /\ driver # "memory"
    /\ count[rateKey[r]] > 0 /\ ~expires[rateKey[r]]
    /\ \A q \in Arrivals : Opening(q, rateKey[r]) => q = r

LimiterInv == AdmissionInv /\ LimiterTypes /\ OneOpens /\ \A k \in Keys : WindowOf(k)

\* An admission counts in every span that ends now.
LEMMA OneMore ==
  ASSUME NEW f \in Spans
  PROVE  /\ [i \in 1..Window |-> f[i] + 1] \in Spans
         /\ \A n, e \in Int : Bounded(f, n, e) => Bounded([i \in 1..Window |-> f[i] + 1], n + 1, e)
  <1> DEFINE g == [i \in 1..Window |-> f[i] + 1]
  <1>1. g \in Spans /\ \A i \in 1..Window : g[i] = f[i] + 1 /\ f[i] \in Nat
    BY DEF Spans
  <1> HIDE DEF g
  <1>2. ASSUME NEW n \in Int, NEW e \in Int, Bounded(f, n, e) PROVE Bounded(g, n + 1, e)
    BY <1>1, <1>2, LimitAssumption DEF Bounded
  <1> QED BY <1>1, <1>2 DEF g

LEMMA BoundedWeaker ==
  ASSUME NEW f \in Spans, NEW n \in Int, NEW e \in Int, Bounded(f, n, e),
         NEW m \in Int, NEW d \in Int, n <= m, d <= e
  PROVE  Bounded(f, m, d)
  <1>1. \A i \in 1..Window : f[i] \in Nat
    BY DEF Spans
  <1> QED BY <1>1, LimitAssumption, WindowAssumption DEF Bounded

\* A tick later, in the same window or past its end.
Later(f) == [i \in 1..Window |-> IF i = 1 THEN 0 ELSE f[i - 1]]

LEMMA LaterIsBounded ==
  ASSUME NEW f \in Spans
  PROVE  /\ Later(f) \in Spans
         /\ \A n \in Nat, e \in Int : Bounded(f, n, e) => Bounded(Later(f), n, e + 1)
         /\ \A n \in Nat : n <= Limit /\ Bounded(f, n, Window) => Bounded(Later(f), 0, 1)
  <1> DEFINE g == Later(f)
  <1>1. \A i \in 1..Window : i # 1 => i - 1 \in 1..Window /\ f[i - 1] \in Nat
    BY WindowAssumption DEF Spans
  <1>2. g \in Spans /\ \A i \in 1..Window : g[i] = IF i = 1 THEN 0 ELSE f[i - 1]
    BY <1>1 DEF Later, Spans
  <1> HIDE DEF g
  <1>3. ASSUME NEW n \in Nat, NEW e \in Int, Bounded(f, n, e) PROVE Bounded(g, n, e + 1)
    BY <1>1, <1>2, <1>3, LimitAssumption, WindowAssumption DEF Bounded
  <1>4. ASSUME NEW n \in Nat, n <= Limit, Bounded(f, n, Window) PROVE Bounded(g, 0, 1)
    BY <1>1, <1>2, <1>4, LimitAssumption, WindowAssumption DEF Bounded
  <1> QED BY <1>2, <1>3, <1>4 DEF g

LEMMA SpentIsBounded ==
  /\ \A c \in Nat : Spent(c) \in Nat /\ Spent(c) <= Limit /\ Spent(c) <= c
  /\ \A c \in Nat : c > 0 => Spent(c) >= 1
  /\ \A c \in Nat : Spent(c + 1) >= Spent(c)
  /\ \A c \in Nat : c + 1 <= Limit => Spent(c + 1) = Spent(c) + 1
  /\ Spent(0) = 0 /\ Spent(1) = 1
  BY LimitAssumption DEF Spent

LEMMA OwedIsOne == \A k \in Keys : Owed(k) \in {0, 1}
  BY DEF Owed

LEMMA InitLimiter == AdmissionInit /\ AdmissionInv => LimiterInv
  <1> SUFFICES ASSUME AdmissionInit, AdmissionInv PROVE LimiterInv
    OBVIOUS
  <1>1. LimiterTypes
    BY WindowAssumption DEF AdmissionInit, LimiterTypes, Spans
  <1>2. OneOpens
    BY DEF AdmissionInit, OneOpens
  <1>3. ASSUME NEW k \in Keys PROVE WindowOf(k)
    <2>1. Bounded(recent[k], 0, 1)
      BY WindowAssumption, LimitAssumption DEF AdmissionInit, Bounded
    <2>2. Owed(k) = 0
      BY DEF AdmissionInit, Owed, Opening
    <2>3. count[k] = 0 /\ left[k] = 0 /\ expires[k] = FALSE
      BY DEF AdmissionInit
    <2> QED BY <2>1, <2>2, <2>3, SpentIsBounded DEF WindowOf, MemoryWindow, RedisWindow
  <1> QED BY <1>1, <1>2, <1>3 DEF LimiterInv

\* The keys a step does not touch.
LEMMA OtherKeysKeep ==
  ASSUME NEW k \in Keys, WindowOf(k), driver' = driver,
         count'[k] = count[k], left'[k] = left[k], expires'[k] = expires[k],
         recent'[k] = recent[k], Owed(k)' = Owed(k)
  PROVE  WindowOf(k)'
  BY DEF WindowOf, MemoryWindow, RedisWindow, Elapsed

\* A resolution that is not opening a window before or after its step.
LEMMA OwedStays ==
  ASSUME LimiterTypes, AdmissionTypes, NEW r \in Arrivals, NEW s \in {"idle", "identity", "scope", "limit"},
         step[r] # "pexpire", step' = [step EXCEPT ![r] = s], rateKey' = rateKey
  PROVE  \A k \in Keys : Owed(k)' = Owed(k)
  <1>1. \A q \in Arrivals : step'[q] = "pexpire" <=> step[q] = "pexpire"
    BY DEF AdmissionTypes
  <1> QED BY <1>1 DEF Owed, Opening

\* A resolution that opened its window and ends.
LEMMA OwedIsPaid ==
  ASSUME LimiterTypes, AdmissionTypes, OneOpens, NEW r \in Arrivals, step[r] = "pexpire",
         step' = [step EXCEPT ![r] = "idle"], rateKey' = rateKey
  PROVE  /\ Owed(rateKey[r]) = 1 /\ Owed(rateKey[r])' = 0
         /\ \A k \in Keys \ {rateKey[r]} : Owed(k)' = Owed(k)
  <1>1. \A q \in Arrivals : step'[q] = "pexpire" <=> step[q] = "pexpire" /\ q # r
    BY DEF AdmissionTypes
  <1>2. \A q \in Arrivals : Opening(q, rateKey[r]) => q = r
    BY DEF OneOpens
  <1>3. \A q \in Arrivals, k \in Keys : Opening(q, k)' <=> Opening(q, k) /\ q # r
    BY <1>1 DEF Opening
  <1>4. Opening(r, rateKey[r])
    BY DEF Opening
  <1>5. \A k \in Keys \ {rateKey[r]} : ~Opening(r, k)
    BY DEF Opening
  <1> QED BY <1>2, <1>3, <1>4, <1>5 DEF Owed, LimiterTypes

LEMMA OwedIsMade ==
  ASSUME LimiterTypes, AdmissionTypes, NEW r \in Arrivals, step[r] # "pexpire",
         step' = [step EXCEPT ![r] = "pexpire"], rateKey' = rateKey
  PROVE  \A k \in Keys \ {rateKey[r]} : Owed(k)' = Owed(k)
  <1>1. \A q \in Arrivals : q # r => (step'[q] = "pexpire" <=> step[q] = "pexpire")
    BY DEF AdmissionTypes
  <1>2. \A q \in Arrivals, k \in Keys \ {rateKey[r]} : Opening(q, k)' <=> Opening(q, k)
    BY <1>1 DEF Opening
  <1> QED BY <1>2 DEF Owed

LEMMA KeyTypes ==
  ASSUME LimiterTypes, NEW k \in Keys
  PROVE  /\ count[k] \in Nat /\ left[k] \in 0..Window /\ left[k] \in Nat /\ Elapsed(k) \in Int
         /\ recent[k] \in Spans /\ Spent(count[k]) \in Nat
  <1>1. count[k] \in Nat /\ left[k] \in 0..Window /\ recent[k] \in Spans
    BY DEF LimiterTypes
  <1> QED BY <1>1, SpentIsBounded, WindowAssumption DEF Elapsed

LEMMA MemoryKeeps ==
  ASSUME LimiterInv, NEW r \in Arrivals, NEW k \in Keys, k = rateKey[r], CheckMemory(r)
  PROVE  LimiterTypes' /\ OneOpens' /\ \A m \in Keys : WindowOf(m)'
  <1>1. LimiterTypes /\ AdmissionTypes /\ MemoryWindow(k) /\ driver = "memory"
    BY DEF LimiterInv, LimiterTypes, AdmissionInv, CheckMemory, WindowOf
  <1>2. /\ count[k] \in Nat /\ left[k] \in 0..Window /\ Elapsed(k) \in Int
        /\ recent[k] \in Spans
    BY <1>1, KeyTypes
  <1>3. driver' = driver /\ expires' = expires /\ rateKey' = rateKey
        /\ step' = [step EXCEPT ![r] = "idle"] /\ step[r] = "limit"
    BY DEF CheckMemory, Admit, Refuse, Fulfil, Reject
  <1>4. \A m \in Keys : Owed(m)' = Owed(m)
    BY <1>1, <1>3, OwedStays
  <1>5. OneOpens'
    BY <1>1, <1>3 DEF LimiterInv, OneOpens, AdmissionTypes
  <1> DEFINE more == [i \in 1..Window |-> recent[k][i] + 1]
  <1>6. /\ more \in Spans
        /\ \A n, e \in Int : Bounded(recent[k], n, e) => Bounded(more, n + 1, e)
    BY <1>2, OneMore
  <1>7. Admit(r) => recent' = [recent EXCEPT ![k] = more]
    BY DEF Admit
  <1> HIDE DEF more
  <1>8. ASSUME NEW m \in Keys \ {k}, count'[m] = count[m], left'[m] = left[m],
               recent'[m] = recent[m]
        PROVE  WindowOf(m)'
    BY <1>3, <1>4, <1>8, OtherKeysKeep DEF LimiterInv
  <1>9. CASE /\ left[k] = 0 /\ count' = [count EXCEPT ![k] = 1]
             /\ left' = [left EXCEPT ![k] = Window] /\ Admit(r)
    <2>1. Window \in 0..Window /\ 1 \in Nat
      BY WindowAssumption
    <2>2. LimiterTypes'
      BY <1>1, <1>3, <1>6, <1>7, <1>9, <2>1 DEF LimiterTypes
    <2>3. count'[k] = 1 /\ left'[k] = Window /\ recent'[k] = more
      BY <1>1, <1>7, <1>9 DEF LimiterTypes
    <2>4. Bounded(more, 1, 1)
      BY <1>1, <1>6, <1>9 DEF MemoryWindow
    <2>5. Elapsed(k)' = 1
      BY <2>3, WindowAssumption DEF Elapsed
    <2>6. WindowOf(k)'
      BY <1>1, <1>3, <2>3, <2>4, <2>5, WindowAssumption, LimitAssumption DEF WindowOf, MemoryWindow
    <2>7. \A m \in Keys \ {k} : count'[m] = count[m] /\ left'[m] = left[m] /\ recent'[m] = recent[m]
      BY <1>1, <1>7, <1>9 DEF LimiterTypes
    <2> QED BY <1>5, <1>8, <2>2, <2>6, <2>7
  <1>10. CASE Refuse(r) /\ UNCHANGED <<count, left>>
    <2>1. recent' = recent
      BY <1>10 DEF Refuse, history
    <2>2. LimiterTypes'
      BY <1>1, <1>3, <1>10, <2>1 DEF LimiterTypes
    <2>3. \A m \in Keys : WindowOf(m)'
      BY <1>3, <1>4, <1>10, <2>1, OtherKeysKeep DEF LimiterInv
    <2> QED BY <1>5, <2>2, <2>3
  <1>11. CASE /\ left[k] # 0 /\ ~(count[k] >= Limit) /\ count' = [count EXCEPT ![k] = @ + 1]
              /\ Admit(r) /\ UNCHANGED left
    <2>1. count[k] + 1 \in Nat /\ count[k] + 1 <= Limit /\ left[k] > 0
      BY <1>2, <1>11, LimitAssumption, WindowAssumption
    <2>2. LimiterTypes'
      BY <1>1, <1>3, <1>6, <1>7, <1>11, <2>1 DEF LimiterTypes
    <2>3. count'[k] = count[k] + 1 /\ left'[k] = left[k] /\ recent'[k] = more
      BY <1>1, <1>7, <1>11 DEF LimiterTypes
    <2>4. Bounded(more, count[k] + 1, Elapsed(k))
      BY <1>1, <1>2, <1>6, <2>1 DEF MemoryWindow
    <2>5. Elapsed(k)' = Elapsed(k)
      BY <2>3 DEF Elapsed
    <2>6. WindowOf(k)'
      BY <1>1, <1>3, <2>1, <2>3, <2>4, <2>5 DEF WindowOf, MemoryWindow
    <2>7. \A m \in Keys \ {k} : count'[m] = count[m] /\ left'[m] = left[m] /\ recent'[m] = recent[m]
      BY <1>1, <1>7, <1>11 DEF LimiterTypes
    <2> QED BY <1>5, <1>8, <2>2, <2>6, <2>7
  <1> QED BY <1>9, <1>10, <1>11 DEF CheckMemory

\* INCR without an admission, by a check that is refused or whose answer is lost.
LEMMA UncountedKeeps ==
  ASSUME LimiterInv, NEW r \in Arrivals, NEW k \in Keys, k = rateKey[r],
         driver = "redis", step[r] = "limit", Reject(r),
         \/ count' = count
         \/ count' = [count EXCEPT ![rateKey[r]] = IF @ <= Limit THEN @ + 1 ELSE @],
         UNCHANGED <<driver, left, expires, recent>>
  PROVE  LimiterTypes' /\ OneOpens' /\ \A m \in Keys : WindowOf(m)'
  <1>1. LimiterTypes /\ AdmissionTypes /\ RedisWindow(k)
    BY DEF LimiterInv, LimiterTypes, AdmissionInv, WindowOf
  <1>2. /\ count[k] \in Nat /\ left[k] \in 0..Window /\ Elapsed(k) \in Int
        /\ recent[k] \in Spans /\ Spent(count[k]) \in Nat
    BY <1>1, KeyTypes
  <1>3. count[k] + 1 \in Nat
    BY <1>2
  <1>4. /\ count' \in [Keys -> Nat] /\ count'[k] \in {count[k], count[k] + 1}
        /\ \A m \in Keys \ {k} : count'[m] = count[m]
    BY <1>1, <1>3 DEF LimiterTypes
  <1>5. rateKey' = rateKey /\ step' = [step EXCEPT ![r] = "idle"]
    BY DEF Reject
  <1>6. \A m \in Keys : Owed(m)' = Owed(m)
    BY <1>1, <1>5, OwedStays
  <1>7. OneOpens'
    <2>1. \A q \in Arrivals : step'[q] = "pexpire" <=> step[q] = "pexpire"
      BY <1>1, <1>5 DEF AdmissionTypes
    <2>2. \A m \in Keys : count[m] > 0 => count'[m] > 0
      BY <1>2, <1>4
    <2> QED BY <1>1, <1>5, <2>1, <2>2 DEF LimiterInv, OneOpens, LimiterTypes, Opening
  <1>8. LimiterTypes'
    BY <1>1, <1>4, <1>5 DEF LimiterTypes
  <1>9. WindowOf(k)'
    <2>1. Spent(count'[k]) >= Spent(count[k]) /\ Spent(count'[k]) \in Nat
      BY <1>2, <1>3, <1>4, SpentIsBounded
    <2>2. Owed(k) \in {0, 1} /\ Owed(k)' = Owed(k) /\ Elapsed(k)' = Elapsed(k)
      BY <1>6, OwedIsOne DEF Elapsed
    <2>3. expires[k] => count'[k] > 0 /\ Bounded(recent[k], Spent(count'[k]), Elapsed(k))
      BY <1>1, <1>2, <1>4, <2>1, BoundedWeaker DEF RedisWindow
    <2>4. ~expires[k] => Bounded(recent[k], Spent(count'[k]) - Owed(k), 1)
      <3>1. /\ Spent(count[k]) - Owed(k) \in Int /\ Spent(count'[k]) - Owed(k) \in Int
            /\ Spent(count[k]) - Owed(k) <= Spent(count'[k]) - Owed(k)
        BY <1>2, <2>1, <2>2
      <3> QED BY <1>1, <1>2, <3>1, BoundedWeaker DEF RedisWindow
    <2> QED BY <1>1, <2>2, <2>3, <2>4 DEF WindowOf, RedisWindow
  <1>10. ASSUME NEW m \in Keys \ {k} PROVE WindowOf(m)'
    BY <1>4, <1>6, OtherKeysKeep DEF LimiterInv
  <1> QED BY <1>7, <1>8, <1>9, <1>10

LEMMA IncrKeeps ==
  ASSUME LimiterInv, NEW r \in Arrivals, NEW k \in Keys, k = rateKey[r], Incr(r)
  PROVE  LimiterTypes' /\ OneOpens' /\ \A m \in Keys : WindowOf(m)'
  <1>1. /\ LimiterTypes /\ AdmissionTypes /\ RedisWindow(k)
        /\ driver = "redis" /\ step[r] = "limit"
    BY DEF LimiterInv, LimiterTypes, AdmissionInv, WindowOf, Incr
  <1>2. /\ count' = [count EXCEPT ![k] = IF @ <= Limit THEN @ + 1 ELSE @]
        /\ UNCHANGED <<left, expires, driver>>
    BY DEF Incr, WindowKept
  <1>3. /\ count[k] \in Nat /\ left[k] \in 0..Window /\ Elapsed(k) \in Int
        /\ recent[k] \in Spans /\ Spent(count[k]) \in Nat
    BY <1>1, KeyTypes
  <1>4. count[k] + 1 \in Nat
    BY <1>3
  <1>5. /\ count' \in [Keys -> Nat]
        /\ count'[k] = IF count[k] <= Limit THEN count[k] + 1 ELSE count[k]
        /\ \A m \in Keys \ {k} : count'[m] = count[m]
    BY <1>1, <1>2, <1>4 DEF LimiterTypes
  <1>6. Elapsed(k)' = Elapsed(k)
    BY <1>2 DEF Elapsed
  <1>7. CASE /\ count[k] + 1 = 1 /\ step' = [step EXCEPT ![r] = "pexpire"]
             /\ UNCHANGED <<memo, tries, rateKey, read, history>>
    <2>1. recent' = recent /\ rateKey' = rateKey /\ count[k] = 0 /\ count'[k] = 1
      BY <1>3, <1>5, <1>7, LimitAssumption DEF history
    <2>2. \A m \in Keys \ {k} : Owed(m)' = Owed(m)
      BY <1>1, <1>7, OwedIsMade
    <2>3. LimiterTypes'
      BY <1>1, <1>2, <1>5, <2>1 DEF LimiterTypes
    <2>4. \A q \in Arrivals : ~Opening(q, k)
      BY <2>1 DEF LimiterInv, OneOpens, Opening
    <2>5. ~expires[k]
      BY <1>1, <2>1 DEF RedisWindow
    <2>6. OneOpens'
      <3>1. \A q \in Arrivals : step'[q] = "pexpire" <=> q = r \/ step[q] = "pexpire"
        BY <1>1, <1>7 DEF AdmissionTypes
      <3>2. \A q \in Arrivals : step'[q] = "pexpire" =>
              q = r \/ (rateKey[q] # k /\ count'[rateKey[q]] > 0 /\ ~expires[rateKey[q]])
        BY <1>1, <1>5, <2>4, <3>1 DEF LimiterInv, OneOpens, Opening, LimiterTypes
      <3>3. \A q, p \in Arrivals : step'[q] = "pexpire" /\ Opening(p, rateKey[q])' => p = q
        BY <2>1, <2>4, <3>1, <3>2 DEF LimiterInv, OneOpens, Opening
      <3> QED BY <1>1, <1>2, <2>1, <2>5, <3>2, <3>3 DEF OneOpens
    <2>7. WindowOf(k)'
      <3>1. Owed(k) = 0 /\ Owed(k)' \in {0, 1}
        BY <2>4 DEF Owed
      <3>2. Bounded(recent[k], 0, 1) /\ left[k] = 0
        BY <1>1, <2>1, <2>5, <3>1, SpentIsBounded DEF RedisWindow
      <3>3. 1 - Owed(k)' \in Int /\ 0 <= 1 - Owed(k)'
        BY <3>1
      <3>4. Bounded(recent[k], 1 - Owed(k)', 1)
        BY <1>3, <3>2, <3>3, BoundedWeaker
      <3> QED BY <1>1, <1>2, <2>1, <2>5, <3>2, <3>4, SpentIsBounded DEF WindowOf, RedisWindow
    <2>8. ASSUME NEW m \in Keys \ {k} PROVE WindowOf(m)'
      BY <1>2, <1>5, <2>1, <2>2, OtherKeysKeep DEF LimiterInv
    <2> QED BY <2>3, <2>6, <2>7, <2>8
  <1>8. CASE count[k] + 1 # 1 /\ count[k] + 1 <= Limit /\ Admit(r)
    <2> DEFINE more == [i \in 1..Window |-> recent[k][i] + 1]
    <2>1. /\ more \in Spans
          /\ \A n, e \in Int : Bounded(recent[k], n, e) => Bounded(more, n + 1, e)
      BY <1>3, OneMore
    <2>2. recent' = [recent EXCEPT ![k] = more]
      BY <1>8 DEF Admit
    <2> HIDE DEF more
    <2>3. recent' \in [Keys -> Spans] /\ recent'[k] = more
          /\ \A m \in Keys \ {k} : recent'[m] = recent[m]
      BY <1>1, <2>1, <2>2 DEF LimiterTypes
    <2>4. rateKey' = rateKey /\ step' = [step EXCEPT ![r] = "idle"]
      BY <1>8 DEF Admit, Fulfil
    <2>5. \A m \in Keys : Owed(m)' = Owed(m)
      BY <1>1, <2>4, OwedStays
    <2>6. LimiterTypes'
      BY <1>1, <1>2, <1>5, <2>3, <2>4 DEF LimiterTypes
    <2>7. OneOpens'
      <3>1. \A q \in Arrivals : step'[q] = "pexpire" <=> step[q] = "pexpire"
        BY <1>1, <2>4 DEF AdmissionTypes
      <3>2. \A m \in Keys : count[m] > 0 => count'[m] > 0
        BY <1>3, <1>5
      <3> QED BY <1>1, <1>2, <2>4, <3>1, <3>2 DEF LimiterInv, OneOpens, LimiterTypes, Opening
    <2>8. WindowOf(k)'
      <3>1. count[k] > 0 /\ count'[k] = count[k] + 1 /\ count'[k] > 0
        BY <1>3, <1>5, <1>8, LimitAssumption
      <3>2. Spent(count'[k]) = Spent(count[k]) + 1
        BY <1>3, <1>8, <3>1, SpentIsBounded
      <3>3. Owed(k) \in {0, 1} /\ Owed(k)' = Owed(k)
        BY <2>5, OwedIsOne
      <3>4. expires[k] => Bounded(more, Spent(count[k]) + 1, Elapsed(k))
        BY <1>1, <1>3, <2>1 DEF RedisWindow
      <3>5. ~expires[k] => Bounded(more, Spent(count'[k]) - Owed(k), 1)
        <4> DEFINE n == Spent(count[k]) - Owed(k)
        <4>1. n \in Int /\ Spent(count'[k]) - Owed(k) = n + 1
          BY <1>3, <3>2, <3>3
        <4>2. ~expires[k] => Bounded(recent[k], n, 1)
          BY <1>1 DEF RedisWindow
        <4> HIDE DEF n
        <4> QED BY <2>1, <4>1, <4>2
      <3>6. expires[k] => left[k] > 0 /\ Bounded(recent'[k], Spent(count'[k]), Elapsed(k)')
        BY <1>1, <1>6, <2>3, <3>2, <3>4 DEF RedisWindow
      <3>7. ~expires[k] => left[k] = 0 /\ Bounded(recent'[k], Spent(count'[k]) - Owed(k), 1)
        BY <1>1, <2>3, <3>5 DEF RedisWindow
      <3> QED BY <1>1, <1>2, <3>1, <3>3, <3>6, <3>7 DEF WindowOf, RedisWindow
    <2>9. ASSUME NEW m \in Keys \ {k} PROVE WindowOf(m)'
      BY <1>2, <1>5, <2>3, <2>5, OtherKeysKeep DEF LimiterInv
    <2> QED BY <2>6, <2>7, <2>8, <2>9
  <1>9. CASE Refuse(r)
    BY <1>1, <1>2, <1>9, UncountedKeeps DEF Refuse, history
  <1> QED BY <1>7, <1>8, <1>9 DEF Incr, Admitted

\* PEXPIRE takes effect; its check is admitted or, if the answer is lost, not.
LEMMA WindowOpens ==
  ASSUME LimiterInv, NEW r \in Arrivals, NEW k \in Keys, k = rateKey[r], step[r] = "pexpire",
         step' = [step EXCEPT ![r] = "idle"], UNCHANGED <<driver, count, rateKey>>,
         left' = [left EXCEPT ![k] = Window],
         expires' = [expires EXCEPT ![k] = TRUE],
         \/ recent' = recent
         \/ recent' = [recent EXCEPT ![k] = [i \in 1..Window |-> @[i] + 1]]
  PROVE  LimiterTypes' /\ OneOpens' /\ \A m \in Keys : WindowOf(m)'
  <1>1. /\ LimiterTypes /\ AdmissionTypes /\ RedisWindow(k)
        /\ driver # "memory" /\ count[k] > 0 /\ ~expires[k]
        /\ \A q \in Arrivals : Opening(q, k) => q = r
    BY DEF LimiterInv, LimiterTypes, AdmissionInv, WindowOf, OneOpens
  <1>2. /\ count[k] \in Nat /\ recent[k] \in Spans /\ Spent(count[k]) \in Nat
    BY <1>1, KeyTypes
  <1>3. /\ Owed(k) = 1 /\ Owed(k)' = 0
        /\ \A m \in Keys \ {k} : Owed(m)' = Owed(m)
    BY <1>1, OwedIsPaid DEF LimiterInv
  <1>4. Bounded(recent[k], Spent(count[k]) - 1, 1) /\ Spent(count[k]) - 1 \in Int
    BY <1>1, <1>2, <1>3 DEF RedisWindow
  <1>5. /\ recent' \in [Keys -> Spans] /\ Bounded(recent'[k], Spent(count[k]), 1)
        /\ \A m \in Keys \ {k} : recent'[m] = recent[m]
    <2>1. CASE recent' = recent
      <3>1. Bounded(recent[k], Spent(count[k]), 1)
        BY <1>2, <1>4, BoundedWeaker
      <3> QED BY <1>1, <2>1, <3>1 DEF LimiterTypes
    <2>2. CASE recent' = [recent EXCEPT ![k] = [i \in 1..Window |-> @[i] + 1]]
      <3> DEFINE more == [i \in 1..Window |-> recent[k][i] + 1]
      <3>1. /\ more \in Spans
            /\ \A n, e \in Int : Bounded(recent[k], n, e) => Bounded(more, n + 1, e)
        BY <1>2, OneMore
      <3>2. recent' = [recent EXCEPT ![k] = more]
        BY <2>2
      <3> HIDE DEF more
      <3>3. (Spent(count[k]) - 1) + 1 = Spent(count[k])
        BY <1>2
      <3>4. Bounded(more, Spent(count[k]), 1)
        BY <1>4, <3>1, <3>3
      <3> QED BY <1>1, <3>1, <3>2, <3>4 DEF LimiterTypes
    <2> QED BY <2>1, <2>2
  <1>6. /\ left'[k] = Window /\ expires'[k] = TRUE
        /\ \A m \in Keys \ {k} : left'[m] = left[m] /\ expires'[m] = expires[m]
    BY <1>1 DEF LimiterTypes
  <1>7. LimiterTypes'
    <2>1. Window \in 0..Window
      BY WindowAssumption
    <2> QED BY <1>1, <1>5, <2>1 DEF LimiterTypes
  <1>8. OneOpens'
    <2>1. \A q \in Arrivals : step'[q] = "pexpire" <=> step[q] = "pexpire" /\ q # r
      BY <1>1 DEF AdmissionTypes
    <2>2. \A q \in Arrivals : step'[q] = "pexpire" => rateKey[q] \in Keys \ {k}
      BY <1>1, <2>1 DEF LimiterTypes, Opening
    <2>3. \A q, p \in Arrivals : Opening(p, rateKey[q])' => Opening(p, rateKey[q])
      BY <2>1 DEF Opening
    <2> QED BY <1>6, <2>1, <2>2, <2>3 DEF LimiterInv, OneOpens, Opening
  <1>9. WindowOf(k)'
    <2>1. Elapsed(k)' = 1 /\ left'[k] > 0
      BY <1>6, WindowAssumption DEF Elapsed
    <2> QED BY <1>1, <1>5, <1>6, <2>1 DEF WindowOf, RedisWindow
  <1>10. ASSUME NEW m \in Keys \ {k} PROVE WindowOf(m)'
    BY <1>3, <1>5, <1>6, OtherKeysKeep DEF LimiterInv
  <1> QED BY <1>7, <1>8, <1>9, <1>10

\* PEXPIRE never takes effect.
LEMMA WindowIsLost ==
  ASSUME LimiterInv, NEW r \in Arrivals, NEW k \in Keys, k = rateKey[r], step[r] = "pexpire",
         step' = [step EXCEPT ![r] = "idle"], UNCHANGED <<driver, limiter, rateKey, recent>>
  PROVE  LimiterTypes' /\ OneOpens' /\ \A m \in Keys : WindowOf(m)'
  <1> USE DEF limiter
  <1>1. /\ LimiterTypes /\ AdmissionTypes /\ RedisWindow(k) /\ driver # "memory" /\ ~expires[k]
    BY DEF LimiterInv, LimiterTypes, AdmissionInv, WindowOf, OneOpens
  <1>2. /\ Owed(k) = 1 /\ Owed(k)' = 0
        /\ \A m \in Keys \ {k} : Owed(m)' = Owed(m)
    BY <1>1, OwedIsPaid DEF LimiterInv
  <1>3. LimiterTypes'
    BY <1>1 DEF LimiterTypes
  <1>4. OneOpens'
    <2>1. \A q \in Arrivals : step'[q] = "pexpire" => step[q] = "pexpire"
      BY <1>1 DEF AdmissionTypes
    <2> QED BY <2>1 DEF LimiterInv, OneOpens, Opening
  <1>5. WindowOf(k)'
    <2>1. recent[k] \in Spans /\ Spent(count[k]) \in Nat
      BY <1>1, KeyTypes
    <2>2. Bounded(recent[k], Spent(count[k]) - 1, 1) /\ left[k] = 0
      BY <1>1, <1>2 DEF RedisWindow
    <2>3. Bounded(recent[k], Spent(count[k]), 1) /\ Spent(count[k]) - 0 = Spent(count[k])
      BY <2>1, <2>2, BoundedWeaker
    <2> QED BY <1>1, <1>2, <2>2, <2>3 DEF WindowOf, RedisWindow
  <1>6. ASSUME NEW m \in Keys \ {k} PROVE WindowOf(m)'
    BY <1>2, OtherKeysKeep DEF LimiterInv
  <1> QED BY <1>3, <1>4, <1>5, <1>6

LEMMA TickKeeps ==
  ASSUME LimiterInv, Tick
  PROVE  LimiterTypes' /\ OneOpens' /\ \A k \in Keys : WindowOf(k)'
  <1>1. LimiterTypes /\ UNCHANGED <<driver, memo, step, tries, rateKey, read>>
    BY DEF LimiterInv, Tick, request
  <1>2. \A k \in Keys : recent'[k] = Later(recent[k])
    BY <1>1 DEF Tick, Later
  <1>3. /\ \A k \in Keys : left'[k] = IF left[k] > 0 THEN left[k] - 1 ELSE 0
        /\ \A k \in Keys : count'[k] = IF expires[k] /\ left[k] = 1 THEN 0 ELSE count[k]
        /\ \A k \in Keys : expires'[k] <=> expires[k] /\ left[k] > 1
    BY DEF Tick
  <1>4. LimiterTypes'
    <2>1. ASSUME NEW k \in Keys
          PROVE  left'[k] \in 0..Window /\ count'[k] \in Nat /\ expires'[k] \in BOOLEAN
                 /\ recent'[k] \in Spans
      <3>1. left'[k] \in 0..Window /\ count'[k] \in Nat
        BY <1>1, <1>3, KeyTypes, WindowAssumption
      <3>2. expires'[k] \in BOOLEAN
        BY DEF Tick
      <3> QED BY <1>1, <1>2, <3>1, <3>2, KeyTypes, LaterIsBounded
    <2>2. left' \in [Keys -> 0..Window] /\ count' \in [Keys -> Nat]
      <3>1. left' = [k \in Keys |-> left'[k]] /\ count' = [k \in Keys |-> count'[k]]
        BY DEF Tick
      <3> QED BY <2>1, <3>1
    <2>3. expires' \in [Keys -> BOOLEAN] /\ recent' \in [Keys -> Spans]
      <3>1. expires' = [k \in Keys |-> expires'[k]] /\ recent' = [k \in Keys |-> recent'[k]]
        BY DEF Tick
      <3> QED BY <2>1, <3>1
    <2> QED BY <1>1, <2>2, <2>3 DEF LimiterTypes
  <1>5. OneOpens'
    <2>1. \A k \in Keys : ~expires[k] => count'[k] = count[k] /\ ~expires'[k]
      BY <1>3
    <2>2. \A q \in Arrivals : rateKey[q] \in Keys
      BY <1>1 DEF LimiterTypes
    <2> QED BY <1>1, <2>1, <2>2 DEF LimiterInv, OneOpens, Opening
  <1>6. ASSUME NEW k \in Keys PROVE WindowOf(k)'
    <2>1. /\ count[k] \in Nat /\ left[k] \in 0..Window /\ left[k] \in Nat /\ Elapsed(k) \in Int
          /\ recent[k] \in Spans /\ Spent(count[k]) \in Nat /\ WindowOf(k)
      BY <1>1, KeyTypes DEF LimiterInv
    <2>2. /\ Later(recent[k]) \in Spans
          /\ \A n \in Nat, e \in Int : Bounded(recent[k], n, e) => Bounded(Later(recent[k]), n, e + 1)
          /\ \A n \in Nat : n <= Limit /\ Bounded(recent[k], n, Window) => Bounded(Later(recent[k]), 0, 1)
      BY <2>1, LaterIsBounded
    <2>3. Owed(k)' = Owed(k)
      BY <1>1 DEF Owed, Opening
    <2>4. left[k] > 1 => left'[k] > 0 /\ Elapsed(k)' = Elapsed(k) + 1
      BY <1>3, <2>1, WindowAssumption DEF Elapsed
    <2>5. left[k] = 1 => Elapsed(k) = Window
      BY <2>1, WindowAssumption DEF Elapsed
    <2>6. CASE driver = "memory"
      <3>1. MemoryWindow(k)
        BY <2>1, <2>6 DEF WindowOf
      <3>2. CASE left[k] > 1
        <4>1. count[k] <= Limit /\ Bounded(Later(recent[k]), count[k], Elapsed(k) + 1)
          BY <2>1, <2>2, <3>1, <3>2 DEF MemoryWindow
        <4>2. count'[k] = count[k]
          BY <1>3, <3>2
        <4> QED BY <1>1, <1>2, <2>4, <2>6, <3>2, <4>1, <4>2 DEF WindowOf, MemoryWindow
      <3>3. CASE left[k] <= 1
        <4>1. left'[k] = 0
          BY <1>3, <2>1, <3>3
        <4>2. Bounded(Later(recent[k]), 0, 1)
          <5>1. CASE left[k] = 1
            BY <2>1, <2>2, <2>5, <3>1, <5>1 DEF MemoryWindow
          <5>2. CASE left[k] = 0
            <6>1. Bounded(recent[k], 0, 1)
              BY <3>1, <5>2 DEF MemoryWindow
            <6>2. Bounded(Later(recent[k]), 0, 1 + 1)
              BY <2>2, <6>1
            <6> QED BY <2>2, <6>2, BoundedWeaker
          <5> QED BY <2>1, <3>3, <5>1, <5>2
        <4> QED BY <1>1, <1>2, <2>6, <4>1, <4>2 DEF WindowOf, MemoryWindow
      <3> QED BY <2>1, <3>2, <3>3
    <2>7. CASE driver # "memory" /\ expires[k]
      <3>1. left[k] > 0 /\ count[k] > 0 /\ Bounded(recent[k], Spent(count[k]), Elapsed(k))
        BY <2>1, <2>7 DEF WindowOf, RedisWindow
      <3>2. CASE left[k] > 1
        <4>1. Bounded(Later(recent[k]), Spent(count[k]), Elapsed(k) + 1)
          BY <2>1, <2>2, <3>1
        <4>2. count'[k] = count[k] /\ expires'[k]
          BY <1>3, <2>7, <3>2
        <4> QED BY <1>1, <1>2, <2>4, <2>7, <3>1, <3>2, <4>1, <4>2 DEF WindowOf, RedisWindow
      <3>3. CASE left[k] = 1
        <4>1. left'[k] = 0 /\ count'[k] = 0 /\ ~expires'[k]
          BY <1>3, <2>1, <2>7, <3>3
        <4>2. Bounded(Later(recent[k]), 0, 1)
          BY <2>1, <2>2, <2>5, <3>1, <3>3, SpentIsBounded
        <4>3. Owed(k) = 0
          BY <2>7 DEF Owed, Opening, LimiterInv, OneOpens
        <4>4. Spent(0) - Owed(k)' = 0
          BY <2>3, <4>3, SpentIsBounded
        <4> QED BY <1>1, <1>2, <2>7, <4>1, <4>2, <4>4 DEF WindowOf, RedisWindow
      <3> QED BY <2>1, <3>1, <3>2, <3>3
    <2>8. CASE driver # "memory" /\ ~expires[k]
      <3>1. left[k] = 0 /\ Bounded(recent[k], Spent(count[k]) - Owed(k), 1)
        BY <2>1, <2>8 DEF WindowOf, RedisWindow
      <3>2. left'[k] = 0 /\ count'[k] = count[k] /\ ~expires'[k]
        BY <1>3, <2>8, <3>1
      <3>3. Spent(count[k]) - Owed(k) \in Nat
        <4>1. CASE Owed(k) = 0
          BY <2>1, <4>1
        <4>2. CASE Owed(k) = 1
          <5>1. count[k] > 0
            BY <4>2 DEF Owed, Opening, LimiterInv, OneOpens
          <5> QED BY <2>1, <4>2, <5>1, SpentIsBounded
        <4> QED BY <4>1, <4>2, OwedIsOne
      <3>4. Bounded(Later(recent[k]), Spent(count[k]) - Owed(k), 1 + 1)
        BY <2>2, <3>1, <3>3
      <3>5. Bounded(Later(recent[k]), Spent(count[k]) - Owed(k), 1)
        BY <2>2, <3>3, <3>4, BoundedWeaker
      <3> QED BY <1>1, <1>2, <2>3, <2>8, <3>2, <3>5 DEF WindowOf, RedisWindow
    <2> QED BY <2>6, <2>7, <2>8
  <1> QED BY <1>4, <1>5, <1>6

\* Whatever leaves the limiter, and who is at it, alone.
LEMMA LimiterRests ==
  ASSUME LimiterInv, NEW r \in Arrivals, step[r] # "pexpire",
         NEW s \in {"idle", "identity", "scope", "limit"}, step' = [step EXCEPT ![r] = s],
         UNCHANGED <<driver, rateKey, limiter, recent>>
  PROVE  LimiterTypes' /\ OneOpens' /\ \A k \in Keys : WindowOf(k)'
  <1> USE DEF limiter
  <1>1. LimiterTypes /\ AdmissionTypes
    BY DEF LimiterInv, AdmissionInv
  <1>2. \A k \in Keys : Owed(k)' = Owed(k)
    BY <1>1, OwedStays
  <1>3. LimiterTypes'
    BY <1>1 DEF LimiterTypes
  <1>4. OneOpens'
    <2>1. \A q \in Arrivals : step'[q] = "pexpire" => step[q] = "pexpire"
      BY <1>1 DEF AdmissionTypes
    <2> QED BY <2>1 DEF LimiterInv, OneOpens, Opening
  <1>5. \A k \in Keys : WindowOf(k)'
    BY <1>2, OtherKeysKeep DEF LimiterInv
  <1> QED BY <1>3, <1>4, <1>5

\* The next request of a slot may have another key; nothing of the old one runs.
LEMMA RespondKeeps ==
  ASSUME LimiterInv, NEW r \in Arrivals, Respond(r)
  PROVE  LimiterTypes' /\ OneOpens' /\ \A k \in Keys : WindowOf(k)'
  <1> USE DEF limiter
  <1>1. /\ LimiterTypes /\ AdmissionTypes /\ step[r] = "idle"
        /\ UNCHANGED <<driver, step, count, left, expires, recent>>
    BY DEF LimiterInv, AdmissionInv, PendingIsRunning, Respond
  <1>2. PICK k \in Keys : rateKey' = [rateKey EXCEPT ![r] = k]
    BY DEF Respond
  <1>3. LimiterTypes'
    BY <1>1, <1>2 DEF LimiterTypes
  <1>4. \A q \in Arrivals, m \in Keys : Opening(q, m)' <=> Opening(q, m)
    BY <1>1, <1>2 DEF LimiterTypes, Opening
  <1>5. OneOpens'
    <2>1. \A q \in Arrivals : step'[q] = "pexpire" => step[q] = "pexpire" /\ rateKey'[q] = rateKey[q]
      BY <1>1, <1>2 DEF LimiterTypes
    <2>2. \A q \in Arrivals : rateKey[q] \in Keys
      BY <1>1 DEF LimiterTypes
    <2> QED BY <1>1, <1>4, <2>1, <2>2 DEF LimiterInv, OneOpens
  <1>6. \A m \in Keys : Owed(m)' = Owed(m)
    BY <1>4 DEF Owed
  <1>7. \A m \in Keys : WindowOf(m)'
    BY <1>1, <1>6, OtherKeysKeep DEF LimiterInv
  <1> QED BY <1>3, <1>5, <1>7

LEMMA StepLimiter ==
  ASSUME LimiterInv, [AdmissionNext]_admission
  PROVE  LimiterTypes' /\ OneOpens' /\ \A k \in Keys : WindowOf(k)'
  <1> USE DEF LimiterInv, AdmissionInv
  <1>1. ASSUME NEW r \in Arrivals, Advance(r)
        PROVE  LimiterTypes' /\ OneOpens' /\ \A k \in Keys : WindowOf(k)'
    <2>1. rateKey[r] \in Keys
      BY DEF LimiterTypes
    <2>2. CASE Identify(r) \/ ResolveScope(r) \/ NoLimiter(r)
      <3>1. \E s \in {"idle", "identity", "scope", "limit"} :
               step' = [step EXCEPT ![r] = s] /\ step[r] # "pexpire"
        BY <2>2 DEF Identify, ResolveScope, NoLimiter, Proceed, Reject, Fulfil
      <3>2. UNCHANGED <<driver, rateKey, limiter, recent>>
        BY <2>2 DEF Identify, ResolveScope, NoLimiter, Proceed, Reject, Fulfil, history
      <3> QED BY <3>1, <3>2, LimiterRests
    <2>3. CASE CheckMemory(r)
      BY <2>1, <2>3, MemoryKeeps
    <2>4. CASE Incr(r)
      BY <2>1, <2>4, IncrKeeps
    <2>5. CASE IncrFails(r)
      BY <2>1, <2>5, UncountedKeeps DEF IncrFails
    <2>6. CASE PExpire(r)
      <3>1. /\ step[r] = "pexpire" /\ step' = [step EXCEPT ![r] = "idle"]
            /\ UNCHANGED <<driver, count, rateKey>>
            /\ left' = [left EXCEPT ![rateKey[r]] = Window]
            /\ expires' = [expires EXCEPT ![rateKey[r]] = TRUE]
            /\ recent' = [recent EXCEPT ![rateKey[r]] = [i \in 1..Window |-> @[i] + 1]]
        BY <2>6 DEF PExpire, Admit, Fulfil
      <3> QED BY <2>1, <3>1, WindowOpens
    <2>7. CASE PExpireFails(r)
      <3>1. /\ step[r] = "pexpire" /\ step' = [step EXCEPT ![r] = "idle"]
            /\ UNCHANGED <<driver, count, rateKey, recent>>
        BY <2>7 DEF PExpireFails, Reject
      <3>2. CASE UNCHANGED <<left, expires>>
        BY <2>1, <3>1, <3>2, WindowIsLost DEF limiter
      <3>3. CASE /\ left' = [left EXCEPT ![rateKey[r]] = Window]
                 /\ expires' = [expires EXCEPT ![rateKey[r]] = TRUE]
        BY <2>1, <3>1, <3>3, WindowOpens
      <3> QED BY <2>7, <3>2, <3>3 DEF PExpireFails
    <2> QED BY <1>1, <2>2, <2>3, <2>4, <2>5, <2>6, <2>7 DEF Advance
  <1>2. ASSUME NEW r \in Arrivals, NEW c \in Reads, AskContext(r, c)
        PROVE  LimiterTypes' /\ OneOpens' /\ \A k \in Keys : WindowOf(k)'
    <2>1. /\ step' = [step EXCEPT ![r] = "identity"] \/ step' = [step EXCEPT ![r] = step[r]]
          /\ step[r] # "pexpire" \/ step' = step
          /\ UNCHANGED <<driver, rateKey, limiter, recent>>
      BY <1>2 DEF AskContext, AdmissionTypes, PendingIsRunning, history
    <2>2. CASE step[r] # "pexpire"
      <3>1. step[r] \in {"idle", "identity", "scope", "limit"}
        BY <2>2 DEF AdmissionTypes
      <3> QED BY <2>1, <2>2, <3>1, LimiterRests
    <2>3. CASE step' = step
      <3> USE <2>1, <2>3 DEF limiter
      <3>1. LimiterTypes' /\ OneOpens'
        BY DEF LimiterTypes, OneOpens, Opening
      <3>2. \A k \in Keys : Owed(k)' = Owed(k)
        BY DEF Owed, Opening
      <3>3. \A k \in Keys : WindowOf(k)'
        BY <3>2, OtherKeysKeep
      <3> QED BY <3>1, <3>3
    <2> QED BY <2>1, <2>2, <2>3
  <1>3. CASE UNCHANGED admission
    <2> USE <1>3 DEF admission, request, limiter, history
    <2>1. LimiterTypes' /\ OneOpens'
      BY DEF LimiterTypes, OneOpens, Opening
    <2>2. \A k \in Keys : Owed(k)' = Owed(k)
      BY DEF Owed, Opening
    <2>3. \A k \in Keys : WindowOf(k)'
      BY <2>2, OtherKeysKeep
    <2> QED BY <2>1, <2>3
  <1> QED BY <1>1, <1>2, <1>3, RespondKeeps, TickKeeps DEF AdmissionNext

\* Two windows bound what any stretch of a window's length admits.
LEMMA LimiterIsBounded == LimiterInv => WindowIsBounded
  <1> SUFFICES ASSUME LimiterInv, NEW k \in Keys PROVE recent[k][Window] <= 2 * Limit
    BY DEF WindowIsBounded
  <1>1. /\ count[k] \in Nat /\ Spent(count[k]) \in Nat /\ Spent(count[k]) <= Limit
        /\ recent[k] \in Spans /\ left[k] \in Nat /\ Elapsed(k) \in Int
    BY KeyTypes, SpentIsBounded DEF LimiterInv
  <1>2. \E n \in Int, e \in Int : n <= Limit /\ Bounded(recent[k], n, e)
    <2>1. CASE driver = "memory"
      BY <1>1, <2>1, LimitAssumption DEF LimiterInv, WindowOf, MemoryWindow
    <2>2. CASE driver # "memory"
      <3>1. Spent(count[k]) - Owed(k) \in Int /\ Spent(count[k]) - Owed(k) <= Limit
        BY <1>1, OwedIsOne, LimitAssumption
      <3> QED BY <1>1, <2>2, <3>1 DEF LimiterInv, WindowOf, RedisWindow
    <2> QED BY <2>1, <2>2
  <1> QED BY <1>1, <1>2, LimitAssumption, WindowAssumption DEF Bounded, Spans

\* The inductive invariant of a request's admission and of the limiter.
THEOREM LimiterInvariance == RequestsSpec => []LimiterInv
  <1>1. RequestsInit => LimiterInv
    BY InitAdmission, InitLimiter DEF RequestsInit
  <1>2. LimiterInv /\ [RequestsNext]_requests => LimiterInv'
    <2>1. [RequestsNext]_requests => [AdmissionNext]_admission
      BY DEF RequestsNext, Admitting, requests
    <2> QED BY <2>1, StepAdmission, StepLimiter DEF LimiterInv
  <1> QED BY <1>1, <1>2, PTL DEF RequestsSpec

\* No stretch of a window's length admits more than two windows' worth, by either
\* driver, with any bursts and any failures of Redis.
THEOREM WindowsAreBounded == RequestsSpec => []WindowIsBounded
  BY LimiterInvariance, LimiterIsBounded, PTL

-----------------------------------------------------------------------------
(* Routes.  Names and paths of an accepted configuration are distinct and  *)
(* avoid the reserved segments, so each kind of address fits one entry of  *)
(* its table first: the entry whose handler looks up what the address was  *)
(* built from.  Joining the segments of a page gives back a declared path. *)

\* A set of numbers has a least one.
LEMMA LeastExists ==
  ASSUME NEW S \in SUBSET Nat, S # {}
  PROVE  \E x \in S : \A y \in S : x =< y
  <1> DEFINE Below == OpToRel(<, Nat)
  <1>1. IsWellFoundedOn(Below, Nat)
    BY NatLessThanWellFounded
  <1>2. \E x \in S : \A y \in S : ~ (<<y, x>> \in Below)
    BY <1>1, WFMin
  <1>3. \A x, y \in Nat : <<x, y>> \in Below <=> x < y
    BY DEF OpToRel
  <1>4. PICK x \in S : \A y \in S : ~ (<<y, x>> \in Below)
    BY <1>2
  <1>5. \A y \in S : x =< y
    <2> SUFFICES ASSUME NEW y \in S, ~(x =< y) PROVE FALSE
      OBVIOUS
    <2>1. x \in Nat /\ y \in Nat /\ y < x
      OBVIOUS
    <2>2. <<y, x>> \in Below
      BY <1>3, <2>1
    <2> QED BY <1>4, <2>2
  <1> QED BY <1>5

\* The segments of a path.
Atoms(path) == [i \in DOMAIN path |-> Atom(path[i])]

\* slug.join("/") puts a path together again.
LEMMA JoinedAtoms ==
  ASSUME NEW S, NEW path \in Seq(S)
  PROVE  Joined(Atoms(path)) = path
  <1> DEFINE parts == [i \in DOMAIN path |-> <<path[i]>>]
             n == Len(path)
             Next1(f, i) == IF i = 1 THEN parts[i] ELSE f[i - 1] \o parts[i]
             Flat == CHOOSE f : f = [i \in 1..n |-> Next1(f, i)]
  <1>1. Joined(Atoms(path)) = FlattenSeq(parts)
    <2>1. DOMAIN Atoms(path) = DOMAIN path
      BY DEF Atoms
    <2>2. \A i \in DOMAIN path : Atoms(path)[i].parts = <<path[i]>>
      BY DEF Atoms, Atom, Text
    <2> QED BY <2>1, <2>2 DEF Joined
  <1>2. n \in Nat /\ DOMAIN path = 1..n /\ Len(parts) = n
    OBVIOUS
  <1>3. FlattenSeq(parts) = IF n = 0 THEN parts ELSE Flat[n]
    BY <1>2 DEF FlattenSeq
  <1>4. CASE n = 0
    BY <1>1, <1>2, <1>3, <1>4
  <1>5. CASE n # 0
    <2> DEFINE g == [i \in 1..n |-> SubSeq(path, 1, i)]
    <2>1. \A i \in 1..n : g[i] = Next1(g, i)
      <3> SUFFICES ASSUME NEW i \in 1..n PROVE SubSeq(path, 1, i) = Next1(g, i)
        OBVIOUS
      <3>1. CASE i = 1
        <4>1. 1 \in 1..n /\ path[1] \in S
          BY <3>1, <1>2
        <4>2. SubSeq(path, 1, 1) = <<path[1]>>
          <5>1. SubSeq(path, 1, 1) = [j \in 1..1 |-> path[j]]
            <6>1. /\ Len(SubSeq(path, 1, 1)) = 1 /\ SubSeq(path, 1, 1) \in Seq(S)
                  /\ SubSeq(path, 1, 1)[1] = path[1]
              BY <4>1, <1>2, SubSeqProperties
            <6> QED BY <6>1
          <5>2. <<path[1]>> = [j \in 1..1 |-> path[j]]
            BY <4>1
          <5> QED BY <5>1, <5>2
        <4> QED BY <3>1, <4>1, <4>2, <1>2
      <3>2. CASE i # 1
        <4>1. i - 1 \in 1..n
          BY <3>2, <1>2
        <4>2. SubSeq(path, 1, i) = SubSeq(path, 1, i - 1) \o <<path[i]>>
          BY <3>2, <1>2, <4>1
        <4> QED BY <3>2, <4>1, <4>2, <1>2
      <3> QED BY <3>1, <3>2
    <2>2. g = [i \in 1..n |-> Next1(g, i)]
      BY <2>1
    <2>3. Flat = [i \in 1..n |-> Next1(Flat, i)]
      <3> HIDE DEF Next1, g
      <3> QED BY <2>2
    <2> HIDE DEF Flat
    <2>4. \A i \in 1..n : Flat[i] = g[i]
      <3> DEFINE Bad == {i \in 1..n : Flat[i] # g[i]}
      <3> SUFFICES ASSUME Bad # {} PROVE FALSE
        OBVIOUS
      <3>1. Bad \in SUBSET Nat
        BY <1>2
      <3> HIDE DEF Bad
      <3>2. PICK i \in Bad : \A j \in Bad : i =< j
        BY <3>1, LeastExists
      <3> USE DEF Bad
      <3>3. i \in 1..n /\ Flat[i] # g[i] /\ Flat[i] = Next1(Flat, i) /\ g[i] = Next1(g, i)
        BY <3>2, <2>1, <2>3
      <3>4. i # 1
        BY <3>3
      <3>5. i - 1 \in 1..n /\ i - 1 \notin Bad
        BY <3>2, <3>3, <3>4, <1>2
      <3>6. Flat[i - 1] = g[i - 1]
        BY <3>5
      <3> HIDE DEF g, Bad
      <3> QED BY <3>3, <3>4, <3>6
    <2>5. Flat[n] = SubSeq(path, 1, n)
      BY <2>4, <1>2, <1>5
    <2>6. SubSeq(path, 1, n) = path
      BY <1>2, <1>5
    <2> QED BY <1>1, <1>3, <1>5, <2>5, <2>6
  <1> QED BY <1>4, <1>5

-----------------------------------------------------------------------------
LEMMA FirstMatch ==
  ASSUME NEW table, NEW s, NEW i \in DOMAIN table, DOMAIN table \subseteq Nat,
         matchRoute(table[i], s),
         \A j \in DOMAIN table : j < i => ~matchRoute(table[j], s)
  PROVE  dispatch(table, s) = Handled(table[i], s)
  <1> DEFINE fits == {j \in DOMAIN table : matchRoute(table[j], s)}
  <1>1. i \in fits /\ \A j \in fits : i <= j
    OBVIOUS
  <1>2. \A k \in fits : (\A j \in fits : k <= j) => k = i
    BY <1>1
  <1>3. (CHOOSE k \in fits : \A j \in fits : k <= j) = i
    <2> HIDE DEF fits
    <2> QED BY <1>1, <1>2
  <1> QED BY <1>1, <1>3 DEF dispatch

\* A route fits by its length and its literal segments.
LEMMA MatchIs ==
  ASSUME NEW route, NEW S, NEW s \in Seq(S)
  PROVE  matchRoute(route, s) <=>
           /\ Len(route.segments) = Len(s)
           /\ \A i \in 1..Len(s) :
                route.segments[i] \in Captures \/ s[i] = Atom(route.segments[i])
  BY DEF matchRoute

\* When each route fits, table by table.
GetMatching(s) ==
  /\ matchRoute(GetRoutes[1], s) <=> Len(s) = 3 /\ s[1] = Atom("drawer")
  /\ matchRoute(GetRoutes[2], s) <=> Len(s) = 3 /\ s[2] = Atom("reference")
  /\ matchRoute(GetRoutes[3], s) <=> Len(s) = 1
  /\ matchRoute(GetRoutes[4], s) <=> Len(s) = 2

LEMMA GetMatches ==
  ASSUME NEW S, NEW s \in Seq(S)
  PROVE  GetMatching(s)
  <1> USE MatchIs DEF GetRoutes, Route, Captures
  <1>1. matchRoute(GetRoutes[1], s) <=> Len(s) = 3 /\ s[1] = Atom("drawer")
    OBVIOUS
  <1>2. matchRoute(GetRoutes[2], s) <=> Len(s) = 3 /\ s[2] = Atom("reference")
    OBVIOUS
  <1>3. matchRoute(GetRoutes[3], s) <=> Len(s) = 1
    OBVIOUS
  <1>4. matchRoute(GetRoutes[4], s) <=> Len(s) = 2
    OBVIOUS
  <1> QED BY <1>1, <1>2, <1>3, <1>4 DEF GetMatching

PageMatching(s) ==
  /\ matchRoute(PageRoutes[1], s) <=> Len(s) = 2 /\ s[1] = Atom("queues")
  /\ matchRoute(PageRoutes[2], s) <=> Len(s) = 1
  /\ matchRoute(PageRoutes[3], s) <=> Len(s) = 2 /\ s[2] = Atom("new")
  /\ matchRoute(PageRoutes[4], s) <=> Len(s) = 2
  /\ matchRoute(PageRoutes[5], s) <=> Len(s) = 3 /\ s[3] = Atom("edit")

LEMMA PageMatches ==
  ASSUME NEW S, NEW s \in Seq(S)
  PROVE  PageMatching(s)
  <1> USE MatchIs DEF PageRoutes, Route, Captures
  <1>1. matchRoute(PageRoutes[1], s) <=> Len(s) = 2 /\ s[1] = Atom("queues")
    OBVIOUS
  <1>2. matchRoute(PageRoutes[2], s) <=> Len(s) = 1
    OBVIOUS
  <1>3. matchRoute(PageRoutes[3], s) <=> Len(s) = 2 /\ s[2] = Atom("new")
    OBVIOUS
  <1>4. matchRoute(PageRoutes[4], s) <=> Len(s) = 2
    OBVIOUS
  <1>5. matchRoute(PageRoutes[5], s) <=> Len(s) = 3 /\ s[3] = Atom("edit")
    OBVIOUS
  <1> QED BY <1>1, <1>2, <1>3, <1>4, <1>5 DEF PageMatching

PostMatching(s) ==
  /\ matchRoute(PostRoutes[1], s) <=>
       Len(s) = 5 /\ s[1] = Atom("drawer") /\ s[4] = Atom("actions")
  /\ matchRoute(PostRoutes[2], s) <=>
       Len(s) = 4 /\ s[1] = Atom("dashboards") /\ s[3] = Atom("actions")
  /\ matchRoute(PostRoutes[3], s) <=> Len(s) = 4 /\ s[3] = Atom("actions")
  /\ matchRoute(PostRoutes[4], s) <=> Len(s) = 3 /\ s[2] = Atom("bulk-actions")
  /\ matchRoute(PostRoutes[5], s) <=> Len(s) = 2 /\ s[2] = Atom("import")
  /\ matchRoute(PostRoutes[6], s) <=> Len(s) = 2 /\ s[2] = Atom("create")
  /\ matchRoute(PostRoutes[7], s) <=> Len(s) = 3 /\ s[3] = Atom("update")
  /\ matchRoute(PostRoutes[8], s) <=> Len(s) = 3 /\ s[3] = Atom("edit")
  /\ matchRoute(PostRoutes[9], s) <=> Len(s) = 3 /\ s[3] = Atom("restore")
  /\ matchRoute(PostRoutes[10], s) <=> Len(s) = 1

LEMMA PostMatches ==
  ASSUME NEW S, NEW s \in Seq(S)
  PROVE  PostMatching(s)
  <1> USE MatchIs DEF PostRoutes, Route, Captures
  <1>1. matchRoute(PostRoutes[1], s) <=>
              Len(s) = 5 /\ s[1] = Atom("drawer") /\ s[4] = Atom("actions")
    OBVIOUS
  <1>2. matchRoute(PostRoutes[2], s) <=>
              Len(s) = 4 /\ s[1] = Atom("dashboards") /\ s[3] = Atom("actions")
    OBVIOUS
  <1>3. matchRoute(PostRoutes[3], s) <=> Len(s) = 4 /\ s[3] = Atom("actions")
    OBVIOUS
  <1>4. matchRoute(PostRoutes[4], s) <=> Len(s) = 3 /\ s[2] = Atom("bulk-actions")
    OBVIOUS
  <1>5. matchRoute(PostRoutes[5], s) <=> Len(s) = 2 /\ s[2] = Atom("import")
    OBVIOUS
  <1>6. matchRoute(PostRoutes[6], s) <=> Len(s) = 2 /\ s[2] = Atom("create")
    OBVIOUS
  <1>7. matchRoute(PostRoutes[7], s) <=> Len(s) = 3 /\ s[3] = Atom("update")
    OBVIOUS
  <1>8. matchRoute(PostRoutes[8], s) <=> Len(s) = 3 /\ s[3] = Atom("edit")
    OBVIOUS
  <1>9. matchRoute(PostRoutes[9], s) <=> Len(s) = 3 /\ s[3] = Atom("restore")
    OBVIOUS
  <1>10. matchRoute(PostRoutes[10], s) <=> Len(s) = 1
    OBVIOUS
  <1> QED BY <1>1, <1>2, <1>3, <1>4, <1>5, <1>6, <1>7, <1>8, <1>9, <1>10 DEF PostMatching

\* What each handler looks up.
LEMMA GetHandles ==
  ASSUME NEW S, NEW s \in Seq(S)
  PROVE  /\ Len(s) = 3 =>
              Handled(GetRoutes[1], s) = Thing("drawer", [resource |-> s[2], id |-> s[3]])
         /\ Len(s) = 3 =>
              Handled(GetRoutes[2], s) = Thing("references", [resource |-> s[1], field |-> s[3]])
         /\ Len(s) = 1 =>
              Handled(GetRoutes[3], s) = Thing("jsonList", [resource |-> s[1]])
         /\ Len(s) = 2 =>
              Handled(GetRoutes[4], s) = Thing("jsonGet", [resource |-> s[1], id |-> s[2]])
  <1>1. ASSUME Len(s) = 3
        PROVE  Handled(GetRoutes[1], s) = Thing("drawer", [resource |-> s[2], id |-> s[3]])
    <2>1. /\ GetRoutes[1].to = "drawer"
          /\ ToSet(GetRoutes[1].segments) = {"drawer", ":resource", ":id"}
      BY DEF GetRoutes, Route, ToSet
    <2>2. Captured(GetRoutes[1], s, ":resource") = s[2]
      BY <1>1 DEF GetRoutes, Route, Captured
    <2>3. Captured(GetRoutes[1], s, ":id") = s[3]
      BY <1>1 DEF GetRoutes, Route, Captured
    <2> QED BY <2>1, <2>2, <2>3 DEF Handled
  <1>2. ASSUME Len(s) = 3
        PROVE  Handled(GetRoutes[2], s) = Thing("references", [resource |-> s[1], field |-> s[3]])
    <2>1. /\ GetRoutes[2].to = "references"
          /\ ToSet(GetRoutes[2].segments) = {":resource", "reference", ":field"}
      BY DEF GetRoutes, Route, ToSet
    <2>2. Captured(GetRoutes[2], s, ":resource") = s[1]
      BY <1>2 DEF GetRoutes, Route, Captured
    <2>3. Captured(GetRoutes[2], s, ":field") = s[3]
      BY <1>2 DEF GetRoutes, Route, Captured
    <2> QED BY <2>1, <2>2, <2>3 DEF Handled
  <1>3. ASSUME Len(s) = 1
        PROVE  Handled(GetRoutes[3], s) = Thing("jsonList", [resource |-> s[1]])
    <2>1. GetRoutes[3].to = "jsonList" /\ ToSet(GetRoutes[3].segments) = {":resource"}
      BY DEF GetRoutes, Route, ToSet
    <2>2. Captured(GetRoutes[3], s, ":resource") = s[1]
      BY <1>3 DEF GetRoutes, Route, Captured
    <2> QED BY <2>1, <2>2 DEF Handled
  <1>4. ASSUME Len(s) = 2
        PROVE  Handled(GetRoutes[4], s) = Thing("jsonGet", [resource |-> s[1], id |-> s[2]])
    <2>1. GetRoutes[4].to = "jsonGet" /\ ToSet(GetRoutes[4].segments) = {":resource", ":id"}
      BY DEF GetRoutes, Route, ToSet
    <2>2. Captured(GetRoutes[4], s, ":resource") = s[1]
      BY <1>4 DEF GetRoutes, Route, Captured
    <2>3. Captured(GetRoutes[4], s, ":id") = s[2]
      BY <1>4 DEF GetRoutes, Route, Captured
    <2> QED BY <2>1, <2>2, <2>3 DEF Handled
  <1> QED BY <1>1, <1>2, <1>3, <1>4

LEMMA PageHandles ==
  ASSUME NEW S, NEW s \in Seq(S)
  PROVE  /\ Len(s) = 2 =>
              Handled(PageRoutes[1], s) = Thing("queue", [queue |-> s[2]])
         /\ Len(s) = 1 =>
              Handled(PageRoutes[2], s) = Thing("resource", [resource |-> s[1]])
         /\ Len(s) = 2 =>
              Handled(PageRoutes[3], s) = Thing("create", [resource |-> s[1]])
         /\ Len(s) = 2 =>
              Handled(PageRoutes[4], s) = Thing("detail", [resource |-> s[1], id |-> s[2]])
         /\ Len(s) = 3 =>
              Handled(PageRoutes[5], s) = Thing("edit", [resource |-> s[1], id |-> s[2]])
  <1>1. ASSUME Len(s) = 2
        PROVE  Handled(PageRoutes[1], s) = Thing("queue", [queue |-> s[2]])
    <2>1. PageRoutes[1].to = "queue" /\ ToSet(PageRoutes[1].segments) = {"queues", ":queue"}
      BY DEF PageRoutes, Route, ToSet
    <2>2. Captured(PageRoutes[1], s, ":queue") = s[2]
      BY <1>1 DEF PageRoutes, Route, Captured
    <2> QED BY <2>1, <2>2 DEF Handled
  <1>2. ASSUME Len(s) = 1
        PROVE  Handled(PageRoutes[2], s) = Thing("resource", [resource |-> s[1]])
    <2>1. PageRoutes[2].to = "resource" /\ ToSet(PageRoutes[2].segments) = {":resource"}
      BY DEF PageRoutes, Route, ToSet
    <2>2. Captured(PageRoutes[2], s, ":resource") = s[1]
      BY <1>2 DEF PageRoutes, Route, Captured
    <2> QED BY <2>1, <2>2 DEF Handled
  <1>3. ASSUME Len(s) = 2
        PROVE  Handled(PageRoutes[3], s) = Thing("create", [resource |-> s[1]])
    <2>1. PageRoutes[3].to = "create" /\ ToSet(PageRoutes[3].segments) = {":resource", "new"}
      BY DEF PageRoutes, Route, ToSet
    <2>2. Captured(PageRoutes[3], s, ":resource") = s[1]
      BY <1>3 DEF PageRoutes, Route, Captured
    <2> QED BY <2>1, <2>2 DEF Handled
  <1>4. ASSUME Len(s) = 2
        PROVE  Handled(PageRoutes[4], s) = Thing("detail", [resource |-> s[1], id |-> s[2]])
    <2>1. PageRoutes[4].to = "detail" /\ ToSet(PageRoutes[4].segments) = {":resource", ":id"}
      BY DEF PageRoutes, Route, ToSet
    <2>2. Captured(PageRoutes[4], s, ":resource") = s[1]
      BY <1>4 DEF PageRoutes, Route, Captured
    <2>3. Captured(PageRoutes[4], s, ":id") = s[2]
      BY <1>4 DEF PageRoutes, Route, Captured
    <2> QED BY <2>1, <2>2, <2>3 DEF Handled
  <1>5. ASSUME Len(s) = 3
        PROVE  Handled(PageRoutes[5], s) = Thing("edit", [resource |-> s[1], id |-> s[2]])
    <2>1. /\ PageRoutes[5].to = "edit"
          /\ ToSet(PageRoutes[5].segments) = {":resource", ":id", "edit"}
      BY DEF PageRoutes, Route, ToSet
    <2>2. Captured(PageRoutes[5], s, ":resource") = s[1]
      BY <1>5 DEF PageRoutes, Route, Captured
    <2>3. Captured(PageRoutes[5], s, ":id") = s[2]
      BY <1>5 DEF PageRoutes, Route, Captured
    <2> QED BY <2>1, <2>2, <2>3 DEF Handled
  <1> QED BY <1>1, <1>2, <1>3, <1>4, <1>5

LEMMA PostHandles ==
  ASSUME NEW S, NEW s \in Seq(S)
  PROVE  /\ Len(s) = 5 =>
              Handled(PostRoutes[1], s) =
                Thing("drawerAction", [resource |-> s[2], id |-> s[3], action |-> s[5]])
         /\ Len(s) = 4 =>
              Handled(PostRoutes[2], s) =
                Thing("dashboardAction", [path |-> decodeDashboardPath(s[2]), action |-> s[4]])
         /\ Len(s) = 4 =>
              Handled(PostRoutes[3], s) =
                Thing("rowAction", [resource |-> s[1], id |-> s[2], action |-> s[4]])
         /\ Len(s) = 3 =>
              Handled(PostRoutes[4], s) =
                Thing("bulkAction", [resource |-> s[1], action |-> s[3]])
         /\ Len(s) = 2 =>
              Handled(PostRoutes[5], s) = Thing("import", [resource |-> s[1]])
         /\ Len(s) = 2 =>
              Handled(PostRoutes[6], s) = Thing("createForm", [resource |-> s[1]])
         /\ Len(s) = 3 =>
              Handled(PostRoutes[7], s) = Thing("inlineUpdate", [resource |-> s[1], id |-> s[2]])
         /\ Len(s) = 3 =>
              Handled(PostRoutes[8], s) = Thing("editForm", [resource |-> s[1], id |-> s[2]])
         /\ Len(s) = 3 =>
              Handled(PostRoutes[9], s) = Thing("restore", [resource |-> s[1], id |-> s[2]])
         /\ Len(s) = 1 =>
              Handled(PostRoutes[10], s) = Thing("jsonCreate", [resource |-> s[1]])
  <1>1. ASSUME Len(s) = 5
        PROVE  Handled(PostRoutes[1], s) =
                 Thing("drawerAction", [resource |-> s[2], id |-> s[3], action |-> s[5]])
    <2>1. /\ PostRoutes[1].to = "drawerAction"
          /\ ToSet(PostRoutes[1].segments) = {"drawer", ":resource", ":id", "actions", ":action"}
      BY DEF PostRoutes, Route, ToSet
    <2>2. Captured(PostRoutes[1], s, ":resource") = s[2]
      BY <1>1 DEF PostRoutes, Route, Captured
    <2>3. Captured(PostRoutes[1], s, ":id") = s[3]
      BY <1>1 DEF PostRoutes, Route, Captured
    <2>4. Captured(PostRoutes[1], s, ":action") = s[5]
      BY <1>1 DEF PostRoutes, Route, Captured
    <2> QED BY <2>1, <2>2, <2>3, <2>4 DEF Handled
  <1>2. ASSUME Len(s) = 4
        PROVE  Handled(PostRoutes[2], s) =
                 Thing("dashboardAction", [path |-> decodeDashboardPath(s[2]), action |-> s[4]])
    <2>1. /\ PostRoutes[2].to = "dashboardAction"
          /\ ToSet(PostRoutes[2].segments) = {"dashboards", ":dashboard", "actions", ":action"}
      BY DEF PostRoutes, Route, ToSet
    <2>2. Captured(PostRoutes[2], s, ":dashboard") = s[2]
      BY <1>2 DEF PostRoutes, Route, Captured
    <2>3. Captured(PostRoutes[2], s, ":action") = s[4]
      BY <1>2 DEF PostRoutes, Route, Captured
    <2> QED BY <2>1, <2>2, <2>3 DEF Handled
  <1>3. ASSUME Len(s) = 4
        PROVE  Handled(PostRoutes[3], s) =
                 Thing("rowAction", [resource |-> s[1], id |-> s[2], action |-> s[4]])
    <2>1. /\ PostRoutes[3].to = "rowAction"
          /\ ToSet(PostRoutes[3].segments) = {":resource", ":id", "actions", ":action"}
      BY DEF PostRoutes, Route, ToSet
    <2>2. Captured(PostRoutes[3], s, ":resource") = s[1]
      BY <1>3 DEF PostRoutes, Route, Captured
    <2>3. Captured(PostRoutes[3], s, ":id") = s[2]
      BY <1>3 DEF PostRoutes, Route, Captured
    <2>4. Captured(PostRoutes[3], s, ":action") = s[4]
      BY <1>3 DEF PostRoutes, Route, Captured
    <2> QED BY <2>1, <2>2, <2>3, <2>4 DEF Handled
  <1>4. ASSUME Len(s) = 3
        PROVE  Handled(PostRoutes[4], s) =
                 Thing("bulkAction", [resource |-> s[1], action |-> s[3]])
    <2>1. /\ PostRoutes[4].to = "bulkAction"
          /\ ToSet(PostRoutes[4].segments) = {":resource", "bulk-actions", ":action"}
      BY DEF PostRoutes, Route, ToSet
    <2>2. Captured(PostRoutes[4], s, ":resource") = s[1]
      BY <1>4 DEF PostRoutes, Route, Captured
    <2>3. Captured(PostRoutes[4], s, ":action") = s[3]
      BY <1>4 DEF PostRoutes, Route, Captured
    <2> QED BY <2>1, <2>2, <2>3 DEF Handled
  <1>5. ASSUME Len(s) = 2
        PROVE  Handled(PostRoutes[5], s) = Thing("import", [resource |-> s[1]])
    <2>1. PostRoutes[5].to = "import" /\ ToSet(PostRoutes[5].segments) = {":resource", "import"}
      BY DEF PostRoutes, Route, ToSet
    <2>2. Captured(PostRoutes[5], s, ":resource") = s[1]
      BY <1>5 DEF PostRoutes, Route, Captured
    <2> QED BY <2>1, <2>2 DEF Handled
  <1>6. ASSUME Len(s) = 2
        PROVE  Handled(PostRoutes[6], s) = Thing("createForm", [resource |-> s[1]])
    <2>1. /\ PostRoutes[6].to = "createForm"
          /\ ToSet(PostRoutes[6].segments) = {":resource", "create"}
      BY DEF PostRoutes, Route, ToSet
    <2>2. Captured(PostRoutes[6], s, ":resource") = s[1]
      BY <1>6 DEF PostRoutes, Route, Captured
    <2> QED BY <2>1, <2>2 DEF Handled
  <1>7. ASSUME Len(s) = 3
        PROVE  Handled(PostRoutes[7], s) = Thing("inlineUpdate", [resource |-> s[1], id |-> s[2]])
    <2>1. /\ PostRoutes[7].to = "inlineUpdate"
          /\ ToSet(PostRoutes[7].segments) = {":resource", ":id", "update"}
      BY DEF PostRoutes, Route, ToSet
    <2>2. Captured(PostRoutes[7], s, ":resource") = s[1]
      BY <1>7 DEF PostRoutes, Route, Captured
    <2>3. Captured(PostRoutes[7], s, ":id") = s[2]
      BY <1>7 DEF PostRoutes, Route, Captured
    <2> QED BY <2>1, <2>2, <2>3 DEF Handled
  <1>8. ASSUME Len(s) = 3
        PROVE  Handled(PostRoutes[8], s) = Thing("editForm", [resource |-> s[1], id |-> s[2]])
    <2>1. /\ PostRoutes[8].to = "editForm"
          /\ ToSet(PostRoutes[8].segments) = {":resource", ":id", "edit"}
      BY DEF PostRoutes, Route, ToSet
    <2>2. Captured(PostRoutes[8], s, ":resource") = s[1]
      BY <1>8 DEF PostRoutes, Route, Captured
    <2>3. Captured(PostRoutes[8], s, ":id") = s[2]
      BY <1>8 DEF PostRoutes, Route, Captured
    <2> QED BY <2>1, <2>2, <2>3 DEF Handled
  <1>9. ASSUME Len(s) = 3
        PROVE  Handled(PostRoutes[9], s) = Thing("restore", [resource |-> s[1], id |-> s[2]])
    <2>1. /\ PostRoutes[9].to = "restore"
          /\ ToSet(PostRoutes[9].segments) = {":resource", ":id", "restore"}
      BY DEF PostRoutes, Route, ToSet
    <2>2. Captured(PostRoutes[9], s, ":resource") = s[1]
      BY <1>9 DEF PostRoutes, Route, Captured
    <2>3. Captured(PostRoutes[9], s, ":id") = s[2]
      BY <1>9 DEF PostRoutes, Route, Captured
    <2> QED BY <2>1, <2>2, <2>3 DEF Handled
  <1>10. ASSUME Len(s) = 1
         PROVE  Handled(PostRoutes[10], s) = Thing("jsonCreate", [resource |-> s[1]])
    <2>1. PostRoutes[10].to = "jsonCreate" /\ ToSet(PostRoutes[10].segments) = {":resource"}
      BY DEF PostRoutes, Route, ToSet
    <2>2. Captured(PostRoutes[10], s, ":resource") = s[1]
      BY <1>10 DEF PostRoutes, Route, Captured
    <2> QED BY <2>1, <2>2 DEF Handled
  <1> QED BY <1>1, <1>2, <1>3, <1>4, <1>5, <1>6, <1>7, <1>8, <1>9, <1>10

\* The words of the routes are different segments.
LEMMA WordsDiffer ==
  /\ \A x, y : Atom(x) = Atom(y) => x = y
  /\ Atom("create") # Atom("import") /\ Atom("update") # Atom("edit")
  /\ Atom("update") # Atom("restore") /\ Atom("edit") # Atom("restore")
  <1>1. \A x, y : Atom(x) = Atom(y) => x = y
    BY DEF Atom, Text
  <1> QED BY <1>1

\* Where an address goes: the first route that fits, table by table.
GetDispatching(s) ==
  /\ Len(s) = 3 /\ s[1] = Atom("drawer") =>
       dispatch(GetRoutes, s) = Thing("drawer", [resource |-> s[2], id |-> s[3]])
  /\ Len(s) = 3 /\ s[1] # Atom("drawer") /\ s[2] = Atom("reference") =>
       dispatch(GetRoutes, s) = Thing("references", [resource |-> s[1], field |-> s[3]])
  /\ Len(s) = 1 =>
       dispatch(GetRoutes, s) = Thing("jsonList", [resource |-> s[1]])
  /\ Len(s) = 2 =>
       dispatch(GetRoutes, s) = Thing("jsonGet", [resource |-> s[1], id |-> s[2]])

LEMMA GetDispatches ==
  ASSUME NEW S, NEW s \in Seq(S)
  PROVE  GetDispatching(s)
  <1>0. DOMAIN GetRoutes = 1..4
    BY DEF GetRoutes
  <1>m. GetMatching(s)
    BY GetMatches
  <1>1. \A i \in 1..4 :
         matchRoute(GetRoutes[i], s) /\ (\A j \in 1..4 : j < i => ~matchRoute(GetRoutes[j], s)) =>
           dispatch(GetRoutes, s) = Handled(GetRoutes[i], s)
    BY <1>0, FirstMatch
  <1>2. ASSUME Len(s) = 3 /\ s[1] = Atom("drawer")
        PROVE  dispatch(GetRoutes, s) = Thing("drawer", [resource |-> s[2], id |-> s[3]])
    <2>1. \A j \in 1..4 : j < 1 => ~matchRoute(GetRoutes[j], s)
      OBVIOUS
    <2>2. matchRoute(GetRoutes[1], s)
      BY <1>2, <1>m DEF GetMatching
    <2>3. dispatch(GetRoutes, s) = Handled(GetRoutes[1], s)
      BY <1>1, <2>1, <2>2
    <2> QED BY <1>2, <2>3, GetHandles
  <1>3. ASSUME Len(s) = 3 /\ s[1] # Atom("drawer") /\ s[2] = Atom("reference")
        PROVE  dispatch(GetRoutes, s) = Thing("references", [resource |-> s[1], field |-> s[3]])
    <2>1. \A j \in 1..4 : j < 2 => ~matchRoute(GetRoutes[j], s)
      <3>1. ~matchRoute(GetRoutes[1], s)
        BY <1>3, <1>m DEF GetMatching
      <3> QED BY <3>1
    <2>2. matchRoute(GetRoutes[2], s)
      BY <1>3, <1>m DEF GetMatching
    <2>3. dispatch(GetRoutes, s) = Handled(GetRoutes[2], s)
      BY <1>1, <2>1, <2>2
    <2> QED BY <1>3, <2>3, GetHandles
  <1>4. ASSUME Len(s) = 1
        PROVE  dispatch(GetRoutes, s) = Thing("jsonList", [resource |-> s[1]])
    <2>1. \A j \in 1..4 : j < 3 => ~matchRoute(GetRoutes[j], s)
      <3>1. /\ ~matchRoute(GetRoutes[1], s)
            /\ ~matchRoute(GetRoutes[2], s)
        BY <1>4, <1>m DEF GetMatching
      <3>2. \A j \in 1..4 : j < 3 => j \in {1, 2}
        OBVIOUS
      <3> QED BY <3>1, <3>2
    <2>2. matchRoute(GetRoutes[3], s)
      BY <1>4, <1>m DEF GetMatching
    <2>3. dispatch(GetRoutes, s) = Handled(GetRoutes[3], s)
      BY <1>1, <2>1, <2>2
    <2> QED BY <1>4, <2>3, GetHandles
  <1>5. ASSUME Len(s) = 2
        PROVE  dispatch(GetRoutes, s) = Thing("jsonGet", [resource |-> s[1], id |-> s[2]])
    <2>1. \A j \in 1..4 : j < 4 => ~matchRoute(GetRoutes[j], s)
      <3>1. /\ ~matchRoute(GetRoutes[1], s)
            /\ ~matchRoute(GetRoutes[2], s)
            /\ ~matchRoute(GetRoutes[3], s)
        BY <1>5, <1>m DEF GetMatching
      <3>2. \A j \in 1..4 : j < 4 => j \in {1, 2, 3}
        OBVIOUS
      <3> QED BY <3>1, <3>2
    <2>2. matchRoute(GetRoutes[4], s)
      BY <1>5, <1>m DEF GetMatching
    <2>3. dispatch(GetRoutes, s) = Handled(GetRoutes[4], s)
      BY <1>1, <2>1, <2>2
    <2> QED BY <1>5, <2>3, GetHandles
  <1> QED BY <1>2, <1>3, <1>4, <1>5 DEF GetDispatching

PageDispatching(s) ==
  /\ Len(s) = 2 /\ s[1] = Atom("queues") =>
       dispatch(PageRoutes, s) = Thing("queue", [queue |-> s[2]])
  /\ Len(s) = 1 =>
       dispatch(PageRoutes, s) = Thing("resource", [resource |-> s[1]])
  /\ Len(s) = 2 /\ s[1] # Atom("queues") /\ s[2] = Atom("new") =>
       dispatch(PageRoutes, s) = Thing("create", [resource |-> s[1]])
  /\ Len(s) = 2 /\ s[1] # Atom("queues") /\ s[2] # Atom("new") =>
       dispatch(PageRoutes, s) = Thing("detail", [resource |-> s[1], id |-> s[2]])
  /\ Len(s) = 3 /\ s[3] = Atom("edit") =>
       dispatch(PageRoutes, s) = Thing("edit", [resource |-> s[1], id |-> s[2]])

LEMMA PageDispatches ==
  ASSUME NEW S, NEW s \in Seq(S)
  PROVE  PageDispatching(s)
  <1>0. DOMAIN PageRoutes = 1..5
    BY DEF PageRoutes
  <1>m. PageMatching(s)
    BY PageMatches
  <1>1. \A i \in 1..5 :
         matchRoute(PageRoutes[i], s) /\ (\A j \in 1..5 : j < i => ~matchRoute(PageRoutes[j], s)) =>
           dispatch(PageRoutes, s) = Handled(PageRoutes[i], s)
    BY <1>0, FirstMatch
  <1>2. ASSUME Len(s) = 2 /\ s[1] = Atom("queues")
        PROVE  dispatch(PageRoutes, s) = Thing("queue", [queue |-> s[2]])
    <2>1. \A j \in 1..5 : j < 1 => ~matchRoute(PageRoutes[j], s)
      OBVIOUS
    <2>2. matchRoute(PageRoutes[1], s)
      BY <1>2, <1>m DEF PageMatching
    <2>3. dispatch(PageRoutes, s) = Handled(PageRoutes[1], s)
      BY <1>1, <2>1, <2>2
    <2> QED BY <1>2, <2>3, PageHandles
  <1>3. ASSUME Len(s) = 1
        PROVE  dispatch(PageRoutes, s) = Thing("resource", [resource |-> s[1]])
    <2>1. \A j \in 1..5 : j < 2 => ~matchRoute(PageRoutes[j], s)
      <3>1. ~matchRoute(PageRoutes[1], s)
        BY <1>3, <1>m DEF PageMatching
      <3> QED BY <3>1
    <2>2. matchRoute(PageRoutes[2], s)
      BY <1>3, <1>m DEF PageMatching
    <2>3. dispatch(PageRoutes, s) = Handled(PageRoutes[2], s)
      BY <1>1, <2>1, <2>2
    <2> QED BY <1>3, <2>3, PageHandles
  <1>4. ASSUME Len(s) = 2 /\ s[1] # Atom("queues") /\ s[2] = Atom("new")
        PROVE  dispatch(PageRoutes, s) = Thing("create", [resource |-> s[1]])
    <2>1. \A j \in 1..5 : j < 3 => ~matchRoute(PageRoutes[j], s)
      <3>1. /\ ~matchRoute(PageRoutes[1], s)
            /\ ~matchRoute(PageRoutes[2], s)
        BY <1>4, <1>m DEF PageMatching
      <3>2. \A j \in 1..5 : j < 3 => j \in {1, 2}
        OBVIOUS
      <3> QED BY <3>1, <3>2
    <2>2. matchRoute(PageRoutes[3], s)
      BY <1>4, <1>m DEF PageMatching
    <2>3. dispatch(PageRoutes, s) = Handled(PageRoutes[3], s)
      BY <1>1, <2>1, <2>2
    <2> QED BY <1>4, <2>3, PageHandles
  <1>5. ASSUME Len(s) = 2 /\ s[1] # Atom("queues") /\ s[2] # Atom("new")
        PROVE  dispatch(PageRoutes, s) = Thing("detail", [resource |-> s[1], id |-> s[2]])
    <2>1. \A j \in 1..5 : j < 4 => ~matchRoute(PageRoutes[j], s)
      <3>1. /\ ~matchRoute(PageRoutes[1], s)
            /\ ~matchRoute(PageRoutes[2], s)
            /\ ~matchRoute(PageRoutes[3], s)
        BY <1>5, <1>m DEF PageMatching
      <3>2. \A j \in 1..5 : j < 4 => j \in {1, 2, 3}
        OBVIOUS
      <3> QED BY <3>1, <3>2
    <2>2. matchRoute(PageRoutes[4], s)
      BY <1>5, <1>m DEF PageMatching
    <2>3. dispatch(PageRoutes, s) = Handled(PageRoutes[4], s)
      BY <1>1, <2>1, <2>2
    <2> QED BY <1>5, <2>3, PageHandles
  <1>6. ASSUME Len(s) = 3 /\ s[3] = Atom("edit")
        PROVE  dispatch(PageRoutes, s) = Thing("edit", [resource |-> s[1], id |-> s[2]])
    <2>1. \A j \in 1..5 : j < 5 => ~matchRoute(PageRoutes[j], s)
      <3>1. /\ ~matchRoute(PageRoutes[1], s)
            /\ ~matchRoute(PageRoutes[2], s)
            /\ ~matchRoute(PageRoutes[3], s)
            /\ ~matchRoute(PageRoutes[4], s)
        BY <1>6, <1>m DEF PageMatching
      <3>2. \A j \in 1..5 : j < 5 => j \in {1, 2, 3, 4}
        OBVIOUS
      <3> QED BY <3>1, <3>2
    <2>2. matchRoute(PageRoutes[5], s)
      BY <1>6, <1>m DEF PageMatching
    <2>3. dispatch(PageRoutes, s) = Handled(PageRoutes[5], s)
      BY <1>1, <2>1, <2>2
    <2> QED BY <1>6, <2>3, PageHandles
  <1> QED BY <1>2, <1>3, <1>4, <1>5, <1>6 DEF PageDispatching

PostDispatching(s) ==
  /\ Len(s) = 5 /\ s[1] = Atom("drawer") /\ s[4] = Atom("actions") =>
       dispatch(PostRoutes, s) =
         Thing("drawerAction", [resource |-> s[2], id |-> s[3], action |-> s[5]])
  /\ Len(s) = 4 /\ s[1] = Atom("dashboards") /\ s[3] = Atom("actions") =>
       dispatch(PostRoutes, s) =
         Thing("dashboardAction", [path |-> decodeDashboardPath(s[2]), action |-> s[4]])
  /\ Len(s) = 4 /\ s[1] # Atom("dashboards") /\ s[3] = Atom("actions") =>
       dispatch(PostRoutes, s) =
         Thing("rowAction", [resource |-> s[1], id |-> s[2], action |-> s[4]])
  /\ Len(s) = 3 /\ s[2] = Atom("bulk-actions") =>
       dispatch(PostRoutes, s) = Thing("bulkAction", [resource |-> s[1], action |-> s[3]])
  /\ Len(s) = 2 /\ s[2] = Atom("import") =>
       dispatch(PostRoutes, s) = Thing("import", [resource |-> s[1]])
  /\ Len(s) = 2 /\ s[2] = Atom("create") =>
       dispatch(PostRoutes, s) = Thing("createForm", [resource |-> s[1]])
  /\ Len(s) = 3 /\ s[2] # Atom("bulk-actions") /\ s[3] = Atom("update") =>
       dispatch(PostRoutes, s) = Thing("inlineUpdate", [resource |-> s[1], id |-> s[2]])
  /\ Len(s) = 3 /\ s[2] # Atom("bulk-actions") /\ s[3] = Atom("edit") =>
       dispatch(PostRoutes, s) = Thing("editForm", [resource |-> s[1], id |-> s[2]])
  /\ Len(s) = 3 /\ s[2] # Atom("bulk-actions") /\ s[3] = Atom("restore") =>
       dispatch(PostRoutes, s) = Thing("restore", [resource |-> s[1], id |-> s[2]])
  /\ Len(s) = 1 =>
       dispatch(PostRoutes, s) = Thing("jsonCreate", [resource |-> s[1]])

LEMMA PostDispatches ==
  ASSUME NEW S, NEW s \in Seq(S)
  PROVE  PostDispatching(s)
  <1>0. DOMAIN PostRoutes = 1..10
    BY DEF PostRoutes
  <1>m. PostMatching(s)
    BY PostMatches
  <1>1. \A i \in 1..10 :
         (/\ matchRoute(PostRoutes[i], s)
          /\ \A j \in 1..10 : j < i => ~matchRoute(PostRoutes[j], s))
         =>
           dispatch(PostRoutes, s) = Handled(PostRoutes[i], s)
    BY <1>0, FirstMatch
  <1>2. ASSUME Len(s) = 5 /\ s[1] = Atom("drawer") /\ s[4] = Atom("actions")
        PROVE  dispatch(PostRoutes, s) =
           Thing("drawerAction", [resource |-> s[2], id |-> s[3], action |-> s[5]])
    <2>1. \A j \in 1..10 : j < 1 => ~matchRoute(PostRoutes[j], s)
      OBVIOUS
    <2>2. matchRoute(PostRoutes[1], s)
      BY <1>2, <1>m DEF PostMatching
    <2>3. dispatch(PostRoutes, s) = Handled(PostRoutes[1], s)
      BY <1>1, <2>1, <2>2
    <2> QED BY <1>2, <2>3, PostHandles
  <1>3. ASSUME Len(s) = 4 /\ s[1] = Atom("dashboards") /\ s[3] = Atom("actions")
        PROVE  dispatch(PostRoutes, s) =
           Thing("dashboardAction", [path |-> decodeDashboardPath(s[2]), action |-> s[4]])
    <2>1. \A j \in 1..10 : j < 2 => ~matchRoute(PostRoutes[j], s)
      <3>1. ~matchRoute(PostRoutes[1], s)
        BY <1>3, <1>m DEF PostMatching
      <3> QED BY <3>1
    <2>2. matchRoute(PostRoutes[2], s)
      BY <1>3, <1>m DEF PostMatching
    <2>3. dispatch(PostRoutes, s) = Handled(PostRoutes[2], s)
      BY <1>1, <2>1, <2>2
    <2> QED BY <1>3, <2>3, PostHandles
  <1>4. ASSUME Len(s) = 4 /\ s[1] # Atom("dashboards") /\ s[3] = Atom("actions")
        PROVE  dispatch(PostRoutes, s) =
           Thing("rowAction", [resource |-> s[1], id |-> s[2], action |-> s[4]])
    <2>1. \A j \in 1..10 : j < 3 => ~matchRoute(PostRoutes[j], s)
      <3>1. /\ ~matchRoute(PostRoutes[1], s)
            /\ ~matchRoute(PostRoutes[2], s)
        BY <1>4, <1>m DEF PostMatching
      <3>2. \A j \in 1..10 : j < 3 => j \in {1, 2}
        OBVIOUS
      <3> QED BY <3>1, <3>2
    <2>2. matchRoute(PostRoutes[3], s)
      BY <1>4, <1>m DEF PostMatching
    <2>3. dispatch(PostRoutes, s) = Handled(PostRoutes[3], s)
      BY <1>1, <2>1, <2>2
    <2> QED BY <1>4, <2>3, PostHandles
  <1>5. ASSUME Len(s) = 3 /\ s[2] = Atom("bulk-actions")
        PROVE  dispatch(PostRoutes, s) = Thing("bulkAction", [resource |-> s[1], action |-> s[3]])
    <2>1. \A j \in 1..10 : j < 4 => ~matchRoute(PostRoutes[j], s)
      <3>1. /\ ~matchRoute(PostRoutes[1], s)
            /\ ~matchRoute(PostRoutes[2], s)
            /\ ~matchRoute(PostRoutes[3], s)
        BY <1>5, <1>m DEF PostMatching
      <3>2. \A j \in 1..10 : j < 4 => j \in {1, 2, 3}
        OBVIOUS
      <3> QED BY <3>1, <3>2
    <2>2. matchRoute(PostRoutes[4], s)
      BY <1>5, <1>m DEF PostMatching
    <2>3. dispatch(PostRoutes, s) = Handled(PostRoutes[4], s)
      BY <1>1, <2>1, <2>2
    <2> QED BY <1>5, <2>3, PostHandles
  <1>6. ASSUME Len(s) = 2 /\ s[2] = Atom("import")
        PROVE  dispatch(PostRoutes, s) = Thing("import", [resource |-> s[1]])
    <2>1. \A j \in 1..10 : j < 5 => ~matchRoute(PostRoutes[j], s)
      <3>1. /\ ~matchRoute(PostRoutes[1], s)
            /\ ~matchRoute(PostRoutes[2], s)
            /\ ~matchRoute(PostRoutes[3], s)
            /\ ~matchRoute(PostRoutes[4], s)
        BY <1>6, <1>m DEF PostMatching
      <3>2. \A j \in 1..10 : j < 5 => j \in {1, 2, 3, 4}
        OBVIOUS
      <3> QED BY <3>1, <3>2
    <2>2. matchRoute(PostRoutes[5], s)
      BY <1>6, <1>m DEF PostMatching
    <2>3. dispatch(PostRoutes, s) = Handled(PostRoutes[5], s)
      BY <1>1, <2>1, <2>2
    <2> QED BY <1>6, <2>3, PostHandles
  <1>7. ASSUME Len(s) = 2 /\ s[2] = Atom("create")
        PROVE  dispatch(PostRoutes, s) = Thing("createForm", [resource |-> s[1]])
    <2>1. \A j \in 1..10 : j < 6 => ~matchRoute(PostRoutes[j], s)
      <3>1. /\ ~matchRoute(PostRoutes[1], s)
            /\ ~matchRoute(PostRoutes[2], s)
            /\ ~matchRoute(PostRoutes[3], s)
            /\ ~matchRoute(PostRoutes[4], s)
            /\ ~matchRoute(PostRoutes[5], s)
        BY <1>7, <1>m, WordsDiffer DEF PostMatching
      <3>2. \A j \in 1..10 : j < 6 => j \in {1, 2, 3, 4, 5}
        OBVIOUS
      <3> QED BY <3>1, <3>2
    <2>2. matchRoute(PostRoutes[6], s)
      BY <1>7, <1>m DEF PostMatching
    <2>3. dispatch(PostRoutes, s) = Handled(PostRoutes[6], s)
      BY <1>1, <2>1, <2>2
    <2> QED BY <1>7, <2>3, PostHandles
  <1>8. ASSUME Len(s) = 3 /\ s[2] # Atom("bulk-actions") /\ s[3] = Atom("update")
        PROVE  dispatch(PostRoutes, s) = Thing("inlineUpdate", [resource |-> s[1], id |-> s[2]])
    <2>1. \A j \in 1..10 : j < 7 => ~matchRoute(PostRoutes[j], s)
      <3>1. /\ ~matchRoute(PostRoutes[1], s)
            /\ ~matchRoute(PostRoutes[2], s)
            /\ ~matchRoute(PostRoutes[3], s)
            /\ ~matchRoute(PostRoutes[4], s)
            /\ ~matchRoute(PostRoutes[5], s)
            /\ ~matchRoute(PostRoutes[6], s)
        BY <1>8, <1>m DEF PostMatching
      <3>2. \A j \in 1..10 : j < 7 => j \in {1, 2, 3, 4, 5, 6}
        OBVIOUS
      <3> QED BY <3>1, <3>2
    <2>2. matchRoute(PostRoutes[7], s)
      BY <1>8, <1>m DEF PostMatching
    <2>3. dispatch(PostRoutes, s) = Handled(PostRoutes[7], s)
      BY <1>1, <2>1, <2>2
    <2> QED BY <1>8, <2>3, PostHandles
  <1>9. ASSUME Len(s) = 3 /\ s[2] # Atom("bulk-actions") /\ s[3] = Atom("edit")
        PROVE  dispatch(PostRoutes, s) = Thing("editForm", [resource |-> s[1], id |-> s[2]])
    <2>1. \A j \in 1..10 : j < 8 => ~matchRoute(PostRoutes[j], s)
      <3>1. /\ ~matchRoute(PostRoutes[1], s)
            /\ ~matchRoute(PostRoutes[2], s)
            /\ ~matchRoute(PostRoutes[3], s)
            /\ ~matchRoute(PostRoutes[4], s)
            /\ ~matchRoute(PostRoutes[5], s)
            /\ ~matchRoute(PostRoutes[6], s)
            /\ ~matchRoute(PostRoutes[7], s)
        BY <1>9, <1>m, WordsDiffer DEF PostMatching
      <3>2. \A j \in 1..10 : j < 8 => j \in {1, 2, 3, 4, 5, 6, 7}
        OBVIOUS
      <3> QED BY <3>1, <3>2
    <2>2. matchRoute(PostRoutes[8], s)
      BY <1>9, <1>m DEF PostMatching
    <2>3. dispatch(PostRoutes, s) = Handled(PostRoutes[8], s)
      BY <1>1, <2>1, <2>2
    <2> QED BY <1>9, <2>3, PostHandles
  <1>10. ASSUME Len(s) = 3 /\ s[2] # Atom("bulk-actions") /\ s[3] = Atom("restore")
        PROVE  dispatch(PostRoutes, s) = Thing("restore", [resource |-> s[1], id |-> s[2]])
    <2>1. \A j \in 1..10 : j < 9 => ~matchRoute(PostRoutes[j], s)
      <3>1. /\ ~matchRoute(PostRoutes[1], s)
            /\ ~matchRoute(PostRoutes[2], s)
            /\ ~matchRoute(PostRoutes[3], s)
            /\ ~matchRoute(PostRoutes[4], s)
            /\ ~matchRoute(PostRoutes[5], s)
            /\ ~matchRoute(PostRoutes[6], s)
            /\ ~matchRoute(PostRoutes[7], s)
            /\ ~matchRoute(PostRoutes[8], s)
        BY <1>10, <1>m, WordsDiffer DEF PostMatching
      <3>2. \A j \in 1..10 : j < 9 => j \in {1, 2, 3, 4, 5, 6, 7, 8}
        OBVIOUS
      <3> QED BY <3>1, <3>2
    <2>2. matchRoute(PostRoutes[9], s)
      BY <1>10, <1>m DEF PostMatching
    <2>3. dispatch(PostRoutes, s) = Handled(PostRoutes[9], s)
      BY <1>1, <2>1, <2>2
    <2> QED BY <1>10, <2>3, PostHandles
  <1>11. ASSUME Len(s) = 1
        PROVE  dispatch(PostRoutes, s) = Thing("jsonCreate", [resource |-> s[1]])
    <2>1. \A j \in 1..10 : j < 10 => ~matchRoute(PostRoutes[j], s)
      <3>1. /\ ~matchRoute(PostRoutes[1], s)
            /\ ~matchRoute(PostRoutes[2], s)
            /\ ~matchRoute(PostRoutes[3], s)
            /\ ~matchRoute(PostRoutes[4], s)
            /\ ~matchRoute(PostRoutes[5], s)
            /\ ~matchRoute(PostRoutes[6], s)
            /\ ~matchRoute(PostRoutes[7], s)
            /\ ~matchRoute(PostRoutes[8], s)
            /\ ~matchRoute(PostRoutes[9], s)
        BY <1>11, <1>m DEF PostMatching
      <3>2. \A j \in 1..10 : j < 10 => j \in {1, 2, 3, 4, 5, 6, 7, 8, 9}
        OBVIOUS
      <3> QED BY <3>1, <3>2
    <2>2. matchRoute(PostRoutes[10], s)
      BY <1>11, <1>m DEF PostMatching
    <2>3. dispatch(PostRoutes, s) = Handled(PostRoutes[10], s)
      BY <1>1, <2>1, <2>2
    <2> QED BY <1>11, <2>3, PostHandles
  <1> QED BY <1>2, <1>3, <1>4, <1>5, <1>6, <1>7, <1>8, <1>9, <1>10, <1>11 DEF PostDispatching

-----------------------------------------------------------------------------
LEMMA MapIsSequence ==
  ASSUME NEW n \in Nat, NEW U, NEW f \in [1..n -> U]
  PROVE  f \in Seq(U) /\ Len(f) = n /\ DOMAIN f = 1..n
  OBVIOUS

\* What compileAdmin found of the configuration.

\* What the configurations are made of.
LEMMA SiteTypes ==
  ASSUME site \in Sites
  PROVE  /\ site.resources \in Seq(Resources) /\ site.queues \in Seq(Queues)
         /\ site.dashboards \in Seq(ToSet(site.dashboards))
         /\ site.pages \in Seq(ToSet(site.pages))
         /\ \A d \in ToSet(site.dashboards) \cup ToSet(site.pages) :
              /\ d.path \in Seq(ToSet(d.path)) /\ d.spelling \in Spellings
              /\ d.path = <<>> => d.spelling = "plain"
         /\ Components \subseteq ToSet(site.pages)
  BY SitesAssumption DEF Resources, Queues, Components

\* No resource or queue is called like a reserved segment.
LEMMA NamesAreFree ==
  ASSUME site \in Sites, AcceptedSite
  PROVE  \A r \in Resources : r # "drawer" /\ r # "dashboards" /\ r # "queues"
  <1> SUFFICES ASSUME NEW r \in Resources PROVE r \in ToSet(ClaimedNames)
    BY DEF AcceptedSite, RESERVED_ROUTE_SEGMENTS
  <1> DEFINE S == Resources \cup Queues
  <1>1. site.resources \in Seq(S) /\ site.queues \in Seq(S)
    BY SiteTypes
  <1> HIDE DEF S
  <1>2. PICK i \in 1..Len(site.resources) : site.resources[i] = r
    BY <1>1 DEF Resources, ToSet
  <1>3. PICK names, first, second :
          names = ClaimedNames /\ first = site.resources /\ second = site.queues
    OBVIOUS
  <1>4. names = first \o second /\ first \in Seq(S) /\ second \in Seq(S)
        /\ i \in 1..Len(first) /\ first[i] = r
    BY <1>1, <1>2, <1>3 DEF ClaimedNames
  <1>5. i \in DOMAIN names /\ names[i] = r
    BY ONLY <1>4
  <1> QED BY <1>3, <1>5 DEF ToSet

\* Where the paths of a kind of thing are among those claimed.
AfterResources == Len(site.resources)
AfterDashboards == AfterResources + Len(site.dashboards)
AfterPages == AfterDashboards + Len(site.pages)

\* Where in the claimed paths each declaration stands.
ClaimsInOrder ==
  /\ AfterResources \in Nat /\ AfterDashboards \in Nat /\ AfterPages \in Nat
  /\ AfterResources <= AfterDashboards /\ AfterDashboards <= AfterPages
  /\ Len(site.queues) \in Nat
  /\ DOMAIN ClaimedPaths = 1..(AfterPages + Len(site.queues))
  /\ \A i \in DOMAIN site.resources :
       i \in 1..AfterResources /\ ClaimedPaths[i] = <<site.resources[i]>>
  /\ \A i \in DOMAIN site.dashboards :
       /\ i \in 1..(AfterDashboards - AfterResources)
       /\ ClaimedPaths[AfterResources + i] = site.dashboards[i].path
  /\ \A i \in DOMAIN site.pages :
       /\ i \in 1..(AfterPages - AfterDashboards)
       /\ ClaimedPaths[AfterDashboards + i] = site.pages[i].path
  /\ \A i \in DOMAIN site.queues :
       /\ i \in 1..Len(site.queues)
       /\ ClaimedPaths[AfterPages + i] = <<"queues", site.queues[i]>>

LEMMA ClaimsAre == site \in Sites => ClaimsInOrder
  <1> SUFFICES ASSUME site \in Sites PROVE ClaimsInOrder
    OBVIOUS
  <1>1. PICK a, b, c, whole :
          /\ a = AfterResources /\ b = AfterDashboards /\ c = AfterPages
          /\ whole = ClaimedPaths
    OBVIOUS
  <1>2. PICK R, D, P, Q :
          /\ R = [i \in DOMAIN site.resources |-> <<site.resources[i]>>]
          /\ D = [i \in DOMAIN site.dashboards |-> site.dashboards[i].path]
          /\ P = [i \in DOMAIN site.pages |-> site.pages[i].path]
          /\ Q = [i \in DOMAIN site.queues |-> <<"queues", site.queues[i]>>]
    OBVIOUS
  <1>3. whole = R \o D \o P \o Q
    BY <1>1, <1>2 DEF ClaimedPaths
  <1> DEFINE U0 == {R[i] : i \in DOMAIN R} \cup {D[i] : i \in DOMAIN D}
                    \cup {P[i] : i \in DOMAIN P} \cup {Q[i] : i \in DOMAIN Q}
  <1>0. PICK U : U = U0
    OBVIOUS
  <1>s. PICK k, l, m, n :
          /\ k = Len(site.resources) /\ l = Len(site.dashboards)
          /\ m = Len(site.pages) /\ n = Len(site.queues)
    OBVIOUS
  <1>4. R \in Seq(U) /\ Len(R) = k /\ k \in Nat /\ DOMAIN R = 1..k
           /\ DOMAIN site.resources = 1..k
    <2>1. k \in Nat /\ DOMAIN site.resources = 1..k
      BY <1>s, SiteTypes
    <2>2. DOMAIN R = 1..k /\ R = [i \in DOMAIN R |-> R[i]]
      BY <1>2, <2>1
    <2>3. \A i \in DOMAIN R : R[i] \in U
      BY <1>0
    <2> QED BY ONLY <2>1, <2>2, <2>3
  <1>5. D \in Seq(U) /\ Len(D) = l /\ l \in Nat /\ DOMAIN D = 1..l
           /\ DOMAIN site.dashboards = 1..l
    <2>1. l \in Nat /\ DOMAIN site.dashboards = 1..l
      BY <1>s, SiteTypes
    <2>2. DOMAIN D = 1..l /\ D = [i \in DOMAIN D |-> D[i]]
      BY <1>2, <2>1
    <2>3. \A i \in DOMAIN D : D[i] \in U
      BY <1>0
    <2> QED BY ONLY <2>1, <2>2, <2>3
  <1>6. P \in Seq(U) /\ Len(P) = m /\ m \in Nat /\ DOMAIN P = 1..m
           /\ DOMAIN site.pages = 1..m
    <2>1. m \in Nat /\ DOMAIN site.pages = 1..m
      BY <1>s, SiteTypes
    <2>2. DOMAIN P = 1..m /\ P = [i \in DOMAIN P |-> P[i]]
      BY <1>2, <2>1
    <2>3. \A i \in DOMAIN P : P[i] \in U
      BY <1>0
    <2> QED BY ONLY <2>1, <2>2, <2>3
  <1>7. Q \in Seq(U) /\ Len(Q) = n /\ n \in Nat /\ DOMAIN Q = 1..n
           /\ DOMAIN site.queues = 1..n
    <2>1. n \in Nat /\ DOMAIN site.queues = 1..n
      BY <1>s, SiteTypes
    <2>2. DOMAIN Q = 1..n /\ Q = [i \in DOMAIN Q |-> Q[i]]
      BY <1>2, <2>1
    <2>3. \A i \in DOMAIN Q : Q[i] \in U
      BY <1>0
    <2> QED BY ONLY <2>1, <2>2, <2>3
  <1>8. /\ \A i \in DOMAIN R : R[i] = <<site.resources[i]>>
        /\ \A i \in DOMAIN D : D[i] = site.dashboards[i].path
        /\ \A i \in DOMAIN P : P[i] = site.pages[i].path
        /\ \A i \in DOMAIN Q : Q[i] = <<"queues", site.queues[i]>>
    BY <1>2
  <1>9. a = Len(R) /\ b = a + Len(D) /\ c = b + Len(P)
    BY <1>1, <1>s, <1>4, <1>5, <1>6 DEF AfterResources, AfterDashboards, AfterPages
  <1>10. PICK X : X = R \o D
    OBVIOUS
  <1>11. PICK Y : Y = X \o P
    OBVIOUS
  <1>12. X \in Seq(U) /\ Len(X) = b
    <2>1. R \in Seq(U) /\ D \in Seq(U)
      BY <1>4, <1>5
    <2>2. X \in Seq(U) /\ Len(X) = Len(R) + Len(D)
      BY ONLY <2>1, <1>10
    <2> QED BY ONLY <2>2, <1>9
  <1>13. Y \in Seq(U) /\ Len(Y) = c
    <2>1. X \in Seq(U) /\ P \in Seq(U)
      BY <1>12, <1>6
    <2>2. Y \in Seq(U) /\ Len(Y) = Len(X) + Len(P)
      BY ONLY <2>1, <1>11
    <2> QED BY ONLY <2>2, <1>9, <1>12
  <1>14. whole = Y \o Q /\ whole \in Seq(U) /\ Len(whole) = c + Len(Q)
    BY <1>3, <1>7, <1>10, <1>11, <1>13
  <1>15. /\ Len(R) \in Nat /\ Len(D) \in Nat /\ Len(P) \in Nat /\ Len(Q) \in Nat
         /\ DOMAIN R = 1..Len(R) /\ DOMAIN D = 1..Len(D)
         /\ DOMAIN P = 1..Len(P) /\ DOMAIN Q = 1..Len(Q)
         /\ DOMAIN whole = 1..Len(whole)
    BY <1>4, <1>5, <1>6, <1>7, <1>14
  <1>16. a \in Nat /\ b \in Nat /\ c \in Nat /\ a <= b /\ b <= c
    BY <1>9, <1>15
  <1>17. ASSUME NEW i \in 1..c PROVE whole[i] = Y[i]
    BY <1>7, <1>13, <1>14
  <1>18. ASSUME NEW i \in 1..b PROVE Y[i] = X[i]
    BY <1>6, <1>11, <1>12
  <1>19. ASSUME NEW i \in DOMAIN R PROVE i \in 1..a /\ whole[i] = R[i]
    <2>1. i \in 1..a /\ i \in 1..b /\ i \in 1..c
      BY ONLY <1>9, <1>15, <1>16, i \in DOMAIN R
    <2>2. X[i] = R[i]
      BY <1>4, <1>5, <1>9, <1>10, <2>1
    <2> QED BY <1>17, <1>18, <2>1, <2>2
  <1>20. ASSUME NEW i \in DOMAIN D PROVE i \in 1..(b - a) /\ whole[a + i] = D[i]
    <2>1. i \in 1..(b - a) /\ a + i \in 1..b /\ a + i \in 1..c
      BY ONLY <1>9, <1>15, <1>16, i \in DOMAIN D
    <2>2. X[a + i] = D[i]
      BY ONLY <1>4, <1>5, <1>9, <1>10, <1>15, <1>16, <2>1, i \in DOMAIN D
    <2> QED BY <1>17, <1>18, <2>1, <2>2
  <1>21. ASSUME NEW i \in DOMAIN P PROVE i \in 1..(c - b) /\ whole[b + i] = P[i]
    <2>1. i \in 1..(c - b) /\ b + i \in 1..c
      BY ONLY <1>9, <1>15, <1>16, i \in DOMAIN P
    <2>2. X \in Seq(U) /\ P \in Seq(U) /\ Len(X) = b /\ i \in 1..Len(P) /\ b \in Nat
      BY <1>6, <1>12, <1>15, <1>16
    <2>3. Y[b + i] = P[i]
      BY ONLY <2>2, <1>11
    <2> QED BY <1>17, <2>1, <2>3
  <1>22. ASSUME NEW i \in DOMAIN Q PROVE i \in 1..Len(Q) /\ whole[c + i] = Q[i]
    BY <1>7, <1>13, <1>14, <1>15, <1>16
  <1> QED BY ONLY <1>1, <1>s, <1>4, <1>5, <1>6, <1>7, <1>8, <1>14, <1>15, <1>16, <1>19, <1>20,
                  <1>21, <1>22 DEF ClaimsInOrder

\* No two declarations claim the same path.
LEMMA PathsAreDistinct ==
  ASSUME site \in Sites, AcceptedSite
  PROVE  /\ \A r \in Resources, d \in ToSet(site.dashboards) \cup ToSet(site.pages) :
              d.path # <<r>>
         /\ \A q \in Queues, d \in ToSet(site.dashboards) \cup ToSet(site.pages) :
              d.path # <<"queues", q>>
         /\ \A d \in ToSet(site.dashboards), p \in ToSet(site.pages) : d.path # p.path
         /\ \A d, e \in ToSet(site.dashboards) : d.path = e.path => d = e
         /\ \A p, q \in ToSet(site.pages) : p.path = q.path => p = q
  <1>1. ClaimsInOrder
    BY ClaimsAre
  <1>4. ASSUME NEW i \in DOMAIN ClaimedPaths, NEW j \in DOMAIN ClaimedPaths,
               ClaimedPaths[i] = ClaimedPaths[j]
        PROVE  i = j
    <2>1. PathKeys[i] = PathKeys[j] /\ i \in DOMAIN PathKeys /\ j \in DOMAIN PathKeys
      BY <1>4 DEF PathKeys
    <2> QED BY <2>1 DEF AcceptedSite, IsInjective
  <1>5. ASSUME NEW r \in Resources
        PROVE  \E i \in DOMAIN ClaimedPaths : i <= AfterResources /\ ClaimedPaths[i] = <<r>>
    <2>1. PICK i \in DOMAIN site.resources : r = site.resources[i]
      BY DEF Resources, ToSet
    <2> QED BY ONLY <1>1, <2>1 DEF ClaimsInOrder
  <1>6. ASSUME NEW d \in ToSet(site.dashboards)
        PROVE  \E i \in DOMAIN site.dashboards :
                 LET n == AfterResources + i
                 IN  /\ d = site.dashboards[i] /\ i \in Nat
                     /\ n \in DOMAIN ClaimedPaths /\ ClaimedPaths[n] = d.path
                     /\ AfterResources < n /\ n <= AfterDashboards
    <2>1. PICK i \in DOMAIN site.dashboards : d = site.dashboards[i]
      BY DEF ToSet
    <2> QED BY ONLY <1>1, <2>1 DEF ClaimsInOrder
  <1>7. ASSUME NEW d \in ToSet(site.pages)
        PROVE  \E i \in DOMAIN site.pages :
                 LET n == AfterDashboards + i
                 IN  /\ d = site.pages[i] /\ i \in Nat
                     /\ n \in DOMAIN ClaimedPaths /\ ClaimedPaths[n] = d.path
                     /\ AfterDashboards < n /\ n <= AfterPages
    <2>1. PICK i \in DOMAIN site.pages : d = site.pages[i]
      BY DEF ToSet
    <2> QED BY ONLY <1>1, <2>1 DEF ClaimsInOrder
  <1>8. ASSUME NEW q \in Queues
        PROVE  \E i \in DOMAIN ClaimedPaths :
                 AfterPages < i /\ ClaimedPaths[i] = <<"queues", q>>
    <2>1. PICK i \in DOMAIN site.queues : q = site.queues[i]
      BY DEF Queues, ToSet
    <2>2. /\ AfterPages \in Nat /\ Len(site.queues) \in Nat /\ i \in 1..Len(site.queues)
          /\ DOMAIN ClaimedPaths = 1..(AfterPages + Len(site.queues))
          /\ ClaimedPaths[AfterPages + i] = <<"queues", q>>
      BY ONLY <1>1, <2>1 DEF ClaimsInOrder
    <2>3. AfterPages + i \in DOMAIN ClaimedPaths /\ AfterPages < AfterPages + i
      BY ONLY <2>2
    <2> QED BY ONLY <2>2, <2>3
  <1>9. /\ AfterResources \in Nat /\ AfterDashboards \in Nat /\ AfterPages \in Nat
        /\ AfterResources <= AfterDashboards /\ AfterDashboards <= AfterPages
        /\ DOMAIN ClaimedPaths \subseteq Nat
    BY ONLY <1>1 DEF ClaimsInOrder
  <1>10. ASSUME NEW r \in Resources, NEW d \in ToSet(site.dashboards) \cup ToSet(site.pages),
                d.path = <<r>>
         PROVE  FALSE
    <2>1. CASE d \in ToSet(site.dashboards)
      BY ONLY <1>4, <1>5, <1>6, <1>9, <1>10, <2>1
    <2>2. CASE d \in ToSet(site.pages)
      BY ONLY <1>4, <1>5, <1>7, <1>9, <1>10, <2>2
    <2> QED BY <2>1, <2>2
  <1>11. ASSUME NEW q \in Queues, NEW d \in ToSet(site.dashboards) \cup ToSet(site.pages),
                d.path = <<"queues", q>>
         PROVE  FALSE
    <2>1. CASE d \in ToSet(site.dashboards)
      BY ONLY <1>4, <1>8, <1>6, <1>9, <1>11, <2>1
    <2>2. CASE d \in ToSet(site.pages)
      BY ONLY <1>4, <1>8, <1>7, <1>9, <1>11, <2>2
    <2> QED BY <2>1, <2>2
  <1>12. ASSUME NEW d \in ToSet(site.dashboards), NEW p \in ToSet(site.pages), d.path = p.path
         PROVE  FALSE
    BY ONLY <1>4, <1>6, <1>7, <1>9, <1>12
  <1>13. ASSUME NEW d \in ToSet(site.dashboards), NEW e \in ToSet(site.dashboards),
                d.path = e.path
         PROVE  d = e
    BY ONLY <1>4, <1>6, <1>9, <1>13
  <1>14. ASSUME NEW d \in ToSet(site.pages), NEW e \in ToSet(site.pages), d.path = e.path
         PROVE  d = e
    BY ONLY <1>4, <1>7, <1>9, <1>14
  <1> QED BY <1>10, <1>11, <1>12, <1>13, <1>14

\* The sentinel of the root dashboard is no part of a path.
LEMMA PathsAreSafe ==
  ASSUME site \in Sites, AcceptedSite,
         NEW d \in ToSet(site.dashboards) \cup ToSet(site.pages), NEW i \in DOMAIN d.path
  PROVE  d.path[i] # "" /\ d.path[i] # " " /\ d.path[i] # "_root_"
  <1>1. d.path \in ToSet(ClaimedPaths)
    <2>1. ClaimsInOrder
      BY ClaimsAre
    <2>4. \/ \E j \in DOMAIN site.dashboards : d = site.dashboards[j]
          \/ \E j \in DOMAIN site.pages : d = site.pages[j]
      BY DEF ToSet
    <2>5. \E j \in DOMAIN ClaimedPaths : ClaimedPaths[j] = d.path
      <3>1. ASSUME NEW j \in DOMAIN site.dashboards, d = site.dashboards[j]
            PROVE  AfterResources + j \in DOMAIN ClaimedPaths
                     /\ ClaimedPaths[AfterResources + j] = d.path
        BY ONLY <2>1, <3>1 DEF ClaimsInOrder
      <3>2. ASSUME NEW j \in DOMAIN site.pages, d = site.pages[j]
            PROVE  AfterDashboards + j \in DOMAIN ClaimedPaths
                     /\ ClaimedPaths[AfterDashboards + j] = d.path
        BY ONLY <2>1, <3>2 DEF ClaimsInOrder
      <3> QED BY <2>4, <3>1, <3>2
    <2> QED BY <2>5 DEF ToSet
  <1>2. d.path[i] \in ToSet(d.path)
    BY DEF ToSet
  <1>3. d.path[i] \in SafeAtoms
    BY <1>1, <1>2 DEF AcceptedSite, SafePaths
  <1> QED BY <1>3, AtomsAssumption

-----------------------------------------------------------------------------
\* Every kind of address, and what answers it.

\* An address of an accepted configuration, what it opens, and what is claimed of it.
Asked == site \in Sites /\ AcceptedSite /\ wanted \in Things /\ address = Address(wanted)
Arrival == IF address.method = "page" THEN renderContent(address.segments) ELSE apiRoute(address)
Told == Arrival = wanted <=> ~Shadowed

Paths == DashboardPaths \cup {p.path : p \in Components}

LEMMA JoinedShort ==
  ASSUME NEW x
  PROVE  /\ Joined(<<Atom(x)>>) = <<x>>
         /\ Joined(<<Atom("queues"), Atom(x)>>) = <<"queues", x>>
  <1>1. <<Atom(x)>> = Atoms(<<x>>) /\ <<x>> \in Seq({x})
    BY DEF Atoms
  <1>2. /\ <<Atom("queues"), Atom(x)>> = Atoms(<<"queues", x>>)
        /\ <<"queues", x>> \in Seq({"queues", x})
    BY DEF Atoms
  <1> QED BY <1>1, <1>2, JoinedAtoms

\* No declared path is a name, or a queue.
LEMMA PathsOfNames ==
  ASSUME Asked
  PROVE  /\ \A r \in Resources : <<r>> \notin Paths
         /\ \A q \in Queues : <<"queues", q>> \notin Paths
  BY PathsAreDistinct, SiteTypes DEF Asked, Paths, DashboardPaths

\* A page's address that is not a declared path is for the table of routes.
LEMMA PagesOfTheTable ==
  ASSUME NEW slug, slug # <<>>
  PROVE  /\ Joined(slug) \notin Paths => renderContent(slug) = dispatch(PageRoutes, slug)
         /\ Joined(slug) \in Paths => renderContent(slug).kind \in {"dashboard", "page"}
  BY DEF renderContent, Paths, Thing

\* The table of page routes leads to no dashboard and to no declared page.
LEMMA TableKinds ==
  ASSUME NEW S, NEW s \in Seq(S)
  PROVE  dispatch(PageRoutes, s).kind \notin {"dashboard", "page"}
  <1>1. CASE \A i \in DOMAIN PageRoutes : ~matchRoute(PageRoutes[i], s)
    BY <1>1 DEF dispatch, Nothing404, Thing
  <1>2. CASE \E i \in DOMAIN PageRoutes : matchRoute(PageRoutes[i], s)
    <2>1. DOMAIN PageRoutes = 1..5
      BY DEF PageRoutes
    <2>2. PageMatching(s)
      BY PageMatches
    <2>3. \/ Len(s) = 1
          \/ Len(s) = 2
          \/ Len(s) = 3 /\ s[3] = Atom("edit")
      <3>1. PICK i \in {1, 2, 3, 4, 5} : matchRoute(PageRoutes[i], s)
        BY <1>2, <2>1
      <3> QED BY <2>2, <3>1 DEF PageMatching
    <2>4. PageDispatching(s)
      BY PageDispatches
    <2> QED BY <2>3, <2>4 DEF PageDispatching, Thing
  <1> QED BY <1>1, <1>2

\* Each kind of address, in its table.
LEMMA ListsArrive ==
  ASSUME Asked, NEW r \in Resources,
         wanted = Thing("jsonList", [resource |-> Atom(r)])
  PROVE  Told
  <1>0. PICK s : s = <<Atom(r)>>
    OBVIOUS
  <1>1. address = [method |-> "GET", segments |-> s]
    BY <1>0 DEF Asked, Address, Thing
  <1>2. /\ s \in Seq({Atom(r)}) /\ Len(s) = 1
        /\ s[1] = Atom(r)
    BY <1>0
  <1>d. GetDispatching(s)
    BY <1>2, GetDispatches
  <1>3. Arrival = IF s = <<Atom("stream")>> THEN Thing("events", <<>>) ELSE dispatch(GetRoutes, s)
    BY <1>1 DEF Arrival, apiRoute, RoutesOf
  <1>4. dispatch(GetRoutes, s) = wanted
    BY <1>2, <1>d DEF GetDispatching
  <1>5. Shadowed <=> s = <<Atom("stream")>>
    BY <1>0 DEF Shadowed, Thing
  <1> QED BY <1>3, <1>4, <1>5 DEF Told, Thing

LEMMA ReferencesArrive ==
  ASSUME Asked, NEW r \in Resources,
         wanted = Thing("references", [resource |-> Atom(r), field |-> Atom("owner")])
  PROVE  Told
  <1>0. PICK s : s = <<Atom(r), Atom("reference"), Atom("owner")>>
    OBVIOUS
  <1>1. address = [method |-> "GET", segments |-> s]
    BY <1>0 DEF Asked, Address, Thing
  <1>2. /\ s \in Seq({Atom(r), Atom("reference"), Atom("owner")}) /\ Len(s) = 3
        /\ s[1] = Atom(r) /\ s[2] = Atom("reference") /\ s[3] = Atom("owner")
    BY <1>0
  <1>d. GetDispatching(s)
    BY <1>2, GetDispatches
  <1>3. Arrival = IF s = <<Atom("stream")>> THEN Thing("events", <<>>) ELSE dispatch(GetRoutes, s)
    BY <1>1 DEF Arrival, apiRoute, RoutesOf
  <1>4. dispatch(GetRoutes, s) = wanted
    BY <1>2, <1>d, NamesAreFree, WordsDiffer DEF Asked, GetDispatching
  <1>5. s # <<Atom("stream")>>
    BY <1>2
  <1>6. ~Shadowed
    BY DEF Shadowed, Thing
  <1> QED BY <1>3, <1>4, <1>5, <1>6 DEF Told

LEMMA DrawersArrive ==
  ASSUME Asked, NEW r \in Resources, NEW i \in Ids,
         wanted = Thing("drawer", [resource |-> Atom(r), id |-> i])
  PROVE  Told
  <1>0. PICK s : s = <<Atom("drawer"), Atom(r), i>>
    OBVIOUS
  <1>1. address = [method |-> "GET", segments |-> s]
    BY <1>0 DEF Asked, Address, Thing
  <1>2. /\ s \in Seq({Atom("drawer"), Atom(r), i}) /\ Len(s) = 3
        /\ s[1] = Atom("drawer") /\ s[2] = Atom(r) /\ s[3] = i
    BY <1>0
  <1>d. GetDispatching(s)
    BY <1>2, GetDispatches
  <1>3. Arrival = IF s = <<Atom("stream")>> THEN Thing("events", <<>>) ELSE dispatch(GetRoutes, s)
    BY <1>1 DEF Arrival, apiRoute, RoutesOf
  <1>4. dispatch(GetRoutes, s) = wanted
    BY <1>2, <1>d DEF GetDispatching
  <1>5. s # <<Atom("stream")>>
    BY <1>2
  <1>6. ~Shadowed
    BY DEF Shadowed, Thing
  <1> QED BY <1>3, <1>4, <1>5, <1>6 DEF Told

LEMMA RecordsArrive ==
  ASSUME Asked, NEW r \in Resources, NEW i \in Ids,
         wanted = Thing("jsonGet", [resource |-> Atom(r), id |-> i])
  PROVE  Told
  <1>0. PICK s : s = <<Atom(r), i>>
    OBVIOUS
  <1>1. address = [method |-> "GET", segments |-> s]
    BY <1>0 DEF Asked, Address, Thing
  <1>2. /\ s \in Seq({Atom(r), i}) /\ Len(s) = 2
        /\ s[1] = Atom(r) /\ s[2] = i
    BY <1>0
  <1>d. GetDispatching(s)
    BY <1>2, GetDispatches
  <1>3. Arrival = IF s = <<Atom("stream")>> THEN Thing("events", <<>>) ELSE dispatch(GetRoutes, s)
    BY <1>1 DEF Arrival, apiRoute, RoutesOf
  <1>4. dispatch(GetRoutes, s) = wanted
    BY <1>2, <1>d DEF GetDispatching
  <1>5. s # <<Atom("stream")>>
    BY <1>2
  <1>6. ~Shadowed
    BY DEF Shadowed, Thing
  <1> QED BY <1>3, <1>4, <1>5, <1>6 DEF Told

LEMMA CreationsArrive ==
  ASSUME Asked, NEW r \in Resources,
         wanted = Thing("jsonCreate", [resource |-> Atom(r)])
  PROVE  Told
  <1>0. PICK s : s = <<Atom(r)>>
    OBVIOUS
  <1>1. address = [method |-> "POST", segments |-> s]
    BY <1>0 DEF Asked, Address, Thing
  <1>2. /\ s \in Seq({Atom(r)}) /\ Len(s) = 1
        /\ s[1] = Atom(r)
    BY <1>0
  <1>d. PostDispatching(s)
    BY <1>2, PostDispatches
  <1>3. Arrival = dispatch(PostRoutes, s)
    BY <1>1 DEF Arrival, apiRoute, RoutesOf
  <1>4. dispatch(PostRoutes, s) = wanted
    BY <1>2, <1>d DEF PostDispatching
  <1>6. ~Shadowed
    BY DEF Shadowed, Thing
  <1> QED BY <1>3, <1>4, <1>6 DEF Told

LEMMA CreateFormsArrive ==
  ASSUME Asked, NEW r \in Resources,
         wanted = Thing("createForm", [resource |-> Atom(r)])
  PROVE  Told
  <1>0. PICK s : s = <<Atom(r), Atom("create")>>
    OBVIOUS
  <1>1. address = [method |-> "POST", segments |-> s]
    BY <1>0 DEF Asked, Address, Thing
  <1>2. /\ s \in Seq({Atom(r), Atom("create")}) /\ Len(s) = 2
        /\ s[1] = Atom(r) /\ s[2] = Atom("create")
    BY <1>0
  <1>d. PostDispatching(s)
    BY <1>2, PostDispatches
  <1>3. Arrival = dispatch(PostRoutes, s)
    BY <1>1 DEF Arrival, apiRoute, RoutesOf
  <1>4. dispatch(PostRoutes, s) = wanted
    BY <1>2, <1>d DEF PostDispatching
  <1>6. ~Shadowed
    BY DEF Shadowed, Thing
  <1> QED BY <1>3, <1>4, <1>6 DEF Told

LEMMA ImportsArrive ==
  ASSUME Asked, NEW r \in Resources,
         wanted = Thing("import", [resource |-> Atom(r)])
  PROVE  Told
  <1>0. PICK s : s = <<Atom(r), Atom("import")>>
    OBVIOUS
  <1>1. address = [method |-> "POST", segments |-> s]
    BY <1>0 DEF Asked, Address, Thing
  <1>2. /\ s \in Seq({Atom(r), Atom("import")}) /\ Len(s) = 2
        /\ s[1] = Atom(r) /\ s[2] = Atom("import")
    BY <1>0
  <1>d. PostDispatching(s)
    BY <1>2, PostDispatches
  <1>3. Arrival = dispatch(PostRoutes, s)
    BY <1>1 DEF Arrival, apiRoute, RoutesOf
  <1>4. dispatch(PostRoutes, s) = wanted
    BY <1>2, <1>d DEF PostDispatching
  <1>6. ~Shadowed
    BY DEF Shadowed, Thing
  <1> QED BY <1>3, <1>4, <1>6 DEF Told

LEMMA BulkActionsArrive ==
  ASSUME Asked, NEW r \in Resources,
         wanted = Thing("bulkAction", [resource |-> Atom(r), action |-> Atom("archive")])
  PROVE  Told
  <1>0. PICK s : s = <<Atom(r), Atom("bulk-actions"), Atom("archive")>>
    OBVIOUS
  <1>1. address = [method |-> "POST", segments |-> s]
    BY <1>0 DEF Asked, Address, Thing
  <1>2. /\ s \in Seq({Atom(r), Atom("bulk-actions"), Atom("archive")}) /\ Len(s) = 3
        /\ s[1] = Atom(r) /\ s[2] = Atom("bulk-actions") /\ s[3] = Atom("archive")
    BY <1>0
  <1>d. PostDispatching(s)
    BY <1>2, PostDispatches
  <1>3. Arrival = dispatch(PostRoutes, s)
    BY <1>1 DEF Arrival, apiRoute, RoutesOf
  <1>4. dispatch(PostRoutes, s) = wanted
    BY <1>2, <1>d DEF PostDispatching
  <1>6. ~Shadowed
    BY DEF Shadowed, Thing
  <1> QED BY <1>3, <1>4, <1>6 DEF Told

LEMMA InlineUpdatesArrive ==
  ASSUME Asked, NEW r \in Resources, NEW i \in Ids,
         wanted = Thing("inlineUpdate", [resource |-> Atom(r), id |-> i])
  PROVE  Told
  <1>0. PICK s : s = <<Atom(r), i, Atom("update")>>
    OBVIOUS
  <1>1. address = [method |-> "POST", segments |-> s]
    BY <1>0 DEF Asked, Address, Thing
  <1>2. /\ s \in Seq({Atom(r), i, Atom("update")}) /\ Len(s) = 3
        /\ s[1] = Atom(r) /\ s[2] = i /\ s[3] = Atom("update")
    BY <1>0
  <1>d. PostDispatching(s)
    BY <1>2, PostDispatches
  <1>3. Arrival = dispatch(PostRoutes, s)
    BY <1>1 DEF Arrival, apiRoute, RoutesOf
  <1>4. i # Atom("bulk-actions") => dispatch(PostRoutes, s) = wanted
    BY <1>2, <1>d DEF PostDispatching
  <1>5. i = Atom("bulk-actions") => dispatch(PostRoutes, s).kind = "bulkAction"
    BY <1>2, <1>d DEF Thing, PostDispatching
  <1>6. Shadowed <=> i = Atom("bulk-actions")
    BY DEF Shadowed, Thing
  <1> QED BY <1>3, <1>4, <1>5, <1>6 DEF Told, Thing

LEMMA EditFormsArrive ==
  ASSUME Asked, NEW r \in Resources, NEW i \in Ids,
         wanted = Thing("editForm", [resource |-> Atom(r), id |-> i])
  PROVE  Told
  <1>0. PICK s : s = <<Atom(r), i, Atom("edit")>>
    OBVIOUS
  <1>1. address = [method |-> "POST", segments |-> s]
    BY <1>0 DEF Asked, Address, Thing
  <1>2. /\ s \in Seq({Atom(r), i, Atom("edit")}) /\ Len(s) = 3
        /\ s[1] = Atom(r) /\ s[2] = i /\ s[3] = Atom("edit")
    BY <1>0
  <1>d. PostDispatching(s)
    BY <1>2, PostDispatches
  <1>3. Arrival = dispatch(PostRoutes, s)
    BY <1>1 DEF Arrival, apiRoute, RoutesOf
  <1>4. i # Atom("bulk-actions") => dispatch(PostRoutes, s) = wanted
    BY <1>2, <1>d DEF PostDispatching
  <1>5. i = Atom("bulk-actions") => dispatch(PostRoutes, s).kind = "bulkAction"
    BY <1>2, <1>d DEF Thing, PostDispatching
  <1>6. Shadowed <=> i = Atom("bulk-actions")
    BY DEF Shadowed, Thing
  <1> QED BY <1>3, <1>4, <1>5, <1>6 DEF Told, Thing

LEMMA RestoresArrive ==
  ASSUME Asked, NEW r \in Resources, NEW i \in Ids,
         wanted = Thing("restore", [resource |-> Atom(r), id |-> i])
  PROVE  Told
  <1>0. PICK s : s = <<Atom(r), i, Atom("restore")>>
    OBVIOUS
  <1>1. address = [method |-> "POST", segments |-> s]
    BY <1>0 DEF Asked, Address, Thing
  <1>2. /\ s \in Seq({Atom(r), i, Atom("restore")}) /\ Len(s) = 3
        /\ s[1] = Atom(r) /\ s[2] = i /\ s[3] = Atom("restore")
    BY <1>0
  <1>d. PostDispatching(s)
    BY <1>2, PostDispatches
  <1>3. Arrival = dispatch(PostRoutes, s)
    BY <1>1 DEF Arrival, apiRoute, RoutesOf
  <1>4. i # Atom("bulk-actions") => dispatch(PostRoutes, s) = wanted
    BY <1>2, <1>d DEF PostDispatching
  <1>5. i = Atom("bulk-actions") => dispatch(PostRoutes, s).kind = "bulkAction"
    BY <1>2, <1>d DEF Thing, PostDispatching
  <1>6. Shadowed <=> i = Atom("bulk-actions")
    BY DEF Shadowed, Thing
  <1> QED BY <1>3, <1>4, <1>5, <1>6 DEF Told, Thing

LEMMA RowActionsArrive ==
  ASSUME Asked, NEW r \in Resources, NEW i \in Ids,
         wanted = Thing("rowAction", [resource |-> Atom(r), id |-> i, action |-> Atom("archive")])
  PROVE  Told
  <1>0. PICK s : s = <<Atom(r), i, Atom("actions"), Atom("archive")>>
    OBVIOUS
  <1>1. address = [method |-> "POST", segments |-> s]
    BY <1>0 DEF Asked, Address, Thing
  <1>2. /\ s \in Seq({Atom(r), i, Atom("actions"), Atom("archive")}) /\ Len(s) = 4
        /\ s[1] = Atom(r) /\ s[2] = i /\ s[3] = Atom("actions") /\ s[4] = Atom("archive")
    BY <1>0
  <1>d. PostDispatching(s)
    BY <1>2, PostDispatches
  <1>3. Arrival = dispatch(PostRoutes, s)
    BY <1>1 DEF Arrival, apiRoute, RoutesOf
  <1>4. dispatch(PostRoutes, s) = wanted
    BY <1>2, <1>d, NamesAreFree, WordsDiffer DEF Asked, PostDispatching
  <1>6. ~Shadowed
    BY DEF Shadowed, Thing
  <1> QED BY <1>3, <1>4, <1>6 DEF Told

LEMMA DrawerActionsArrive ==
  ASSUME Asked, NEW r \in Resources, NEW i \in Ids,
         wanted = Thing("drawerAction",
                        [resource |-> Atom(r), id |-> i, action |-> Atom("archive")])
  PROVE  Told
  <1>0. PICK s : s = <<Atom("drawer"), Atom(r), i, Atom("actions"), Atom("archive")>>
    OBVIOUS
  <1>1. address = [method |-> "POST", segments |-> s]
    BY <1>0 DEF Asked, Address, Thing
  <1>2. /\ s \in Seq({Atom("drawer"), Atom(r), i, Atom("actions"), Atom("archive")}) /\ Len(s) = 5
        /\ s[1] = Atom("drawer") /\ s[2] = Atom(r) /\ s[3] = i
        /\ s[4] = Atom("actions") /\ s[5] = Atom("archive")
    BY <1>0
  <1>d. PostDispatching(s)
    BY <1>2, PostDispatches
  <1>3. Arrival = dispatch(PostRoutes, s)
    BY <1>1 DEF Arrival, apiRoute, RoutesOf
  <1>4. dispatch(PostRoutes, s) = wanted
    BY <1>2, <1>d DEF PostDispatching
  <1>6. ~Shadowed
    BY DEF Shadowed, Thing
  <1> QED BY <1>3, <1>4, <1>6 DEF Told

LEMMA UpdatesArrive ==
  ASSUME Asked, NEW r \in Resources, NEW i \in Ids,
         wanted = Thing("jsonUpdate", [resource |-> Atom(r), id |-> i])
  PROVE  Told
  <1>0. PICK s : s = <<Atom(r), i>>
    OBVIOUS
  <1>1. address = [method |-> "PATCH", segments |-> s]
    BY <1>0 DEF Asked, Address, Thing
  <1>2. /\ s \in Seq({Atom(r), i}) /\ Len(s) = 2
        /\ s[1] = Atom(r) /\ s[2] = i
    BY <1>0
  <1> DEFINE table == <<Route("jsonUpdate", <<":resource", ":id">>)>>
  <1>3. Arrival = dispatch(table, s)
    BY <1>1 DEF Arrival, apiRoute, RoutesOf
  <1>4. DOMAIN table = 1..1 /\ matchRoute(table[1], s)
    BY <1>2, MatchIs DEF Route, Captures
  <1>5. dispatch(table, s) = Handled(table[1], s)
    BY <1>4, FirstMatch
  <1>6. Handled(table[1], s) = wanted
    <2>1. table[1].to = "jsonUpdate" /\ ToSet(table[1].segments) = {":resource", ":id"}
      BY DEF Route, ToSet
    <2>2. Captured(table[1], s, ":resource") = s[1] /\ Captured(table[1], s, ":id") = s[2]
      BY <1>2 DEF Route, Captured
    <2> HIDE DEF table
    <2> QED BY <1>2, <2>1, <2>2 DEF Handled
  <1>7. ~Shadowed
    BY DEF Shadowed, Thing
  <1> HIDE DEF table
  <1> QED BY <1>3, <1>5, <1>6, <1>7 DEF Told

LEMMA DeletionsArrive ==
  ASSUME Asked, NEW r \in Resources, NEW i \in Ids,
         wanted = Thing("jsonDelete", [resource |-> Atom(r), id |-> i])
  PROVE  Told
  <1>0. PICK s : s = <<Atom(r), i>>
    OBVIOUS
  <1>1. address = [method |-> "DELETE", segments |-> s]
    BY <1>0 DEF Asked, Address, Thing
  <1>2. /\ s \in Seq({Atom(r), i}) /\ Len(s) = 2
        /\ s[1] = Atom(r) /\ s[2] = i
    BY <1>0
  <1> DEFINE table == <<Route("jsonDelete", <<":resource", ":id">>)>>
  <1>3. Arrival = dispatch(table, s)
    BY <1>1 DEF Arrival, apiRoute, RoutesOf
  <1>4. DOMAIN table = 1..1 /\ matchRoute(table[1], s)
    BY <1>2, MatchIs DEF Route, Captures
  <1>5. dispatch(table, s) = Handled(table[1], s)
    BY <1>4, FirstMatch
  <1>6. Handled(table[1], s) = wanted
    <2>1. table[1].to = "jsonDelete" /\ ToSet(table[1].segments) = {":resource", ":id"}
      BY DEF Route, ToSet
    <2>2. Captured(table[1], s, ":resource") = s[1] /\ Captured(table[1], s, ":id") = s[2]
      BY <1>2 DEF Route, Captured
    <2> HIDE DEF table
    <2> QED BY <1>2, <2>1, <2>2 DEF Handled
  <1>7. ~Shadowed
    BY DEF Shadowed, Thing
  <1> HIDE DEF table
  <1> QED BY <1>3, <1>5, <1>6, <1>7 DEF Told

-----------------------------------------------------------------------------
(* The pages. *)

LEMMA ResourcesArrive ==
  ASSUME Asked, NEW r \in Resources,
         wanted = Thing("resource", [resource |-> Atom(r)])
  PROVE  Told
  <1>0. PICK s : s = <<Atom(r)>>
    OBVIOUS
  <1>1. address = [method |-> "page", segments |-> s]
    BY <1>0 DEF Asked, Address, Thing
  <1>2. /\ s \in Seq({Atom(r)}) /\ Len(s) = 1 /\ s # <<>>
        /\ s[1] = Atom(r)
    BY <1>0
  <1>3. Arrival = renderContent(s)
    BY <1>1 DEF Arrival
  <1>d. PageDispatching(s)
    BY <1>2, PageDispatches
  <1>4. Joined(s) \notin Paths
    BY <1>0, JoinedShort, PathsOfNames
  <1>5. dispatch(PageRoutes, s) = wanted
    BY <1>2, <1>d DEF PageDispatching
  <1>6. ~Shadowed
    BY DEF Shadowed, Thing
  <1> QED BY <1>2, <1>3, <1>4, <1>5, <1>6, PagesOfTheTable DEF Told

LEMMA QueuesArrive ==
  ASSUME Asked, NEW q \in Queues,
         wanted = Thing("queue", [queue |-> Atom(q)])
  PROVE  Told
  <1>0. PICK s : s = <<Atom("queues"), Atom(q)>>
    OBVIOUS
  <1>1. address = [method |-> "page", segments |-> s]
    BY <1>0 DEF Asked, Address, Thing
  <1>2. /\ s \in Seq({Atom("queues"), Atom(q)}) /\ Len(s) = 2 /\ s # <<>>
        /\ s[1] = Atom("queues") /\ s[2] = Atom(q)
    BY <1>0
  <1>3. Arrival = renderContent(s)
    BY <1>1 DEF Arrival
  <1>d. PageDispatching(s)
    BY <1>2, PageDispatches
  <1>4. Joined(s) \notin Paths
    BY <1>0, JoinedShort, PathsOfNames
  <1>5. dispatch(PageRoutes, s) = wanted
    BY <1>2, <1>d DEF PageDispatching
  <1>6. ~Shadowed
    BY DEF Shadowed, Thing
  <1> QED BY <1>2, <1>3, <1>4, <1>5, <1>6, PagesOfTheTable DEF Told

LEMMA CreatePagesArrive ==
  ASSUME Asked, NEW r \in Resources,
         wanted = Thing("create", [resource |-> Atom(r)])
  PROVE  Told
  <1>0. PICK s : s = <<Atom(r), Atom("new")>>
    OBVIOUS
  <1>1. address = [method |-> "page", segments |-> s]
    BY <1>0 DEF Asked, Address, Thing
  <1>2. /\ s \in Seq({Atom(r), Atom("new")}) /\ Len(s) = 2 /\ s # <<>>
        /\ s[1] = Atom(r) /\ s[2] = Atom("new")
    BY <1>0
  <1>3. Arrival = renderContent(s)
    BY <1>1 DEF Arrival
  <1>d. PageDispatching(s)
    BY <1>2, PageDispatches
  <1>4. dispatch(PageRoutes, s) = wanted
    BY <1>2, <1>d, NamesAreFree, WordsDiffer DEF Asked, PageDispatching
  <1>5. Shadowed <=> Joined(s) \in Paths
    BY <1>1 DEF Shadowed, Paths, Thing
  <1>6. wanted.kind \notin {"dashboard", "page"}
    BY DEF Thing
  <1> QED BY <1>2, <1>3, <1>4, <1>5, <1>6, PagesOfTheTable DEF Told

LEMMA EditPagesArrive ==
  ASSUME Asked, NEW r \in Resources, NEW i \in Ids,
         wanted = Thing("edit", [resource |-> Atom(r), id |-> i])
  PROVE  Told
  <1>0. PICK s : s = <<Atom(r), i, Atom("edit")>>
    OBVIOUS
  <1>1. address = [method |-> "page", segments |-> s]
    BY <1>0 DEF Asked, Address, Thing
  <1>2. /\ s \in Seq({Atom(r), i, Atom("edit")}) /\ Len(s) = 3 /\ s # <<>>
        /\ s[1] = Atom(r) /\ s[2] = i /\ s[3] = Atom("edit")
    BY <1>0
  <1>3. Arrival = renderContent(s)
    BY <1>1 DEF Arrival
  <1>d. PageDispatching(s)
    BY <1>2, PageDispatches
  <1>4. dispatch(PageRoutes, s) = wanted
    BY <1>2, <1>d DEF PageDispatching
  <1>5. Shadowed <=> Joined(s) \in Paths
    BY <1>1 DEF Shadowed, Paths, Thing
  <1>6. wanted.kind \notin {"dashboard", "page"}
    BY DEF Thing
  <1> QED BY <1>2, <1>3, <1>4, <1>5, <1>6, PagesOfTheTable DEF Told

LEMMA DetailPagesArrive ==
  ASSUME Asked, NEW r \in Resources, NEW i \in Ids,
         wanted = Thing("detail", [resource |-> Atom(r), id |-> i])
  PROVE  Told
  <1>0. PICK s : s = <<Atom(r), i>>
    OBVIOUS
  <1>1. address = [method |-> "page", segments |-> s]
    BY <1>0 DEF Asked, Address, Thing
  <1>2. /\ s \in Seq({Atom(r), i}) /\ Len(s) = 2 /\ s # <<>>
        /\ s[1] = Atom(r) /\ s[2] = i
    BY <1>0
  <1>3. Arrival = renderContent(s)
    BY <1>1 DEF Arrival
  <1>d. PageDispatching(s)
    BY <1>2, PageDispatches
  <1>4. i # Atom("new") => dispatch(PageRoutes, s) = wanted
    BY <1>2, <1>d, NamesAreFree, WordsDiffer DEF Asked, PageDispatching
  <1>5. i = Atom("new") => dispatch(PageRoutes, s).kind = "create"
    BY <1>2, <1>d, NamesAreFree, WordsDiffer DEF Asked, PageDispatching, Thing
  <1>6. Shadowed <=> Joined(s) \in Paths \/ i = Atom("new")
    BY <1>1 DEF Shadowed, Paths, Thing
  <1>7. wanted.kind = "detail"
    BY DEF Thing
  <1> QED BY <1>2, <1>3, <1>4, <1>5, <1>6, <1>7, PagesOfTheTable DEF Told

\* A path written with a blank in front of it has one part more.
Spelled(d) == (IF d.spelling = "spaced" THEN <<" ">> ELSE <<>>) \o d.path

\* The segments of a path are a sequence, as long as it.
LEMMA AtomsAreSequence ==
  ASSUME NEW S, NEW path \in Seq(S)
  PROVE  /\ Atoms(path) \in Seq({Atom(x) : x \in S}) /\ Len(Atoms(path)) = Len(path)
         /\ \A i \in 1..Len(path) : Atoms(path)[i] = Atom(path[i])
  <1>1. PICK n : n = Len(path)
    OBVIOUS
  <1>2. PICK f : f = Atoms(path)
    OBVIOUS
  <1>3. PICK T : T = {Atom(x) : x \in S}
    OBVIOUS
  <1>4. n \in Nat /\ DOMAIN path = 1..n /\ \A i \in 1..n : path[i] \in S
    BY <1>1
  <1>5. f = [i \in 1..n |-> Atom(path[i])]
    BY <1>2, <1>4 DEF Atoms
  <1>6. \A i \in 1..n : f[i] = Atom(path[i]) /\ f[i] \in T
    BY ONLY <1>3, <1>4, <1>5
  <1>7. f \in [1..n -> T]
    BY ONLY <1>5, <1>6
  <1>8. f \in Seq(T) /\ Len(f) = n
    BY ONLY <1>4, <1>7, MapIsSequence
  <1> QED BY <1>1, <1>2, <1>3, <1>6, <1>8

LEMMA AtomsOfConcatenation ==
  ASSUME NEW S, NEW s \in Seq(S), NEW t \in Seq(S)
  PROVE  Atoms(s \o t) = Atoms(s) \o Atoms(t)
  <1>1. PICK T : T = {Atom(x) : x \in S}
    OBVIOUS
  <1>2. PICK f, g, h, u : f = Atoms(s) /\ g = Atoms(t) /\ u = s \o t /\ h = Atoms(u)
    OBVIOUS
  <1>3. u \in Seq(S) /\ Len(u) = Len(s) + Len(t)
    BY <1>2
  <1>4. /\ f \in Seq(T) /\ Len(f) = Len(s) /\ g \in Seq(T) /\ Len(g) = Len(t)
        /\ h \in Seq(T) /\ Len(h) = Len(s) + Len(t)
    BY <1>1, <1>2, <1>3, AtomsAreSequence
  <1>5. ASSUME NEW i \in 1..(Len(s) + Len(t)) PROVE h[i] = (f \o g)[i]
    <2>1. h[i] = Atom(u[i])
      BY <1>2, <1>3, AtomsAreSequence
    <2>2. Len(s) \in Nat /\ Len(t) \in Nat
      OBVIOUS
    <2>3. CASE i \in 1..Len(s)
      <3>1. u[i] = s[i]
        BY ONLY <1>2, <2>3, s \in Seq(S), t \in Seq(S)
      <3>2. f[i] = Atom(s[i])
        BY <1>2, <2>3, AtomsAreSequence
      <3>3. (f \o g)[i] = f[i]
        BY ONLY <1>4, <2>3
      <3> QED BY <2>1, <3>1, <3>2, <3>3
    <2>4. CASE i \notin 1..Len(s)
      <3>1. i - Len(s) \in 1..Len(t) /\ i \in Nat /\ i > Len(s)
        BY ONLY <2>2, <2>4, i \in 1..(Len(s) + Len(t))
      <3>2. u[i] = t[i - Len(s)]
        BY ONLY <1>2, <3>1, s \in Seq(S), t \in Seq(S)
      <3>3. g[i - Len(s)] = Atom(t[i - Len(s)])
        BY <1>2, <3>1, AtomsAreSequence
      <3>4. (f \o g)[i] = g[i - Len(s)]
        BY ONLY <1>4, <3>1
      <3> QED BY <2>1, <3>2, <3>3, <3>4
    <2> QED BY <2>3, <2>4
  <1>6. f \o g \in Seq(T) /\ Len(f \o g) = Len(s) + Len(t)
    <2>1. f \in Seq(T) /\ g \in Seq(T)
      BY <1>4
    <2>2. f \o g \in Seq(T) /\ Len(f \o g) = Len(f) + Len(g)
      BY ONLY <2>1
    <2> QED BY <1>4, <2>2
  <1>7. h = f \o g
    BY ONLY <1>4, <1>5, <1>6
  <1> QED BY <1>2, <1>7

\* buildPath and slug.join("/") give the path back, unless a blank comes before it.
LEMMA SpelledPath ==
  ASSUME NEW d, d.path \in Seq(ToSet(d.path))
  PROVE  /\ buildPath(d) = Atoms(Spelled(d)) /\ Joined(buildPath(d)) = Spelled(d)
         /\ d.spelling # "spaced" => Spelled(d) = d.path
         /\ d.spelling = "spaced" => Spelled(d) # d.path /\ Spelled(d) # <<>>
         /\ buildPath(d) = <<>> <=> Spelled(d) = <<>>
         /\ Spelled(d) \in Seq(ToSet(d.path) \cup {" "})
  <1>1. PICK p, q, w, e, S :
          /\ p = d.path /\ q = Spelled(d) /\ S = ToSet(d.path) \cup {" "}
          /\ w = <<" ">> /\ e = <<>>
    OBVIOUS
  <1>2. p \in Seq(S) /\ w \in Seq(S) /\ Len(w) = 1 /\ e \in Seq(S) /\ Len(e) = 0
    <2>1. p \in Seq(ToSet(d.path)) /\ ToSet(d.path) \subseteq S /\ " " \in S
      BY <1>1
    <2>2. PICK A : A = ToSet(d.path) /\ p \in Seq(A) /\ A \subseteq S
      BY <2>1
    <2>3. p \in Seq(S)
      <3>1. /\ DOMAIN p = 1..Len(p) /\ Len(p) \in Nat
            /\ p = [i \in 1..Len(p) |-> p[i]] /\ \A i \in 1..Len(p) : p[i] \in A
        BY ONLY <2>2
      <3>2. p \in [1..Len(p) -> S]
        BY ONLY <2>2, <3>1
      <3> QED BY <3>1, <3>2, MapIsSequence
    <2>4. w \in Seq(S) /\ Len(w) = 1
      <3>1. PICK x : w = <<x>> /\ x \in S
        BY <1>1, <2>1
      <3> QED BY ONLY <3>1
    <2>5. e \in Seq(S) /\ Len(e) = 0
      <3>1. e = <<>>
        BY <1>1
      <3> QED BY ONLY <3>1
    <2> QED BY <2>3, <2>4, <2>5
  <1>3. Atoms(w) = <<Atom(" ")>> /\ Atoms(e) = <<>>
    <2>1. \A x : Atoms(<<x>>) = <<Atom(x)>>
      BY DEF Atoms
    <2>2. Atoms(<<>>) = <<>>
      BY DEF Atoms
    <2> QED BY <1>1, <2>1, <2>2
  <1>4. q \in Seq(S) /\ buildPath(d) = Atoms(q)
    <2>1. CASE d.spelling = "spaced"
      <3>1. q = w \o p
        BY <1>1, <2>1 DEF Spelled
      <3>2. buildPath(d) = <<Atom(" ")>> \o Atoms(p)
        BY <1>1, <2>1 DEF buildPath, Atoms
      <3>3. Atoms(w \o p) = Atoms(w) \o Atoms(p)
        BY <1>2, AtomsOfConcatenation
      <3>4. q \in Seq(S)
        BY ONLY <1>2, <3>1
      <3> QED BY <1>3, <3>1, <3>2, <3>3, <3>4
    <2>2. CASE d.spelling # "spaced"
      <3>1. q = e \o p
        BY <1>1, <2>2 DEF Spelled
      <3>2. buildPath(d) = <<>> \o Atoms(p)
        BY <1>1, <2>2 DEF buildPath, Atoms
      <3>3. Atoms(e \o p) = Atoms(e) \o Atoms(p)
        BY <1>2, AtomsOfConcatenation
      <3>4. q \in Seq(S)
        BY ONLY <1>2, <3>1
      <3> QED BY <1>3, <3>1, <3>2, <3>3, <3>4
    <2> QED BY <2>1, <2>2
  <1>5. Joined(buildPath(d)) = q
    BY <1>4, JoinedAtoms
  <1>6. d.spelling # "spaced" => q = p
    <2>1. e \o p = p
      BY ONLY <1>2
    <2> QED BY <1>1, <2>1 DEF Spelled
  <1>7. d.spelling = "spaced" => q # p /\ q # <<>>
    <2> SUFFICES ASSUME d.spelling = "spaced" PROVE q # p /\ q # <<>>
      OBVIOUS
    <2>1. q = w \o p
      BY <1>1 DEF Spelled
    <2>2. w \in Seq(S) /\ p \in Seq(S)
      BY <1>2
    <2>3. Len(q) = Len(w) + Len(p) /\ Len(p) \in Nat
      BY ONLY <2>1, <2>2
    <2>4. Len(q) = 1 + Len(p)
      BY <1>2, <2>3
    <2>5. q # <<>>
      BY ONLY <2>3, <2>4
    <2> QED BY ONLY <2>3, <2>4, <2>5
  <1>8. buildPath(d) = <<>> <=> q = <<>>
    <2>1. Len(Atoms(q)) = Len(q) /\ Atoms(q) \in Seq({Atom(x) : x \in S})
      BY <1>4, AtomsAreSequence
    <2>2. PICK f, T : f = Atoms(q) /\ T = {Atom(x) : x \in S}
      OBVIOUS
    <2>3. f = <<>> <=> q = <<>>
      BY ONLY <1>4, <2>1, <2>2
    <2> QED BY <1>4, <2>2, <2>3
  <1> QED BY <1>1, <1>4, <1>5, <1>6, <1>7, <1>8

\* Paths are distinct, so a declaration is found by its path.
LEMMA DeclarationsAre ==
  ASSUME site \in Sites, AcceptedSite, NEW t
  PROVE  /\ \A d \in ToSet(site.dashboards) :
              t.args.path = d.path /\ t.kind # "page" => Declaration(t) = d
         /\ \A p \in Components : t.args.path = p.path /\ t.kind = "page" => Declaration(t) = p
  <1>1. Components \subseteq ToSet(site.pages)
    BY SiteTypes
  <1>2. \A d \in ToSet(site.dashboards) : d \notin Components
    BY <1>1, PathsAreDistinct
  <1>3. ASSUME NEW d \in ToSet(site.dashboards), t.args.path = d.path, t.kind # "page"
        PROVE  Declaration(t) = d
    <2> DEFINE Is(e) == e.path = t.args.path /\ (t.kind = "page" <=> e \in Components)
    <2>1. Is(d)
      BY <1>2, <1>3
    <2>2. \A e \in ToSet(site.dashboards) \cup Components : Is(e) => e = d
      BY <1>3, PathsAreDistinct
    <2> HIDE DEF Is
    <2>3. (CHOOSE e \in ToSet(site.dashboards) \cup Components : Is(e)) = d
      BY <2>1, <2>2
    <2> QED BY <2>3 DEF Declaration, Is
  <1>4. ASSUME NEW p \in Components, t.args.path = p.path, t.kind = "page"
        PROVE  Declaration(t) = p
    <2> DEFINE Is(e) == e.path = t.args.path /\ (t.kind = "page" <=> e \in Components)
    <2>1. Is(p)
      BY <1>4
    <2>2. \A e \in ToSet(site.dashboards) \cup Components : Is(e) => e = p
      BY <1>1, <1>4, PathsAreDistinct
    <2> HIDE DEF Is
    <2>3. (CHOOSE e \in ToSet(site.dashboards) \cup Components : Is(e)) = p
      BY <2>1, <2>2
    <2> QED BY <2>3 DEF Declaration, Is
  <1> QED BY <1>3, <1>4

\* Declared paths: pages of their own, before the table.
LEMMA DashboardsArrive ==
  ASSUME Asked, NEW d \in ToSet(site.dashboards), wanted = Thing("dashboard", [path |-> d.path])
  PROVE  Told
  <1>1. Declaration(wanted) = d
    BY DeclarationsAre DEF Asked, Thing
  <1>2. PICK slug, joined : slug = buildPath(d) /\ joined = Joined(slug)
    OBVIOUS
  <1>3. address = [method |-> "page", segments |-> slug]
    BY <1>1, <1>2 DEF Asked, Address, Thing
  <1>4. Arrival = renderContent(slug)
    BY <1>3 DEF Arrival
  <1>5. Shadowed <=> d.spelling = "spaced"
    BY <1>1 DEF Shadowed, Thing
  <1>6. d.path \in Seq(ToSet(d.path))
    BY SiteTypes DEF Asked
  <1>7. /\ slug = Atoms(Spelled(d)) /\ joined = Spelled(d)
        /\ d.spelling # "spaced" => joined = d.path
        /\ d.spelling = "spaced" => joined # d.path /\ slug # <<>>
        /\ slug = <<>> <=> joined = <<>>
    BY <1>2, <1>6, SpelledPath
  <1>8. CASE d.spelling # "spaced"
    <2>1. joined = d.path /\ d.path \in DashboardPaths
      BY <1>7, <1>8 DEF DashboardPaths
    <2>2. slug = <<>> => <<>> \in DashboardPaths
      BY <1>7, <2>1
    <2>3. renderContent(slug) = Thing("dashboard", [path |-> joined])
      BY <1>2, <2>1, <2>2 DEF renderContent
    <2> QED BY <1>4, <1>5, <1>8, <2>1, <2>3 DEF Told
  <1>9. CASE d.spelling = "spaced"
    <2>1. slug # <<>> /\ joined # d.path
      BY <1>7, <1>9
    <2>2. dispatch(PageRoutes, slug).kind # "dashboard"
      BY <1>6, <1>7, AtomsAreSequence, SpelledPath, TableKinds
    <2>3. \/ renderContent(slug) = Thing("dashboard", [path |-> joined])
          \/ renderContent(slug).kind = "page"
          \/ renderContent(slug) = dispatch(PageRoutes, slug)
      BY <1>2, <2>1 DEF renderContent, Thing
    <2>4. renderContent(slug) # wanted
      BY <2>1, <2>2, <2>3 DEF Thing
    <2> QED BY <1>4, <1>5, <1>9, <2>4 DEF Told
  <1> QED BY <1>8, <1>9

LEMMA PagesArrive ==
  ASSUME Asked, NEW p \in Components, wanted = Thing("page", [path |-> p.path])
  PROVE  Told
  <1>1. Declaration(wanted) = p
    BY DeclarationsAre DEF Asked, Thing
  <1>2. PICK slug, joined : slug = buildPath(p) /\ joined = Joined(slug)
    OBVIOUS
  <1>3. address = [method |-> "page", segments |-> slug]
    BY <1>1, <1>2 DEF Asked, Address, Thing
  <1>4. Arrival = renderContent(slug)
    BY <1>3 DEF Arrival
  <1>5. Shadowed <=> \/ p.path = <<>> /\ site.dashboards # <<>>
                     \/ p.spelling = "spaced"
    BY <1>1 DEF Shadowed, Thing
  <1>6. /\ p.path \in Seq(ToSet(p.path)) /\ p \in ToSet(site.pages)
        /\ p.path = <<>> => p.spelling = "plain"
    BY SiteTypes DEF Asked
  <1>7. /\ slug = Atoms(Spelled(p)) /\ joined = Spelled(p)
        /\ p.spelling # "spaced" => joined = p.path
        /\ p.spelling = "spaced" => joined # p.path /\ slug # <<>>
        /\ slug = <<>> <=> joined = <<>>
    BY <1>2, <1>6, SpelledPath
  <1>8. p.path \notin DashboardPaths
    BY <1>6, PathsAreDistinct DEF Asked, DashboardPaths
  <1>9. CASE p.spelling # "spaced" /\ (slug # <<>> \/ site.dashboards = <<>>)
    <2>1. joined = p.path /\ joined \notin DashboardPaths /\ joined \in {c.path : c \in Components}
      BY <1>7, <1>8, <1>9
    <2>2. renderContent(slug) = Thing("page", [path |-> joined])
      BY <1>2, <1>9, <2>1 DEF renderContent
    <2>3. ~Shadowed
      BY <1>5, <1>7, <1>9, <2>1
    <2> QED BY <1>4, <2>1, <2>2, <2>3 DEF Told
  <1>10. CASE p.spelling # "spaced" /\ slug = <<>> /\ site.dashboards # <<>>
    <2>1. p.path = <<>>
      BY <1>7, <1>10
    <2>2. renderContent(slug).kind = "dashboard"
      BY <1>8, <1>10, <2>1 DEF renderContent, Thing
    <2> QED BY <1>4, <1>5, <1>10, <2>1, <2>2 DEF Told, Thing
  <1>11. CASE p.spelling = "spaced"
    <2>1. slug # <<>> /\ joined # p.path
      BY <1>7, <1>11
    <2>2. dispatch(PageRoutes, slug).kind # "page"
      BY <1>6, <1>7, AtomsAreSequence, SpelledPath, TableKinds
    <2>3. \/ renderContent(slug) = Thing("page", [path |-> joined])
          \/ renderContent(slug).kind = "dashboard"
          \/ renderContent(slug) = dispatch(PageRoutes, slug)
      BY <1>2, <2>1 DEF renderContent, Thing
    <2>4. renderContent(slug) # wanted
      BY <2>1, <2>2, <2>3 DEF Thing
    <2> QED BY <1>4, <1>5, <1>11, <2>4 DEF Told
  <1> QED BY <1>9, <1>10, <1>11

\* One segment stands for a dashboard, if its path is spelled as it is normalized.
LEMMA EncodedPath ==
  ASSUME site \in Sites, AcceptedSite, NEW d \in ToSet(site.dashboards)
  PROVE  decodeDashboardPath(encodeDashboardPath(d)) = d.path <=> d.spelling = "plain"
  <1>1. PICK p, A : p = d.path /\ A = ToSet(d.path) /\ p \in Seq(A)
    BY SiteTypes
  <1>2. d.spelling \in Spellings /\ (p = <<>> => d.spelling = "plain")
    BY <1>1, SiteTypes
  <1>3. CASE p = <<>>
    BY <1>1, <1>2, <1>3 DEF encodeDashboardPath, decodeDashboardPath
  <1>4. CASE p # <<>>
    <2>1. PICK parts : parts = (IF d.spelling = "spaced" THEN <<" ">> ELSE <<>>) \o p
                               \o (IF d.spelling = "trailing" THEN <<"">> ELSE <<>>)
      OBVIOUS
    <2>2. PICK S : S = A \cup {" ", ""}
      OBVIOUS
    <2>3. p \in Seq(S) /\ Len(p) \in Nat /\ Len(p) # 0
      <3>1. A \subseteq S
        BY <2>2
      <3>2. p \in Seq(S)
        BY ONLY <1>1, <3>1, SeqMonotonic
      <3> QED BY ONLY <3>2, <1>4
    <2>4. encodeDashboardPath(d) =
            [parts |-> parts, slash |-> IF Len(parts) = 1 THEN "/" ELSE "_2f"]
      BY <1>1, <1>4, <2>1 DEF encodeDashboardPath
    <2>5. CASE d.spelling = "plain"
      <3>1. parts = p
        <4>1. parts = <<>> \o p \o <<>>
          BY <2>1, <2>5
        <4> QED BY ONLY <2>3, <4>1
      <3>2. encodeDashboardPath(d) # Atom("_root_")
        <4>1. 1 \in DOMAIN p
          BY ONLY <2>3
        <4>2. p[1] # "_root_"
          BY <1>1, <4>1, PathsAreSafe
        <4> QED BY <2>4, <3>1, <4>2 DEF Atom, Text
      <3> QED BY <1>1, <2>4, <2>5, <3>1, <3>2 DEF decodeDashboardPath
    <2>6. CASE d.spelling # "plain"
      <3>1. Len(parts) = 1 + Len(p)
        <4>1. CASE d.spelling = "spaced"
          <5>1. PICK x : x \in S /\ parts = <<x>> \o p \o <<>>
            BY <2>1, <2>2, <4>1
          <5> QED BY ONLY <2>3, <5>1
        <4>2. CASE d.spelling = "trailing"
          <5>1. PICK x : x \in S /\ parts = <<>> \o p \o <<x>>
            BY <2>1, <2>2, <4>2
          <5> QED BY ONLY <2>3, <5>1
        <4> QED BY <1>2, <2>6, <4>1, <4>2 DEF Spellings
      <3>2. parts # p /\ Len(parts) # 1
        BY ONLY <2>3, <3>1
      <3>3. encodeDashboardPath(d) # Atom("_root_")
        BY <2>4, <3>2 DEF Atom, Text
      <3> QED BY <1>1, <2>4, <2>6, <3>2, <3>3 DEF decodeDashboardPath
    <2> QED BY <2>5, <2>6
  <1> QED BY <1>3, <1>4

LEMMA DashboardActionsArrive ==
  ASSUME Asked, NEW d \in ToSet(site.dashboards),
         wanted = Thing("dashboardAction", [path |-> d.path, action |-> Atom("archive")])
  PROVE  Told
  <1>1. Declaration(wanted) = d
    BY DeclarationsAre DEF Asked, Thing
  <1>2. PICK e, s : /\ e = encodeDashboardPath(d)
                    /\ s = <<Atom("dashboards"), e, Atom("actions"), Atom("archive")>>
    OBVIOUS
  <1>3. address = [method |-> "POST", segments |-> s]
    BY <1>1, <1>2 DEF Asked, Address, Thing
  <1>4. /\ s \in Seq({Atom("dashboards"), e, Atom("actions"), Atom("archive")}) /\ Len(s) = 4
        /\ s[1] = Atom("dashboards") /\ s[2] = e /\ s[3] = Atom("actions")
        /\ s[4] = Atom("archive")
    BY <1>2
  <1>5. PostDispatching(s)
    BY <1>4, PostDispatches
  <1>6. Arrival = Thing("dashboardAction",
                        [path |-> decodeDashboardPath(e), action |-> Atom("archive")])
    <2>1. Arrival = dispatch(PostRoutes, s)
      BY <1>3 DEF Arrival, apiRoute, RoutesOf
    <2> QED BY <1>4, <1>5, <2>1 DEF PostDispatching
  <1>7. Shadowed <=> d.spelling # "plain"
    BY <1>1 DEF Shadowed, Thing
  <1>8. decodeDashboardPath(e) = d.path <=> d.spelling = "plain"
    BY <1>2, EncodedPath DEF Asked
  <1> QED BY <1>6, <1>7, <1>8 DEF Told, Thing

\* Every kind of address.
LEMMA EveryKindArrives == Asked => Told
  <1> SUFFICES ASSUME Asked PROVE Told
    OBVIOUS
  <1>1. wanted \in Things
    BY DEF Asked
  <1>2. ASSUME NEW k \in OfResource, NEW r \in Resources,
               wanted = Thing(k, [resource |-> Atom(r)])
        PROVE  Told
    <2>1. CASE k = "resource"
      BY <1>2, <2>1, ResourcesArrive
    <2>2. CASE k = "create"
      BY <1>2, <2>2, CreatePagesArrive
    <2>3. CASE k = "jsonList"
      BY <1>2, <2>3, ListsArrive
    <2>4. CASE k = "jsonCreate"
      BY <1>2, <2>4, CreationsArrive
    <2>5. CASE k = "createForm"
      BY <1>2, <2>5, CreateFormsArrive
    <2>6. CASE k = "import"
      BY <1>2, <2>6, ImportsArrive
    <2> QED BY <2>1, <2>2, <2>3, <2>4, <2>5, <2>6 DEF OfResource
  <1>3. ASSUME NEW k \in OfRecord, NEW r \in Resources, NEW i \in Ids,
               wanted = Thing(k, [resource |-> Atom(r), id |-> i])
        PROVE  Told
    <2>1. CASE k = "detail"
      BY <1>3, <2>1, DetailPagesArrive
    <2>2. CASE k = "edit"
      BY <1>3, <2>2, EditPagesArrive
    <2>3. CASE k = "drawer"
      BY <1>3, <2>3, DrawersArrive
    <2>4. CASE k = "jsonGet"
      BY <1>3, <2>4, RecordsArrive
    <2>5. CASE k = "jsonUpdate"
      BY <1>3, <2>5, UpdatesArrive
    <2>6. CASE k = "jsonDelete"
      BY <1>3, <2>6, DeletionsArrive
    <2>7. CASE k = "inlineUpdate"
      BY <1>3, <2>7, InlineUpdatesArrive
    <2>8. CASE k = "editForm"
      BY <1>3, <2>8, EditFormsArrive
    <2>9. CASE k = "restore"
      BY <1>3, <2>9, RestoresArrive
    <2> QED BY <2>1, <2>2, <2>3, <2>4, <2>5, <2>6, <2>7, <2>8, <2>9 DEF OfRecord
  <1>4. ASSUME NEW k \in {"drawerAction", "rowAction"}, NEW r \in Resources, NEW i \in Ids,
               wanted = Thing(k, [resource |-> Atom(r), id |-> i, action |-> Atom("archive")])
        PROVE  Told
    <2>1. CASE k = "drawerAction"
      BY <1>4, <2>1, DrawerActionsArrive
    <2>2. CASE k = "rowAction"
      BY <1>4, <2>2, RowActionsArrive
    <2> QED BY <2>1, <2>2
  <1>5. ASSUME NEW r \in Resources,
               wanted = Thing("bulkAction", [resource |-> Atom(r), action |-> Atom("archive")])
        PROVE  Told
    BY <1>5, BulkActionsArrive
  <1>6. ASSUME NEW r \in Resources,
               wanted = Thing("references", [resource |-> Atom(r), field |-> Atom("owner")])
        PROVE  Told
    BY <1>6, ReferencesArrive
  <1>7. ASSUME NEW d \in ToSet(site.dashboards), wanted = Thing("dashboard", [path |-> d.path])
        PROVE  Told
    BY <1>7, DashboardsArrive
  <1>8. ASSUME NEW d \in ToSet(site.dashboards),
               wanted = Thing("dashboardAction", [path |-> d.path, action |-> Atom("archive")])
        PROVE  Told
    BY <1>8, DashboardActionsArrive
  <1>9. ASSUME NEW p \in Components, wanted = Thing("page", [path |-> p.path])
        PROVE  Told
    BY <1>9, PagesArrive
  <1>10. ASSUME NEW q \in Queues, wanted = Thing("queue", [queue |-> Atom(q)])
         PROVE  Told
    BY <1>10, QueuesArrive
  <1>11. \/ \E k \in OfResource, r \in Resources : wanted = Thing(k, [resource |-> Atom(r)])
         \/ \E k \in OfRecord, r \in Resources, i \in Ids :
              wanted = Thing(k, [resource |-> Atom(r), id |-> i])
         \/ \E k \in {"drawerAction", "rowAction"}, r \in Resources, i \in Ids :
              wanted = Thing(k, [resource |-> Atom(r), id |-> i, action |-> Atom("archive")])
         \/ \E r \in Resources :
              wanted = Thing("bulkAction", [resource |-> Atom(r), action |-> Atom("archive")])
         \/ \E r \in Resources :
              wanted = Thing("references", [resource |-> Atom(r), field |-> Atom("owner")])
         \/ \E d \in ToSet(site.dashboards) : wanted = Thing("dashboard", [path |-> d.path])
         \/ \E d \in ToSet(site.dashboards) :
              wanted = Thing("dashboardAction", [path |-> d.path, action |-> Atom("archive")])
         \/ \E p \in Components : wanted = Thing("page", [path |-> p.path])
         \/ \E q \in Queues : wanted = Thing("queue", [queue |-> Atom(q)])
    <2> DEFINE K == {"drawerAction", "rowAction"}
               A == {Thing(k, [resource |-> Atom(r)]) : k \in OfResource, r \in Resources}
               B == {Thing(k, [resource |-> Atom(r), id |-> i]) :
                       k \in OfRecord, r \in Resources, i \in Ids}
               C == {Thing(k, [resource |-> Atom(r), id |-> i, action |-> Atom("archive")]) :
                       k \in K, r \in Resources, i \in Ids}
               D == {Thing("bulkAction", [resource |-> Atom(r), action |-> Atom("archive")]) :
                       r \in Resources}
               E == {Thing("references", [resource |-> Atom(r), field |-> Atom("owner")]) :
                       r \in Resources}
               F == {Thing("dashboard", [path |-> d.path]) : d \in ToSet(site.dashboards)}
               G == {Thing("dashboardAction", [path |-> d.path, action |-> Atom("archive")]) :
                       d \in ToSet(site.dashboards)}
               H == {Thing("page", [path |-> p.path]) : p \in Components}
               I == {Thing("queue", [queue |-> Atom(q)]) : q \in Queues}
    <2>1. Things = A \cup B \cup C \cup D \cup E \cup F \cup G \cup H \cup I
      BY SMTT(30) DEF Things
    <2>2. wanted \in A =>
          \E k \in OfResource, r \in Resources : wanted = Thing(k, [resource |-> Atom(r)])
      OBVIOUS
    <2>3. wanted \in B =>
          \E k \in OfRecord, r \in Resources, i \in Ids :
            wanted = Thing(k, [resource |-> Atom(r), id |-> i])
      OBVIOUS
    <2> HIDE DEF K
    <2>4. wanted \in C =>
          \E k \in K, r \in Resources, i \in Ids :
            wanted = Thing(k, [resource |-> Atom(r), id |-> i, action |-> Atom("archive")])
      OBVIOUS
    <2> USE DEF K
    <2>5. wanted \in D =>
          \E r \in Resources :
            wanted = Thing("bulkAction", [resource |-> Atom(r), action |-> Atom("archive")])
      OBVIOUS
    <2>6. wanted \in E =>
          \E r \in Resources :
            wanted = Thing("references", [resource |-> Atom(r), field |-> Atom("owner")])
      OBVIOUS
    <2>7. wanted \in F =>
          \E d \in ToSet(site.dashboards) : wanted = Thing("dashboard", [path |-> d.path])
      OBVIOUS
    <2>8. wanted \in G =>
          \E d \in ToSet(site.dashboards) :
            wanted = Thing("dashboardAction", [path |-> d.path, action |-> Atom("archive")])
      OBVIOUS
    <2>9. wanted \in H =>
          \E p \in Components : wanted = Thing("page", [path |-> p.path])
      OBVIOUS
    <2>10. wanted \in I =>
          \E q \in Queues : wanted = Thing("queue", [queue |-> Atom(q)])
      OBVIOUS
    <2> HIDE DEF A, B, C, D, E, F, G, H, I
    <2> QED BY ONLY <1>1, <2>1, <2>2, <2>3, <2>4, <2>5, <2>6, <2>7, <2>8, <2>9, <2>10
  <1> QED BY ONLY <1>2, <1>3, <1>4, <1>5, <1>6, <1>7, <1>8, <1>9, <1>10, <1>11

\* Nothing is served before it was accepted, and what was asked for is not
\* forgotten on the way.
RoutesInv ==
  /\ site \in Sites
  /\ stage \in {"serving", "asked", "answered"} => AcceptedSite
  /\ stage \in {"asked", "answered"} => wanted \in Things /\ address = Address(wanted)
  /\ stage = "answered" => opened = Arrival

LEMMA InitRoutes == RoutesInit => RoutesInv
  BY DEF RoutesInit, RoutesInv

\* What is derived from the configuration stays as it is.
LEMMA SiteStays ==
  ASSUME site' = site
  PROVE  /\ AcceptedSite' <=> AcceptedSite
         /\ Resources' = Resources /\ Queues' = Queues /\ Components' = Components
         /\ DashboardPaths' = DashboardPaths
         /\ Things' = Things
  <1>1. /\ ClaimedNames' = ClaimedNames /\ ClaimedPaths' = ClaimedPaths
    BY DEF ClaimedNames, ClaimedPaths
  <1>2. AcceptedSite' <=> AcceptedSite
    BY <1>1 DEF AcceptedSite, SafePaths, NameKeys, PathKeys
  <1>3. /\ Resources' = Resources /\ Queues' = Queues /\ Components' = Components
        /\ DashboardPaths' = DashboardPaths
    BY DEF Resources, Queues, Components, DashboardPaths
  <1>4. Things' = Things
    BY <1>3 DEF Things
  <1> QED BY <1>2, <1>3, <1>4

LEMMA StepRoutes == RoutesInv /\ [RoutesNext]_routes => RoutesInv'
  <1> SUFFICES ASSUME RoutesInv, [RoutesNext]_routes PROVE RoutesInv'
    OBVIOUS
  <1>0. site' = site
    BY DEF RoutesNext, Compile, Serve, Follow, routes
  <1>1. /\ AcceptedSite' <=> AcceptedSite
        /\ Things' = Things /\ Components' = Components /\ DashboardPaths' = DashboardPaths
    BY <1>0, SiteStays
  <1>2. CASE Compile
    BY <1>0, <1>1, <1>2 DEF RoutesInv, Compile
  <1>3. ASSUME NEW thing \in Things, Follow(thing) PROVE RoutesInv'
    <2>1. /\ stage = "serving" /\ stage' = "asked"
          /\ wanted' = thing /\ address' = Address(thing)
      BY <1>3 DEF Follow
    <2>2. Address(wanted)' = Address(thing)
      BY <1>0, <1>1, <2>1 DEF Address, Declaration
    <2> QED BY <1>0, <1>1, <2>1, <2>2 DEF RoutesInv
  <1>4. CASE Serve
    <2>1. /\ stage = "asked" /\ stage' = "answered" /\ opened' = Arrival
          /\ wanted' = wanted /\ address' = address
      BY <1>4 DEF Serve, Arrival
    <2>2. Address(wanted)' = Address(wanted)
      BY <1>0, <1>1, <2>1 DEF Address, Declaration
    <2>3. Arrival' = Arrival
      BY <1>0, <1>1, <2>1 DEF Arrival, renderContent
    <2> QED BY <1>0, <1>1, <2>1, <2>2, <2>3 DEF RoutesInv
  <1>5. CASE UNCHANGED routes
    <2>1. /\ stage' = stage /\ wanted' = wanted /\ address' = address /\ opened' = opened
      BY <1>5 DEF routes
    <2>2. Address(wanted)' = Address(wanted)
      BY <1>0, <1>1, <2>1 DEF Address, Declaration
    <2>3. Arrival' = Arrival
      BY <1>0, <1>1, <2>1 DEF Arrival, renderContent
    <2> QED BY <1>0, <1>1, <2>1, <2>2, <2>3 DEF RoutesInv
  <1> QED BY <1>2, <1>3, <1>4, <1>5 DEF RoutesNext

\* In a configuration that was accepted, an address is answered by what it was
\* built for: the invariant behind AddressesArrive, for any configurations, ids,
\* safe parts and cases of letters.
THEOREM RoutesInvariance == RequestsSpec => []RoutesInv
  <1>1. RequestsInit => RoutesInv
    BY InitRoutes DEF RequestsInit
  <1>2. RoutesInv /\ [RequestsNext]_requests => RoutesInv'
    <2> SUFFICES ASSUME RoutesInv, [RequestsNext]_requests PROVE RoutesInv'
      OBVIOUS
    <2>1. [RoutesNext]_routes
      BY DEF RequestsNext, Admitting, requests, routes
    <2> QED BY <2>1, StepRoutes
  <1> QED BY <1>1, <1>2, PTL DEF RequestsSpec

\* Every address that the navigation, the tables, the forms and the client
\* library build for something leads compileAdmin's router there, whatever the
\* ids in the database, except the shadowed ones, and those lead elsewhere.
THEOREM AddressesArrive == RequestsSpec => []EveryAddressArrives
  <1>1. RoutesInv => EveryAddressArrives
    <2> SUFFICES ASSUME RoutesInv, stage = "answered"
                 PROVE  opened = wanted <=> ~Shadowed
      BY DEF EveryAddressArrives
    <2>1. Asked /\ opened = Arrival
      BY DEF RoutesInv, Asked
    <2> QED BY <2>1, EveryKindArrives DEF Told
  <1> QED BY <1>1, RoutesInvariance, PTL
=============================================================================
