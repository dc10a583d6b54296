--------------------------- MODULE RequestAdmission ----------------------------
(***************************************************************************)
(* How a request is admitted: buildRequestContext resolves the session,    *)
(* the role, the tenant scope and the rate limit once per Request, whoever *)
(* of the page's reads asks first, and the limiter counts in fixed windows *)
(* in memory or, with INCR and PEXPIRE, in Redis.                          *)
(*                                                                         *)
(* A Request here is a slot: Respond puts a new Request object in it.  Time *)
(* passes in ticks, a window lasts Window of them.  A resolution that is   *)
(* rejected drops its memo before any of the waiting reads goes on, so the *)
(* two are one step.                                                       *)
(***************************************************************************)
EXTENDS Integers, FiniteSets

CONSTANTS
  Arrivals,   \* Request objects alive at a time
  Reads,      \* surfaces of one request that ask for its context
  Keys,       \* rate limit keys: users and addresses
  Limit,      \* rateLimit.limit
  Window,     \* rateLimit.windowMs, in ticks
  MaxTries    \* bound: resolutions of one Request

ASSUME LimitAssumption == Limit \in Nat \ {0}
ASSUME WindowAssumption == Window \in Nat \ {0}
ASSUME TriesAssumption == MaxTries \in Nat \ {0}

VARIABLES
  driver,     \* rateLimit.driver, "none" without a rateLimit
  memo,       \* requestContextCache of the Request
  step,       \* where its resolution is
  tries,      \* resolutions begun for it
  rateKey,    \* the key its session is counted under
  read,       \* what became of each read's call
  count, left, expires,   \* each rateKey's counter, the ticks left, whether it has an end
  \* history
  charged,    \* how often the limit counted each Request as within it
  spoilt,     \* Requests counted and then rejected by a failing PEXPIRE
  lost,       \* keys whose PEXPIRE never took effect
  recent      \* per key and number of ticks: admissions within the last so many

request == <<memo, step, tries, rateKey, read>>
limiter == <<count, left, expires>>
history == <<charged, spoilt, lost, recent>>
admission == <<driver, request, limiter, history>>

AdmissionTypeOK ==
  /\ driver \in {"none", "memory", "redis"}
  /\ memo \in [Arrivals -> {"none", "pending", "ok"}]
  /\ step \in [Arrivals -> {"idle", "identity", "scope", "limit", "pexpire"}]
  /\ tries \in [Arrivals -> 0..MaxTries]
  /\ rateKey \in [Arrivals -> Keys]
  /\ read \in [Arrivals -> [Reads -> {"out", "waiting", "ok", "failed"}]]
  /\ count \in [Keys -> 0..(Limit + 1)]
  /\ left \in [Keys -> 0..Window]
  /\ expires \in [Keys -> BOOLEAN]
  /\ charged \in [Arrivals -> 0..MaxTries]
  /\ spoilt \in SUBSET Arrivals
  /\ lost \in SUBSET Keys
  /\ recent \in [Keys -> [1..Window -> Nat]]

AdmissionInit ==
  /\ driver \in {"none", "memory", "redis"}
  /\ memo = [r \in Arrivals |-> "none"]
  /\ step = [r \in Arrivals |-> "idle"]
  /\ tries = [r \in Arrivals |-> 0]
  /\ rateKey \in [Arrivals -> Keys]
  /\ read = [r \in Arrivals |-> [c \in Reads |-> "out"]]
  /\ count = [k \in Keys |-> 0]
  /\ left = [k \in Keys |-> 0]
  /\ expires = [k \in Keys |-> FALSE]
  /\ charged = [r \in Arrivals |-> 0]
  /\ spoilt = {} /\ lost = {}
  /\ recent = [k \in Keys |-> [i \in 1..Window |-> 0]]

-----------------------------------------------------------------------------
(* buildRequestContext *)

\* A read asks, or asks again after a rejection: it joins the promise of the
\* Request or begins a resolution.
AskContext(r, c) ==
  /\ read[r][c] \in {"out", "failed"}
  /\ memo[r] = "none" => tries[r] < MaxTries
  /\ read' = [read EXCEPT ![r][c] = IF memo[r] = "ok" THEN "ok" ELSE "waiting"]
  /\ IF memo[r] = "none"
     THEN /\ memo' = [memo EXCEPT ![r] = "pending"]
          /\ step' = [step EXCEPT ![r] = "identity"]
          /\ tries' = [tries EXCEPT ![r] = @ + 1]
     ELSE UNCHANGED <<memo, step, tries>>
  /\ UNCHANGED <<driver, rateKey, limiter, history>>

Settle(r, outcome) == [read EXCEPT ![r] =
  [c \in Reads |-> IF @[c] = "waiting" THEN outcome ELSE @[c]]]

\* Faulty: the memo goes however the promise settles.
FulfilAndForget(r) ==
  /\ memo' = [memo EXCEPT ![r] = "none"]
  /\ step' = [step EXCEPT ![r] = "idle"]
  /\ read' = Settle(r, "ok")
  /\ UNCHANGED <<tries, rateKey>>

\* The promise of the Request is fulfilled and stays.
Fulfil(r) ==
  /\ memo' = [memo EXCEPT ![r] = "ok"]
  /\ step' = [step EXCEPT ![r] = "idle"]
  /\ read' = Settle(r, "ok")
  /\ UNCHANGED <<tries, rateKey>>

\* It is rejected: forgotten first, then every read that waits for it fails.
Reject(r) ==
  /\ memo' = [memo EXCEPT ![r] = "none"]
  /\ step' = [step EXCEPT ![r] = "idle"]
  /\ read' = Settle(r, "failed")
  /\ UNCHANGED <<tries, rateKey>>

\* auth.session, auth.role and the required role, then the tenant scope: each
\* may throw or refuse, and none of them touches the limiter.
Proceed(r, from, to) ==
  /\ step[r] = from
  /\ \/ step' = [step EXCEPT ![r] = to] /\ UNCHANGED <<memo, tries, rateKey, read>>
     \/ Reject(r)
  /\ UNCHANGED <<driver, limiter, history>>

Identify(r) == Proceed(r, "identity", "scope")
ResolveScope(r) == Proceed(r, "scope", "limit")

-----------------------------------------------------------------------------
(* The limiter *)

\* The verdict of a check, as buildRequestContext takes it.
Admit(r) ==
  /\ Fulfil(r)
  /\ charged' = [charged EXCEPT ![r] = @ + 1]
  /\ recent' = [recent EXCEPT ![rateKey[r]] = [i \in 1..Window |-> @[i] + 1]]
  /\ UNCHANGED <<spoilt, lost>>

Refuse(r) == Reject(r) /\ UNCHANGED history

\* No limiter is configured: the context is complete without a check.
NoLimiter(r) ==
  /\ step[r] = "limit" /\ driver = "none"
  /\ Fulfil(r)
  /\ UNCHANGED <<driver, limiter, history>>

\* The memory limiter: a window that is over makes room for a new one.
CheckMemory(r) ==
  LET k == rateKey[r] IN
  /\ step[r] = "limit" /\ driver = "memory"
  /\ IF left[k] = 0
     THEN /\ count' = [count EXCEPT ![k] = 1]
          /\ left' = [left EXCEPT ![k] = Window]
          /\ Admit(r)
     ELSE IF count[k] >= Limit
     THEN Refuse(r) /\ UNCHANGED <<count, left>>
     ELSE /\ count' = [count EXCEPT ![k] = @ + 1]
          /\ Admit(r)
          /\ UNCHANGED left
  /\ UNCHANGED <<driver, expires>>

\* Faulty: one more than the limit.
AdmittedBeyond(n) == n <= Limit + 1

Admitted(n) == n <= Limit

\* Faulty: PEXPIRE follows every INCR and starts the window anew.
WindowRestarts(k, n) ==
  /\ left' = [left EXCEPT ![k] = IF expires[k] THEN Window ELSE @]
  /\ UNCHANGED expires

\* INCR leaves the end of an existing window where it is.
WindowKept(k, n) == UNCHANGED <<left, expires>>

\* The Redis limiter: INCR, whose answer decides; counts past Limit + 1 are all
\* refused alike and are not told apart.
Incr(r) ==
  LET k == rateKey[r]
      n == count[k] + 1
  IN
  /\ step[r] = "limit" /\ driver = "redis"
  /\ count' = [count EXCEPT ![k] = IF @ <= Limit THEN @ + 1 ELSE @]
  /\ WindowKept(k, n)
  /\ IF n = 1
     THEN step' = [step EXCEPT ![r] = "pexpire"]
          /\ UNCHANGED <<memo, tries, rateKey, read, history>>
     ELSE IF Admitted(n) THEN Admit(r) ELSE Refuse(r)
  /\ UNCHANGED driver

\* The client cannot be loaded, INCR fails, or its answer is lost and with it
\* the PEXPIRE that should follow a first one.
IncrFails(r) ==
  LET k == rateKey[r] IN
  /\ step[r] = "limit" /\ driver = "redis"
  /\ Reject(r)
  /\ \/ UNCHANGED <<count, lost>>
     \/ /\ count' = [count EXCEPT ![k] = IF @ <= Limit THEN @ + 1 ELSE @]
        /\ lost' = IF count[k] = 0 THEN lost \cup {k} ELSE lost
  /\ UNCHANGED <<driver, left, expires, charged, spoilt, recent>>

PExpire(r) ==
  LET k == rateKey[r] IN
  /\ step[r] = "pexpire"
  /\ left' = [left EXCEPT ![k] = Window]
  /\ expires' = [expires EXCEPT ![k] = TRUE]
  /\ Admit(r)
  /\ UNCHANGED <<driver, count>>

\* PEXPIRE fails, or the process dies before it is sent: the key of the first
\* check has no end.  A rejection after it took effect is the other disjunct.
PExpireFails(r) ==
  LET k == rateKey[r] IN
  /\ step[r] = "pexpire"
  /\ Reject(r)
  /\ \/ /\ lost' = lost \cup {k}
        /\ UNCHANGED <<left, expires>>
     \/ /\ left' = [left EXCEPT ![k] = Window]
        /\ expires' = [expires EXCEPT ![k] = TRUE]
        /\ UNCHANGED lost
  /\ spoilt' = spoilt \cup {r}
  /\ charged' = [charged EXCEPT ![r] = @ + 1]
  /\ UNCHANGED <<driver, count, recent>>

-----------------------------------------------------------------------------
\* Time passes; Redis removes a key whose time is over, the memory limiter
\* finds its bucket too old.
Tick ==
  /\ left' = [k \in Keys |-> IF left[k] > 0 THEN left[k] - 1 ELSE 0]
  /\ count' = [k \in Keys |->
       IF expires[k] /\ left[k] = 1 THEN 0 ELSE count[k]]
  /\ expires' = [k \in Keys |-> expires[k] /\ left[k] > 1]
  /\ recent' = [k \in Keys |-> [i \in 1..Window |->
       IF i = 1 THEN 0 ELSE recent[k][i - 1]]]
  /\ UNCHANGED <<driver, request, charged, spoilt, lost>>

\* The response is sent; the next Request in this slot has a cache of its own.
Respond(r) ==
  /\ tries[r] > 0
  /\ \A c \in Reads : read[r][c] # "waiting"
  /\ memo' = [memo EXCEPT ![r] = "none"]
  /\ tries' = [tries EXCEPT ![r] = 0]
  /\ \E k \in Keys : rateKey' = [rateKey EXCEPT ![r] = k]
  /\ read' = [read EXCEPT ![r] = [c \in Reads |-> "out"]]
  /\ charged' = [charged EXCEPT ![r] = 0]
  /\ spoilt' = spoilt \ {r}
  /\ UNCHANGED <<driver, step, limiter, lost, recent>>

Advance(r) ==
  \/ Identify(r) \/ ResolveScope(r) \/ NoLimiter(r) \/ CheckMemory(r)
  \/ Incr(r) \/ IncrFails(r) \/ PExpire(r) \/ PExpireFails(r)

AdmissionNext ==
  \/ \E r \in Arrivals : Advance(r) \/ Respond(r) \/ \E c \in Reads : AskContext(r, c)
  \/ Tick

\* Providers and Redis answer or fail, and time passes; nobody has to ask.
AdmissionFairness == WF_admission(Tick) /\ \A r \in Arrivals : WF_admission(Advance(r))

AdmissionSpec == AdmissionInit /\ [][AdmissionNext]_admission /\ AdmissionFairness

-----------------------------------------------------------------------------
(* Properties *)

\* "A page with several reads cannot ... consume the request limit several
\* times": whatever its reads do and however often they ask again, a Request is
\* counted within the limit once, unless the check that counted it then failed.
OneAdmissionPerRequest == \A r \in Arrivals : charged[r] > 1 => r \in spoilt

\* No stretch of time as long as a window admits more than two windows' worth,
\* which a burst around the end of a window can reach.
WindowIsBounded == \A k \in Keys : recent[k][Window] <= 2 * Limit

Full(k) == count[k] >= Limit /\ (driver = "memory" => left[k] > 0)

\* A key that is refused is not refused for good, however much its requests
\* insist, unless its window lost its end with a PEXPIRE: then it is.
RefusalsEnd == \A k \in Keys : Full(k) ~> (~Full(k) \/ k \in lost)
=============================================================================
