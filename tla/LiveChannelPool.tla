---------------------------- MODULE LiveChannelPool ----------------------------
(***************************************************************************)
(* Realtime without a provider: useLiveChannel and the standalone mode of  *)
(* useRealtimeRefresh share EventSources through a module-level pool, one  *)
(* entry per endpoint and channel set, reference-counted, each with its    *)
(* own reconnect timer.                                                    *)
(*                                                                         *)
(* An entry that loses its last hook is closed, its timer cleared, and     *)
(* taken out of the pool; a later acquire makes a fresh one.  Since what   *)
(* is left of a released entry can do nothing, the state of a pooled entry *)
(* is kept per key.                                                        *)
(***************************************************************************)
EXTENDS Integers, FiniteSets

CONSTANTS
  Hooks,         \* mounted hook instances
  Keys,          \* endpoint + channel set
  NoKey,         \* a hook that is disabled or unmounted
  OfflineAfter   \* OFFLINE_AFTER_ATTEMPTS; attempts are counted up to it

ASSUME NoKeyAssumption == NoKey \notin Keys
ASSUME OfflineAssumption == OfflineAfter \in Nat \ {0}
ASSUME HooksAssumption == IsFiniteSet(Hooks)

VARIABLES
  held,      \* the key each hook holds
  heard,     \* the status each hook shows
  refresh,   \* the hook's debounced router.refresh() is pending
  pool,      \* keys with an entry
  refs, source, timer, attempt, status    \* the entry of each key

entry == <<pool, refs, source, timer, attempt, status>>
vars == <<held, heard, refresh, entry>>

StatusForAttempt(n) == IF n >= OfflineAfter THEN "offline" ELSE "reconnecting"
Holders(k) == {h \in Hooks : held[h] = k}

TypeOK ==
  /\ held \in [Hooks -> Keys \cup {NoKey}]
  /\ heard \in [Hooks -> {"idle", "connecting", "live", "reconnecting", "offline"}]
  /\ refresh \in SUBSET Hooks
  /\ pool \in SUBSET Keys
  /\ refs \in [Keys -> 0..Cardinality(Hooks)]
  /\ source \in [Keys -> {"none", "connecting", "open"}]
  /\ timer \in SUBSET Keys
  /\ attempt \in [Keys -> 0..OfflineAfter]
  /\ status \in [Keys -> {"idle", "connecting", "live", "reconnecting", "offline"}]

Init ==
  /\ held = [h \in Hooks |-> NoKey]
  /\ heard = [h \in Hooks |-> "idle"]
  /\ refresh = {} /\ pool = {} /\ timer = {}
  /\ refs = [k \in Keys |-> 0]
  /\ source = [k \in Keys |-> "none"]
  /\ attempt = [k \in Keys |-> 0]
  /\ status = [k \in Keys |-> "idle"]

-----------------------------------------------------------------------------
\* setEntryStatus: the entry's status and every listener of it.
SetStatus(k, st, hooks) ==
  /\ status' = [status EXCEPT ![k] = st]
  /\ heard' = [h \in Hooks |-> IF h \in hooks THEN st ELSE heard[h]]

\* acquire of an existing entry.
Join(h, k) ==
  /\ heard' = [heard EXCEPT ![h] = status[k]]
  /\ refs' = [refs EXCEPT ![k] = @ + 1]
  /\ UNCHANGED <<status, source, pool, attempt, timer>>

\* acquire of a fresh entry, and connectEntry for it.
Create(h, k) ==
  /\ pool' = pool \cup {k}
  /\ refs' = [refs EXCEPT ![k] = 1]
  /\ source' = [source EXCEPT ![k] = "connecting"]
  /\ attempt' = [attempt EXCEPT ![k] = 0]
  /\ timer' = timer \ {k}
  /\ SetStatus(k, "connecting", {h})

Acquire(h, k) ==
  /\ held[h] = NoKey
  /\ held' = [held EXCEPT ![h] = k]
  /\ IF k \in pool THEN Join(h, k) ELSE Create(h, k)
  /\ UNCHANGED refresh

\* The last release closes the source and takes the entry out of the pool.
DropEntry(k) ==
  /\ source' = [source EXCEPT ![k] = "none"]
  /\ pool' = pool \ {k} /\ timer' = timer \ {k}

\* Faulty: the last but one closes the connection.
ReleaseTooEarly(h) ==
  LET k == held[h] IN
  /\ k # NoKey
  /\ held' = [held EXCEPT ![h] = NoKey]
  /\ heard' = [heard EXCEPT ![h] = "idle"]
  /\ refs' = [refs EXCEPT ![k] = @ - 1]
  /\ IF refs[k] <= 2 THEN DropEntry(k) ELSE UNCHANGED <<source, pool, timer>>
  /\ UNCHANGED <<refresh, status, attempt>>

\* The effect's cleanup, on unmount, disable or a change of key.
Release(h) ==
  LET k == held[h] IN
  /\ k # NoKey
  /\ held' = [held EXCEPT ![h] = NoKey]
  /\ heard' = [heard EXCEPT ![h] = "idle"]
  /\ refs' = [refs EXCEPT ![k] = @ - 1]
  /\ IF refs[k] <= 1 THEN DropEntry(k) ELSE UNCHANGED <<source, pool, timer>>
  /\ UNCHANGED <<refresh, status, attempt>>

-----------------------------------------------------------------------------
(* connectEntry and the events of its source *)

OnOpen(k) ==
  /\ source[k] = "connecting"
  /\ source' = [source EXCEPT ![k] = "open"]
  /\ attempt' = [attempt EXCEPT ![k] = 0]
  /\ SetStatus(k, "live", Holders(k))
  /\ UNCHANGED <<held, refresh, pool, refs, timer>>

OnErrorRetrying(k) ==
  /\ source[k] # "none"
  /\ source' = [source EXCEPT ![k] = "connecting"]
  /\ SetStatus(k, StatusForAttempt(attempt[k]), Holders(k))
  /\ UNCHANGED <<held, refresh, pool, refs, timer, attempt>>

\* Faulty: the status is told before the attempt is counted.
OnErrorClosedOldStatus(k) ==
  /\ source[k] # "none"
  /\ source' = [source EXCEPT ![k] = "none"]
  /\ timer' = timer \cup {k}
  /\ attempt' = [attempt EXCEPT ![k] = IF @ < OfflineAfter THEN @ + 1 ELSE @]
  /\ SetStatus(k, StatusForAttempt(attempt[k]), Holders(k))
  /\ UNCHANGED <<held, refresh, pool, refs>>

OnErrorClosed(k) ==
  /\ source[k] # "none"
  /\ source' = [source EXCEPT ![k] = "none"]
  /\ timer' = timer \cup {k}
  /\ attempt' = [attempt EXCEPT ![k] = IF @ < OfflineAfter THEN @ + 1 ELSE @]
  /\ SetStatus(k, StatusForAttempt(attempt'[k]), Holders(k))
  /\ UNCHANGED <<held, refresh, pool, refs>>

\* The backoff timer; connectEntry does nothing for a key that left the pool.
TimerFires(k) ==
  /\ k \in timer
  /\ timer' = timer \ {k}
  /\ IF k \in pool
     THEN /\ source' = [source EXCEPT ![k] = "connecting"]
          /\ SetStatus(k, IF attempt[k] = 0 THEN "connecting"
                          ELSE StatusForAttempt(attempt[k]), Holders(k))
     ELSE UNCHANGED <<source, status, heard>>
  /\ UNCHANGED <<held, refresh, pool, refs, attempt>>

\* A mutation on the channels of k: dispatched to every hook of an open
\* source, which re-arms its refresh; missed while it reconnects.
Mutation(k) ==
  /\ source[k] = "open"
  /\ refresh' = refresh \cup Holders(k)
  /\ attempt' = [attempt EXCEPT ![k] = 0]
  /\ SetStatus(k, "live", Holders(k))
  /\ UNCHANGED <<held, pool, refs, source, timer>>

\* The debounce timer of one hook: router.refresh() refetches the whole route.
RefreshFires(h) ==
  /\ h \in refresh
  /\ refresh' = refresh \ {h}
  /\ UNCHANGED <<held, heard, entry>>

\* Unmounting the hook also clears its refresh timer.
Unmount(h) ==
  /\ held[h] = NoKey /\ h \in refresh
  /\ refresh' = refresh \ {h}
  /\ UNCHANGED <<held, heard, entry>>

Next ==
  \/ \E h \in Hooks :
       \/ \E k \in Keys : Acquire(h, k)
       \/ Release(h) \/ RefreshFires(h) \/ Unmount(h)
  \/ \E k \in Keys :
       OnOpen(k) \/ OnErrorRetrying(k) \/ OnErrorClosed(k) \/ TimerFires(k) \/ Mutation(k)

Spec == Init /\ [][Next]_vars

-----------------------------------------------------------------------------
(* Properties *)

\* An entry counts the hooks that hold it, and is pooled exactly while one does:
\* no connection outlives its hooks, no hook holds a dropped entry.
RefsAreHolders ==
  \A k \in Keys : /\ k \in pool <=> Holders(k) # {}
                  /\ k \in pool => refs[k] = Cardinality(Holders(k))

\* A pooled key has one connection or one pending reconnect, never both, so two
\* EventSources never carry the same key; a key outside the pool has neither.
OneConnectionPerKey ==
  \A k \in Keys :
    IF k \in pool THEN source[k] # "none" <=> k \notin timer
                  ELSE source[k] = "none" /\ k \notin timer

\* Every hook shows the status of the connection it shares, and that status is
\* true of it.
HooksShowTheConnection ==
  \A h \in Hooks :
    LET k == held[h] IN
    IF k = NoKey THEN heard[h] = "idle"
    ELSE /\ heard[h] = status[k]
         /\ heard[h] = "live" <=> source[k] = "open"
         /\ heard[h] = "offline" <=> attempt[k] = OfflineAfter
=============================================================================
