------------------------------ MODULE RealtimeBus ------------------------------
(***************************************************************************)
(* The browser side of realtime: the RealtimeProvider of packages/react,   *)
(* one EventSource shared by every subscriber below it.  Subscriptions     *)
(* come and go, the connection drops and is retried by the browser, or is  *)
(* closed for good and retried by the provider with backoff, the tab is    *)
(* hidden and shown, and three timers (reopen, reconnect, refresh) run     *)
(* between the callbacks.                                                  *)
(*                                                                         *)
(* JavaScript runs each callback to its end, so an action is one callback. *)
(* A closed EventSource delivers nothing more, except perhaps an error     *)
(* event already queued, which is why the code compares sources.           *)
(***************************************************************************)
EXTENDS Integers, FiniteSets

CONSTANTS
  Subscribers,   \* calls of bus.subscribe, one at a time each
  Channels,
  Callback,      \* the callback each subscriber passes
  OfflineAfter,  \* OFFLINE_AFTER_ATTEMPTS; attempts are counted up to it
  MaxEvents      \* bound on mutations announced by the server

ASSUME OfflineAssumption == OfflineAfter \in Nat \ {0}
ASSUME EventsAssumption == MaxEvents \in Nat
ASSUME SubscribersAssumption == IsFiniteSet(Subscribers)

VARIABLES
  mounted,             \* the provider is mounted
  wants,               \* channels of each live subscription ({}: none)
  counts,              \* state.counts: channel -> number of subscribers
  callbacks,           \* state.callbacks: channel -> set of callbacks
  source,              \* the current EventSource: "none", "connecting", "open"
  openedBefore,        \* its onopen has run
  superseded,          \* an older source may still fire an error event
  activeSig,           \* channels the current source carries
  status,
  attempt,             \* closed connections since the last open
  reopenTimer, reconnectTimer, refreshTimer,   \* pending?
  isHidden, pendingWhileHidden,
  wasLive,             \* some source has been open
  received,            \* an event or a catch-up the page has not been refreshed for
  dropped,             \* events missed while the browser retries the same source
  missed,              \* events missed across a closed or replaced source
  events               \* mutations so far

subscriptions == <<wants, counts, callbacks>>
connection == <<source, openedBefore, superseded, activeSig, attempt>>
news == <<wasLive, received, dropped, missed>>
vars == <<mounted, subscriptions, connection, status, reopenTimer, reconnectTimer,
          refreshTimer, isHidden, pendingWhileHidden, news, events>>

\* The channels with a subscriber, as state.counts knows them.
Keys == {ch \in Channels : counts[ch] > 0}

\* Faulty: one attempt too many before offline.
StatusForAttemptLate(n) == IF n > OfflineAfter THEN "offline" ELSE "reconnecting"

StatusForAttempt(n) == IF n >= OfflineAfter THEN "offline" ELSE "reconnecting"

TypeOK ==
  /\ mounted \in BOOLEAN
  /\ wants \in [Subscribers -> SUBSET Channels]
  /\ counts \in [Channels -> 0..Cardinality(Subscribers)]
  /\ callbacks \in [Channels -> SUBSET {Callback[s] : s \in Subscribers}]
  /\ source \in {"none", "connecting", "open"}
  /\ activeSig \in SUBSET Channels
  /\ status \in {"idle", "connecting", "live", "reconnecting", "offline"}
  /\ attempt \in 0..OfflineAfter
  /\ {openedBefore, superseded, reopenTimer, reconnectTimer, refreshTimer,
      isHidden, pendingWhileHidden, wasLive, received, dropped, missed} \subseteq BOOLEAN
  /\ events \in 0..MaxEvents

Init ==
  /\ mounted = TRUE
  /\ wants = [s \in Subscribers |-> {}]
  /\ counts = [ch \in Channels |-> 0]
  /\ callbacks = [ch \in Channels |-> {}]
  /\ source = "none" /\ openedBefore = FALSE /\ superseded = FALSE
  /\ activeSig = {} /\ status = "idle" /\ attempt = 0
  /\ reopenTimer = FALSE /\ reconnectTimer = FALSE /\ refreshTimer = FALSE
  /\ isHidden \in BOOLEAN
  /\ pendingWhileHidden = FALSE
  /\ wasLive = FALSE /\ received = FALSE /\ dropped = FALSE /\ missed = FALSE
  /\ events = 0

-----------------------------------------------------------------------------
(* bus.subscribe and the function it returns *)

Subscribe(s, list) ==
  /\ mounted /\ wants[s] = {} /\ list # {}
  /\ wants' = [wants EXCEPT ![s] = list]
  /\ counts' = [ch \in Channels |-> IF ch \in list THEN counts[ch] + 1 ELSE counts[ch]]
  /\ callbacks' = [ch \in Channels |->
       IF ch \in list THEN callbacks[ch] \cup {Callback[s]} ELSE callbacks[ch]]
  /\ reopenTimer' = TRUE
  /\ UNCHANGED <<mounted, connection, status, reconnectTimer, refreshTimer,
                 isHidden, pendingWhileHidden, news, events>>

\* Faulty: the channel goes with the first subscriber that leaves it.
LeaveForAll(s) ==
  counts' = [ch \in Channels |-> IF ch \in wants[s] THEN 0 ELSE counts[ch]]

\* Each channel of the subscription loses one subscriber.
Leave(s) ==
  counts' = [ch \in Channels |->
    IF ch \in wants[s] /\ counts[ch] > 0 THEN counts[ch] - 1 ELSE counts[ch]]

\* Faulty: the channel's callbacks go with the first subscriber that leaves.
UnsubscribeForAll(s) ==
  /\ wants[s] # {}
  /\ wants' = [wants EXCEPT ![s] = {}]
  /\ Leave(s)
  /\ callbacks' = [ch \in Channels |-> IF ch \in wants[s] THEN {} ELSE callbacks[ch]]
  /\ reopenTimer' = TRUE
  /\ UNCHANGED <<mounted, connection, status, reconnectTimer, refreshTimer,
                 isHidden, pendingWhileHidden, news, events>>

\* Also runs after the provider's own cleanup, with nothing left to remove.
Unsubscribe(s) ==
  /\ wants[s] # {}
  /\ wants' = [wants EXCEPT ![s] = {}]
  /\ Leave(s)
  /\ callbacks' = [ch \in Channels |->
       IF ch \in wants[s] THEN callbacks[ch] \ {Callback[s]} ELSE callbacks[ch]]
  /\ reopenTimer' = TRUE
  /\ UNCHANGED <<mounted, connection, status, reconnectTimer, refreshTimer,
                 isHidden, pendingWhileHidden, news, events>>

-----------------------------------------------------------------------------
(* openSource *)

\* Events the replaced source was to catch up on are not caught up on by the
\* new one, whose first onopen refreshes nothing.
AbandonSource ==
  missed' = (missed \/ dropped) /\ dropped' = FALSE /\ UNCHANGED <<wasLive, received>>

\* Faulty: any open source will do, whatever channels it carries.
OpenSourceIfNone ==
  IF source # "none"
  THEN UNCHANGED <<connection, status, news>>
  ELSE IF Keys = {}
       THEN /\ source' = "none" /\ openedBefore' = FALSE /\ activeSig' = {}
            /\ status' = "idle"
            /\ UNCHANGED <<superseded, attempt>> /\ AbandonSource
       ELSE /\ source' = "connecting" /\ openedBefore' = FALSE /\ activeSig' = Keys
            /\ status' = IF attempt = 0 THEN "connecting" ELSE StatusForAttempt(attempt)
            /\ UNCHANGED <<superseded, attempt>> /\ AbandonSource

\* Keeps a source that carries the wanted channels, else closes it and opens
\* one that does, unless nothing is wanted.
OpenSource ==
  IF source # "none" /\ activeSig = Keys
  THEN UNCHANGED <<connection, status, news>>
  ELSE /\ superseded' = (superseded \/ source # "none")
       /\ openedBefore' = FALSE
       /\ activeSig' = Keys
       /\ source' = IF Keys = {} THEN "none" ELSE "connecting"
       /\ status' = IF Keys = {} THEN "idle"
                    ELSE IF attempt = 0 THEN "connecting"
                    ELSE StatusForAttempt(attempt)
       /\ AbandonSource
       /\ UNCHANGED attempt

ReopenFires ==
  /\ reopenTimer
  /\ reopenTimer' = FALSE
  /\ OpenSource
  /\ UNCHANGED <<mounted, subscriptions, reconnectTimer, refreshTimer,
                 isHidden, pendingWhileHidden, events>>

ReconnectFires ==
  /\ reconnectTimer
  /\ reconnectTimer' = FALSE
  /\ OpenSource
  /\ UNCHANGED <<mounted, subscriptions, reopenTimer, refreshTimer,
                 isHidden, pendingWhileHidden, events>>

-----------------------------------------------------------------------------
(* Events of the current source *)

\* Faulty: hidden tabs refresh nothing, and nobody notes that they owe it.
RefreshIfVisible ==
  /\ refreshTimer' = (refreshTimer \/ ~isHidden)
  /\ UNCHANGED pendingWhileHidden

\* A refresh is scheduled, or put off until the tab is shown.
RefreshOrDefer ==
  IF isHidden THEN pendingWhileHidden' = TRUE /\ UNCHANGED refreshTimer
              ELSE refreshTimer' = TRUE /\ UNCHANGED pendingWhileHidden

\* The first onopen of a source refreshes nothing, a later one catches up.
OnOpen ==
  /\ source = "connecting"
  /\ source' = "open" /\ attempt' = 0 /\ status' = "live"
  /\ openedBefore' = TRUE /\ wasLive' = TRUE
  /\ received' = (received \/ dropped) /\ dropped' = FALSE
  /\ IF openedBefore THEN RefreshOrDefer ELSE UNCHANGED <<refreshTimer, pendingWhileHidden>>
  /\ UNCHANGED <<mounted, subscriptions, superseded, activeSig, reopenTimer,
                 reconnectTimer, isHidden, missed, events>>

\* A mutation is published on a channel.  An open source that carries it gets
\* the message (onmessage); one the browser is retrying misses it; so does a
\* provider between a closed connection and the next open one.
Mutation(ch) ==
  /\ mounted /\ events < MaxEvents
  /\ events' = events + 1
  /\ IF source = "open" /\ ch \in activeSig
     THEN /\ status' = "live"
          /\ received' = TRUE
          /\ RefreshOrDefer
          /\ UNCHANGED <<dropped, missed>>
     ELSE /\ dropped' = (dropped \/ (source = "connecting" /\ openedBefore /\ ch \in activeSig))
          /\ missed' = (missed \/ (wasLive /\ attempt > 0 /\ ~openedBefore /\ ch \in Keys))
          /\ UNCHANGED <<status, received, refreshTimer, pendingWhileHidden>>
  /\ UNCHANGED <<mounted, subscriptions, connection, reopenTimer,
                 reconnectTimer, isHidden, wasLive>>

\* onerror while the browser retries by itself.
OnErrorRetrying ==
  /\ source # "none"
  /\ source' = "connecting"
  /\ status' = StatusForAttempt(attempt)
  /\ UNCHANGED <<mounted, subscriptions, openedBefore, superseded, activeSig,
                 attempt, reopenTimer, reconnectTimer, refreshTimer, isHidden,
                 pendingWhileHidden, news, events>>

\* Faulty: the last attempt was the last.
GiveUpSource ==
  /\ source' = "none" /\ openedBefore' = FALSE /\ activeSig' = {}
  /\ attempt' = IF attempt < OfflineAfter THEN attempt + 1 ELSE attempt
  /\ status' = StatusForAttempt(attempt')
  /\ AbandonSource
  /\ UNCHANGED <<mounted, subscriptions, superseded, reopenTimer, reconnectTimer,
                 refreshTimer, isHidden, pendingWhileHidden, events>>

\* onerror with readyState CLOSED: the provider retries with backoff.
LoseSource ==
  /\ source' = "none" /\ openedBefore' = FALSE /\ activeSig' = {}
  /\ attempt' = IF attempt < OfflineAfter THEN attempt + 1 ELSE attempt
  /\ status' = StatusForAttempt(attempt')
  /\ reconnectTimer' = TRUE
  /\ AbandonSource
  /\ UNCHANGED <<mounted, subscriptions, superseded, reopenTimer, refreshTimer,
                 isHidden, pendingWhileHidden, events>>

\* own: the event comes from the current source; otherwise from a superseded
\* one, and is a no-op.
OnErrorClosed(own) ==
  IF own THEN source # "none" /\ LoseSource
         ELSE superseded /\ UNCHANGED vars

-----------------------------------------------------------------------------
(* Refresh, visibility, unmount *)

\* The refresh timer fires: router.refresh() fetches current state.
RefreshFires ==
  /\ refreshTimer
  /\ refreshTimer' = FALSE
  /\ received' = FALSE /\ dropped' = FALSE /\ missed' = FALSE
  /\ UNCHANGED <<mounted, subscriptions, connection, status, reopenTimer,
                 reconnectTimer, isHidden, pendingWhileHidden, wasLive, events>>

Hide ==
  /\ mounted /\ ~isHidden
  /\ isHidden' = TRUE
  /\ UNCHANGED <<mounted, subscriptions, connection, status, reopenTimer,
                 reconnectTimer, refreshTimer, pendingWhileHidden, news, events>>

Show ==
  /\ mounted /\ isHidden
  /\ isHidden' = FALSE
  /\ pendingWhileHidden' = FALSE
  /\ refreshTimer' = (refreshTimer \/ pendingWhileHidden)
  /\ UNCHANGED <<mounted, subscriptions, connection, status, reopenTimer,
                 reconnectTimer, news, events>>

\* The cleanup effect; the listener for visibility goes too.
Unmount ==
  /\ mounted
  /\ mounted' = FALSE
  /\ source' = "none" /\ openedBefore' = FALSE /\ activeSig' = {}
  /\ superseded' = (superseded \/ source # "none")
  /\ reopenTimer' = FALSE /\ reconnectTimer' = FALSE /\ refreshTimer' = FALSE
  /\ counts' = [ch \in Channels |-> 0]
  /\ callbacks' = [ch \in Channels |-> {}]
  /\ received' = FALSE /\ dropped' = FALSE /\ missed' = FALSE
  /\ UNCHANGED <<wants, attempt, status, isHidden, pendingWhileHidden, wasLive, events>>

Next ==
  \/ \E s \in Subscribers :
       \/ \E list \in SUBSET Channels : Subscribe(s, list)
       \/ Unsubscribe(s)
  \/ ReopenFires \/ ReconnectFires \/ RefreshFires
  \/ OnOpen \/ OnErrorRetrying \/ \E own \in BOOLEAN : OnErrorClosed(own)
  \/ \E ch \in Channels : Mutation(ch)
  \/ Hide \/ Show \/ Unmount

Spec == Init /\ [][Next]_vars

\* Timers fire: the debounced ones restart at every change, so this assumes
\* pauses of reopenDebounceMs and refreshDebounceMs between bursts.  Nothing is
\* assumed of the server, the network or the user.
FairSpec ==
  Spec /\ WF_vars(ReopenFires) /\ WF_vars(ReconnectFires) /\ WF_vars(RefreshFires)

-----------------------------------------------------------------------------
(* Properties *)

\* While the provider is mounted the source carries the wanted channels, or a
\* timer is pending that will make it so: no widget is stranded.
NeverStranded ==
  mounted /\ activeSig # Keys => reopenTimer \/ reconnectTimer

\* What the header shows is the truth about the connection: live exactly when
\* open, idle only without a source, offline only after OfflineAfter failures.
StatusIsTrue ==
  mounted => /\ status = "live" <=> source = "open"
             /\ status = "idle" => source = "none"
             /\ status = "offline" => attempt = OfflineAfter
             /\ status = "reconnecting" => attempt < OfflineAfter

\* An event that reached the browser, and the catch-up of a drop, is never
\* forgotten: a refresh is scheduled or will be when the tab is shown.
ReceivedIsRefreshed ==
  received => refreshTimer \/ (isHidden /\ pendingWhileHidden)

\* A changed channel set reaches the server, however the connection fails
\* meanwhile: some source is opened for exactly the wanted channels.
ChannelsReachServer == (mounted /\ activeSig # Keys) ~> (activeSig = Keys \/ ~mounted)

\* The guide: "A reconnect refetches current state; it does not replay every
\* missed mutation."  Once live again and visible, events missed meanwhile are
\* at least about to be refetched.
ReconnectRefetches ==
  mounted /\ status = "live" /\ missed => refreshTimer \/ isHidden

\* The reference: the provider "routes incoming envelopes to the subscribers
\* of that channel", whoever else has left it: each is among the callbacks, and
\* the reference counts are the live subscriptions.  It holds of subscribers
\* that pass functions of their own: the callbacks are a set, so the first of
\* two that share a function silences the other.
SubscriberIsHeard ==
  mounted => \A ch \in Channels :
    LET wanting == {s \in Subscribers : ch \in wants[s]} IN
    /\ counts[ch] = Cardinality(wanting)
    /\ callbacks[ch] = {Callback[s] : s \in wanting}
=============================================================================
