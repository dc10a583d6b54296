--------------------------- MODULE RealtimeBusProofs ---------------------------
(***************************************************************************)
(* The shared source of the browser, for any finite set of subscribers and *)
(* any channels, number of retries and number of mutations.  Three of its  *)
(* properties are about the connection and hold together; the fourth,      *)
(* about who is called, needs nothing of it.                               *)
(***************************************************************************)
EXTENDS RealtimeBus, FiniteSetTheorems, TLAPS

-----------------------------------------------------------------------------
(* The connection.  What an open source missed while the browser retried it *)
(* is only owed by a source that was open before: a new one owes nothing.   *)

ConnectionTypes ==
  /\ mounted \in BOOLEAN
  /\ attempt \in 0..OfflineAfter
  /\ source \in {"none", "connecting", "open"}
  /\ status \in {"idle", "connecting", "live", "reconnecting", "offline"}
  /\ openedBefore \in BOOLEAN /\ isHidden \in BOOLEAN /\ pendingWhileHidden \in BOOLEAN
  /\ reopenTimer \in BOOLEAN /\ reconnectTimer \in BOOLEAN /\ refreshTimer \in BOOLEAN
  /\ received \in BOOLEAN /\ dropped \in BOOLEAN

DropsAreOwed == dropped => openedBefore

ConnectionInv ==
  /\ ConnectionTypes /\ DropsAreOwed
  /\ NeverStranded /\ StatusIsTrue /\ ReceivedIsRefreshed

LEMMA StatusForAttemptIsTrue ==
  ASSUME ConnectionTypes
  PROVE  \/ StatusForAttempt(attempt) = "offline" /\ attempt = OfflineAfter
         \/ StatusForAttempt(attempt) = "reconnecting" /\ attempt < OfflineAfter
  BY OfflineAssumption DEF ConnectionTypes, StatusForAttempt

LEMMA InitConnection == Init => ConnectionInv
  <1> SUFFICES ASSUME Init PROVE ConnectionInv
    OBVIOUS
  <1>1. ConnectionTypes /\ DropsAreOwed
    <2>1. attempt \in 0..OfflineAfter /\ attempt = 0
      BY OfflineAssumption DEF Init
    <2>2. isHidden \in BOOLEAN
      BY DEF Init
    <2>3. /\ mounted = TRUE /\ source = "none" /\ status = "idle"
          /\ openedBefore = FALSE /\ pendingWhileHidden = FALSE
          /\ reopenTimer = FALSE /\ reconnectTimer = FALSE /\ refreshTimer = FALSE
          /\ received = FALSE /\ dropped = FALSE
      BY DEF Init
    <2> QED BY <2>1, <2>2, <2>3 DEF ConnectionTypes, DropsAreOwed
  <1>2. Keys = {}
    BY DEF Init, Keys
  <1>3. NeverStranded /\ StatusIsTrue /\ ReceivedIsRefreshed
    BY <1>2 DEF Init, NeverStranded, StatusIsTrue, ReceivedIsRefreshed
  <1> QED BY <1>1, <1>3 DEF ConnectionInv

\* openSource leaves a source that carries the wanted channels, and a status
\* that is true of it; a source it replaces takes its debts with it.
LEMMA OpenSourceKeeps ==
  ASSUME ConnectionInv, OpenSource,
         UNCHANGED <<mounted, counts, refreshTimer, isHidden, pendingWhileHidden>>,
         reopenTimer' \in BOOLEAN, reconnectTimer' \in BOOLEAN
  PROVE  ConnectionInv'
  <1>0. Keys' = Keys
    BY DEF Keys
  <1> HIDE DEF Keys
  <1>1. CASE source # "none" /\ activeSig = Keys
    <2>1. UNCHANGED <<source, openedBefore, activeSig, attempt, status, received, dropped>>
      BY <1>1 DEF OpenSource, connection, news
    <2> QED
      BY <1>0, <1>1, <2>1
      DEF ConnectionInv, ConnectionTypes, DropsAreOwed, NeverStranded, StatusIsTrue,
          ReceivedIsRefreshed
  <1>2. CASE ~(source # "none" /\ activeSig = Keys)
    <2>1. /\ openedBefore' = FALSE /\ activeSig' = Keys /\ attempt' = attempt
          /\ source' = IF Keys = {} THEN "none" ELSE "connecting"
          /\ status' = IF Keys = {} THEN "idle"
                       ELSE IF attempt = 0 THEN "connecting"
                       ELSE StatusForAttempt(attempt)
          /\ dropped' = FALSE /\ received' = received
      BY <1>2 DEF OpenSource, AbandonSource
    <2>2. ConnectionTypes' /\ DropsAreOwed'
      BY <2>1, StatusForAttemptIsTrue DEF ConnectionInv, ConnectionTypes, DropsAreOwed
    <2>3. NeverStranded' /\ ReceivedIsRefreshed'
      BY <1>0, <2>1 DEF ConnectionInv, NeverStranded, ReceivedIsRefreshed
    <2>4. StatusIsTrue'
      BY <2>1, StatusForAttemptIsTrue DEF ConnectionInv, StatusIsTrue
    <2> QED BY <2>2, <2>3, <2>4 DEF ConnectionInv
  <1> QED BY <1>1, <1>2

\* A closed source schedules the retry that will bring its channels back.
LEMMA LoseSourceKeeps ==
  ASSUME ConnectionInv, LoseSource
  PROVE  ConnectionInv'
  <1> USE OfflineAssumption DEF LoseSource, ConnectionInv
  <1>1. /\ attempt' \in 0..OfflineAfter
        /\ \/ status' = "offline" /\ attempt' = OfflineAfter
           \/ status' = "reconnecting" /\ attempt' < OfflineAfter
    BY DEF ConnectionTypes, StatusForAttempt
  <1>2. /\ source' = "none" /\ openedBefore' = FALSE /\ reconnectTimer' = TRUE
        /\ dropped' = FALSE
        /\ UNCHANGED <<mounted, reopenTimer, refreshTimer, isHidden, pendingWhileHidden, received>>
    BY DEF AbandonSource
  <1>3. ConnectionTypes'
    BY <1>1, <1>2 DEF ConnectionTypes
  <1>4. DropsAreOwed' /\ NeverStranded'
    BY <1>2 DEF DropsAreOwed, NeverStranded
  <1>5. StatusIsTrue'
    BY <1>1, <1>2 DEF StatusIsTrue
  <1>6. ReceivedIsRefreshed'
    BY <1>2 DEF ReceivedIsRefreshed
  <1> QED BY <1>3, <1>4, <1>5, <1>6

LEMMA StepConnection == ConnectionInv /\ [Next]_vars => ConnectionInv'
  <1> SUFFICES ASSUME ConnectionInv, [Next]_vars PROVE ConnectionInv'
    OBVIOUS
  <1> USE OfflineAssumption
  <1>1. ASSUME NEW s \in Subscribers, NEW list \in SUBSET Channels, Subscribe(s, list)
        PROVE ConnectionInv'
    BY <1>1 DEF Subscribe, connection, news, ConnectionInv, ConnectionTypes, DropsAreOwed,
                NeverStranded, StatusIsTrue, ReceivedIsRefreshed
  <1>2. ASSUME NEW s \in Subscribers, Unsubscribe(s) PROVE ConnectionInv'
    BY <1>2 DEF Unsubscribe, connection, news, ConnectionInv, ConnectionTypes, DropsAreOwed,
                NeverStranded, StatusIsTrue, ReceivedIsRefreshed
  <1>3. CASE ReopenFires
    BY <1>3, OpenSourceKeeps DEF ReopenFires, subscriptions, ConnectionInv, ConnectionTypes
  <1>4. CASE ReconnectFires
    BY <1>4, OpenSourceKeeps DEF ReconnectFires, subscriptions, ConnectionInv, ConnectionTypes
  <1>5. CASE RefreshFires
    <2>1. Keys' = Keys
      BY <1>5 DEF RefreshFires, subscriptions, Keys
    <2> QED
      BY <1>5, <2>1 DEF RefreshFires, connection, ConnectionInv, ConnectionTypes, DropsAreOwed,
                        NeverStranded, StatusIsTrue, ReceivedIsRefreshed
  <1>6. CASE OnOpen
    <2>1. Keys' = Keys
      BY <1>6 DEF OnOpen, subscriptions, Keys
    <2>2. /\ source' = "open" /\ attempt' = 0 /\ status' = "live"
          /\ openedBefore' = TRUE /\ dropped' = FALSE
          /\ UNCHANGED <<mounted, activeSig, reopenTimer, reconnectTimer, isHidden>>
      BY <1>6 DEF OnOpen
    <2>3. /\ refreshTimer' \in BOOLEAN /\ pendingWhileHidden' \in BOOLEAN
          /\ received' \in BOOLEAN
      BY <1>6 DEF OnOpen, RefreshOrDefer, ConnectionInv, ConnectionTypes
    <2>4. ConnectionTypes' /\ DropsAreOwed'
      <3>1. attempt' \in 0..OfflineAfter
        BY <2>2
      <3>2. /\ mounted' \in BOOLEAN /\ isHidden' \in BOOLEAN
            /\ reopenTimer' \in BOOLEAN /\ reconnectTimer' \in BOOLEAN
        BY <2>2 DEF ConnectionInv, ConnectionTypes
      <3> QED BY <2>2, <2>3, <3>1, <3>2 DEF ConnectionTypes, DropsAreOwed
    <2>5. NeverStranded' /\ StatusIsTrue'
      BY <2>1, <2>2 DEF ConnectionInv, NeverStranded, StatusIsTrue
    <2>6. ReceivedIsRefreshed'
      <3>1. received' => received \/ openedBefore
        BY <1>6 DEF OnOpen, ConnectionInv, DropsAreOwed
      <3>2. openedBefore => RefreshOrDefer
        BY <1>6 DEF OnOpen
      <3>3. ~openedBefore => UNCHANGED <<refreshTimer, pendingWhileHidden>>
        BY <1>6 DEF OnOpen
      <3> QED
        BY <2>2, <3>1, <3>2, <3>3 DEF RefreshOrDefer, ConnectionInv, ReceivedIsRefreshed
    <2> QED BY <2>4, <2>5, <2>6 DEF ConnectionInv
  <1>7. CASE OnErrorRetrying
    <2>1. Keys' = Keys
      BY <1>7 DEF OnErrorRetrying, subscriptions, Keys
    <2> QED
      BY <1>7, <2>1, StatusForAttemptIsTrue
      DEF OnErrorRetrying, news, ConnectionInv, ConnectionTypes, DropsAreOwed,
          NeverStranded, StatusIsTrue, ReceivedIsRefreshed
  <1>8. ASSUME NEW own \in BOOLEAN, OnErrorClosed(own) PROVE ConnectionInv'
    <2>1. CASE own
      BY <1>8, <2>1, LoseSourceKeeps DEF OnErrorClosed
    <2>2. CASE ~own
      <3>1. UNCHANGED vars
        BY <1>8, <2>2 DEF OnErrorClosed
      <3> QED
        BY <3>1 DEF vars, subscriptions, connection, news, ConnectionInv, ConnectionTypes,
                    DropsAreOwed, Keys, NeverStranded, StatusIsTrue, ReceivedIsRefreshed
    <2> QED BY <2>1, <2>2
  <1>9. ASSUME NEW ch \in Channels, Mutation(ch) PROVE ConnectionInv'
    <2>1. Keys' = Keys
      BY <1>9 DEF Mutation, subscriptions, Keys
    <2>2. UNCHANGED <<mounted, source, openedBefore, activeSig, attempt, reopenTimer,
                      reconnectTimer, isHidden>>
      BY <1>9 DEF Mutation, connection
    <2>3. CASE source = "open" /\ ch \in activeSig
      <3>1. status' = "live" /\ received' = TRUE /\ dropped' = dropped
        BY <1>9, <2>3 DEF Mutation
      <3>2. \/ isHidden /\ pendingWhileHidden' = TRUE /\ refreshTimer' = refreshTimer
            \/ refreshTimer' = TRUE /\ pendingWhileHidden' = pendingWhileHidden
        BY <1>9, <2>3 DEF Mutation, RefreshOrDefer
      <3>3. ConnectionTypes' /\ DropsAreOwed'
        BY <2>2, <3>1, <3>2 DEF ConnectionInv, ConnectionTypes, DropsAreOwed
      <3>4. NeverStranded' /\ StatusIsTrue' /\ ReceivedIsRefreshed'
        BY <2>1, <2>2, <2>3, <3>1, <3>2
        DEF ConnectionInv, NeverStranded, StatusIsTrue, ReceivedIsRefreshed
      <3> QED BY <3>3, <3>4 DEF ConnectionInv
    <2>4. CASE ~(source = "open" /\ ch \in activeSig)
      <3>1. /\ dropped' = (dropped \/ (source = "connecting" /\ openedBefore /\ ch \in activeSig))
            /\ UNCHANGED <<status, received, refreshTimer, pendingWhileHidden>>
        BY <1>9, <2>4 DEF Mutation
      <3> QED
        BY <2>1, <2>2, <3>1
        DEF ConnectionInv, ConnectionTypes, DropsAreOwed,
            NeverStranded, StatusIsTrue, ReceivedIsRefreshed
    <2> QED BY <2>3, <2>4
  <1>10. CASE Hide \/ Show
    <2>1. Keys' = Keys
      BY <1>10 DEF Hide, Show, subscriptions, Keys
    <2>2. UNCHANGED <<mounted, source, openedBefore, activeSig, attempt, status,
                      reopenTimer, reconnectTimer, received, dropped>>
      BY <1>10 DEF Hide, Show, connection, news
    <2>3. \/ isHidden' = TRUE /\ UNCHANGED <<refreshTimer, pendingWhileHidden>> /\ ~isHidden
          \/ /\ isHidden' = FALSE /\ pendingWhileHidden' = FALSE
             /\ IF pendingWhileHidden THEN refreshTimer' = TRUE
                                      ELSE refreshTimer' = refreshTimer
      BY <1>10 DEF Hide, Show, ConnectionInv, ConnectionTypes
    <2>4. ConnectionTypes' /\ DropsAreOwed'
      BY <2>2, <2>3 DEF ConnectionInv, ConnectionTypes, DropsAreOwed
    <2>5. NeverStranded' /\ StatusIsTrue' /\ ReceivedIsRefreshed'
      BY <2>1, <2>2, <2>3 DEF ConnectionInv, NeverStranded, StatusIsTrue, ReceivedIsRefreshed
    <2> QED BY <2>4, <2>5 DEF ConnectionInv
  <1>11. CASE Unmount
    BY <1>11 DEF Unmount, ConnectionInv, ConnectionTypes, DropsAreOwed,
                 NeverStranded, StatusIsTrue, ReceivedIsRefreshed
  <1>12. CASE UNCHANGED vars
    BY <1>12 DEF vars, subscriptions, connection, news, ConnectionInv, ConnectionTypes,
                 DropsAreOwed, Keys, NeverStranded, StatusIsTrue, ReceivedIsRefreshed
  <1> QED
    BY <1>1, <1>2, <1>3, <1>4, <1>5, <1>6, <1>7, <1>8, <1>9, <1>10, <1>11, <1>12 DEF Next

\* The inductive invariant of the connection holds throughout.
THEOREM ConnectionInvariance == Spec => []ConnectionInv
  BY InitConnection, StepConnection, PTL DEF Spec

\* No widget is stranded: a source that does not carry what is wanted is always
\* on its way to be replaced.
THEOREM NobodyIsStranded == Spec => []NeverStranded
  <1>1. ConnectionInv => NeverStranded
    BY DEF ConnectionInv
  <1> QED BY <1>1, ConnectionInvariance, PTL

\* The header never shows a connection that is not there, nor hides one that is.
THEOREM HeaderIsTrue == Spec => []StatusIsTrue
  <1>1. ConnectionInv => StatusIsTrue
    BY DEF ConnectionInv
  <1> QED BY <1>1, ConnectionInvariance, PTL

\* What reached the browser is refreshed for, hidden tabs included.
THEOREM NothingReceivedIsForgotten == Spec => []ReceivedIsRefreshed
  <1>1. ConnectionInv => ReceivedIsRefreshed
    BY DEF ConnectionInv
  <1> QED BY <1>1, ConnectionInvariance, PTL

-----------------------------------------------------------------------------
(* Who is called *)

Wanting(ch) == {s \in Subscribers : ch \in wants[s]}

HearingInv ==
  /\ wants \in [Subscribers -> SUBSET Channels]
  /\ counts \in [Channels -> Nat]
  /\ callbacks \in [Channels -> SUBSET {Callback[s] : s \in Subscribers}]
  /\ mounted => \A ch \in Channels :
       /\ counts[ch] = Cardinality(Wanting(ch))
       /\ callbacks[ch] = {Callback[s] : s \in Wanting(ch)}

LEMMA WantingFinite ==
  \A ch : IsFiniteSet(Wanting(ch)) /\ Cardinality(Wanting(ch)) \in Nat
  <1> TAKE ch
  <1>1. Wanting(ch) \subseteq Subscribers
    BY DEF Wanting
  <1> QED BY <1>1, SubscribersAssumption, FS_Subset, FS_CardinalityType

LEMMA InitHearing == Init => HearingInv
  <1> SUFFICES ASSUME Init PROVE HearingInv
    OBVIOUS
  <1>1. \A ch : Wanting(ch) = {}
    BY DEF Init, Wanting
  <1> QED BY <1>1, FS_EmptySet DEF Init, HearingInv

LEMMA SubscribeHearing ==
  ASSUME HearingInv, NEW s \in Subscribers, NEW list \in SUBSET Channels, Subscribe(s, list)
  PROVE  HearingInv'
  <1> USE DEF HearingInv, Subscribe
  <1>1. /\ wants' \in [Subscribers -> SUBSET Channels]
        /\ counts' \in [Channels -> Nat]
        /\ callbacks' \in [Channels -> SUBSET {Callback[t] : t \in Subscribers}]
    OBVIOUS
  <1>2. ASSUME NEW ch \in Channels
        PROVE  /\ counts'[ch] = Cardinality(Wanting(ch)')
               /\ callbacks'[ch] = {Callback[t] : t \in Wanting(ch)'}
    <2>1. CASE ch \in list
      <3>1. Wanting(ch)' = Wanting(ch) \cup {s} /\ s \notin Wanting(ch)
        BY <2>1 DEF Wanting
      <3>2. Cardinality(Wanting(ch)') = Cardinality(Wanting(ch)) + 1
        BY <3>1, WantingFinite, FS_AddElement
      <3>3. counts'[ch] = counts[ch] + 1 /\ callbacks'[ch] = callbacks[ch] \cup {Callback[s]}
        BY <2>1
      <3> QED BY <3>1, <3>2, <3>3
    <2>2. CASE ch \notin list
      <3>1. Wanting(ch)' = Wanting(ch)
        BY <2>2 DEF Wanting
      <3> QED BY <2>2, <3>1
    <2> QED BY <2>1, <2>2
  <1> QED BY <1>1, <1>2

LEMMA UnsubscribeHearing ==
  ASSUME \A t, u \in Subscribers : Callback[t] = Callback[u] => t = u,
         HearingInv, NEW s \in Subscribers, Unsubscribe(s)
  PROVE  HearingInv'
  <1> USE DEF HearingInv, Unsubscribe, Leave
  <1>1. /\ wants' \in [Subscribers -> SUBSET Channels]
        /\ counts' \in [Channels -> Nat]
        /\ callbacks' \in [Channels -> SUBSET {Callback[t] : t \in Subscribers}]
    OBVIOUS
  <1>2. ASSUME mounted, NEW ch \in Channels
        PROVE  /\ counts'[ch] = Cardinality(Wanting(ch)')
               /\ callbacks'[ch] = {Callback[t] : t \in Wanting(ch)'}
    <2>1. CASE ch \in wants[s]
      <3>1. Wanting(ch)' = Wanting(ch) \ {s} /\ s \in Wanting(ch)
        BY <2>1 DEF Wanting
      <3>2. IsFiniteSet(Wanting(ch)) /\ Cardinality(Wanting(ch)) \in Nat
        BY WantingFinite
      <3>3. Cardinality(Wanting(ch) \ {s}) = Cardinality(Wanting(ch)) - 1
        BY ONLY <3>1, <3>2, FS_RemoveElement
      <3>4. Cardinality(Wanting(ch)') \in Nat
        <4>1. IsFiniteSet(Wanting(ch)')
          BY ONLY <3>1, <3>2, FS_Subset
        <4> QED BY ONLY <4>1, FS_CardinalityType
      <3>5. counts[ch] = Cardinality(Wanting(ch)) /\ counts[ch] > 0
        <4>1. counts[ch] = Cardinality(Wanting(ch))
          BY <1>2
        <4> QED BY ONLY <4>1, <3>1, <3>2, <3>3, <3>4
      <3>6. counts'[ch] = counts[ch] - 1 /\ callbacks'[ch] = callbacks[ch] \ {Callback[s]}
        BY <2>1, <3>5
      <3>7. \A t \in Wanting(ch) : t # s => Callback[t] # Callback[s]
        BY DEF Wanting
      <3>8. callbacks[ch] \ {Callback[s]} = {Callback[t] : t \in Wanting(ch) \ {s}}
        BY <1>2, <3>7
      <3> QED BY ONLY <3>1, <3>3, <3>5, <3>6, <3>8
    <2>2. CASE ch \notin wants[s]
      <3>1. Wanting(ch)' = Wanting(ch)
        BY <2>2 DEF Wanting
      <3> QED BY <1>2, <2>2, <3>1
    <2> QED BY <2>1, <2>2
  <1> QED BY <1>1, <1>2

LEMMA StepHearing ==
  ASSUME \A t, u \in Subscribers : Callback[t] = Callback[u] => t = u,
         HearingInv, [Next]_vars
  PROVE  HearingInv'
  <1>1. CASE UNCHANGED <<mounted, subscriptions>>
    <2>1. \A ch : Wanting(ch)' = Wanting(ch)
      BY <1>1 DEF Wanting, subscriptions
    <2> QED BY <1>1, <2>1 DEF HearingInv, subscriptions
  <1>2. CASE Unmount
    BY <1>2 DEF Unmount, HearingInv
  <1>3. CASE \E s \in Subscribers, list \in SUBSET Channels : Subscribe(s, list)
    BY <1>3, SubscribeHearing
  <1>4. CASE \E s \in Subscribers : Unsubscribe(s)
    BY <1>4, UnsubscribeHearing
  <1> QED
    BY <1>1, <1>2, <1>3, <1>4
    DEF Next, vars, ReopenFires, ReconnectFires, RefreshFires, OnOpen, OnErrorRetrying,
        OnErrorClosed, LoseSource, Mutation, Hide, Show

\* Subscribers that pass functions of their own are called, whoever leaves, and
\* the reference counts are the live subscriptions.
THEOREM EverySubscriberIsHeard ==
  ASSUME \A t, u \in Subscribers : Callback[t] = Callback[u] => t = u
  PROVE  Spec => []SubscriberIsHeard
  <1>1. HearingInv /\ [Next]_vars => HearingInv'
    BY StepHearing
  <1>2. HearingInv => SubscriberIsHeard
    BY DEF HearingInv, SubscriberIsHeard, Wanting
  <1> QED
    BY <1>1, <1>2, InitHearing, PTL DEF Spec
=============================================================================
