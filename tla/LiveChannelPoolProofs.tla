------------------------- MODULE LiveChannelPoolProofs -------------------------
(***************************************************************************)
(* The pool of live channels, for any number of hooks and keys.  Its three *)
(* safety properties need each other: a hook that joins a pooled entry     *)
(* shows what is true only because another hook already shows it.          *)
(***************************************************************************)
EXTENDS LiveChannelPool, FiniteSetTheorems, TLAPS

PoolInv == TypeOK /\ RefsAreHolders /\ OneConnectionPerKey /\ HooksShowTheConnection

LEMMA InitPoolInv == Init => PoolInv
<1> SUFFICES ASSUME Init PROVE PoolInv
  OBVIOUS
<1> USE NoKeyAssumption, OfflineAssumption, HooksAssumption DEF Init
<1>1. Cardinality(Hooks) \in Nat
  BY FS_CardinalityType
<1>2. TypeOK
  BY <1>1 DEF TypeOK
<1>3. RefsAreHolders /\ OneConnectionPerKey /\ HooksShowTheConnection
  BY DEF RefsAreHolders, OneConnectionPerKey, HooksShowTheConnection, Holders
<1> QED
  BY <1>2, <1>3 DEF PoolInv

\* The hooks of a key are finitely many.
LEMMA HoldersFinite ==
  \A k : /\ IsFiniteSet(Holders(k))
         /\ Cardinality(Holders(k)) \in Nat
         /\ Cardinality(Holders(k)) <= Cardinality(Hooks)
         /\ Cardinality(Holders(k)) = 0 <=> Holders(k) = {}
<1> TAKE k
<1>1. Holders(k) \subseteq Hooks
  BY DEF Holders
<1> QED
  BY <1>1, HooksAssumption, FS_Subset, FS_CardinalityType, FS_EmptySet

LEMMA HoldersFinitePrime ==
  \A k : /\ IsFiniteSet(Holders(k)')
         /\ Cardinality(Holders(k)') \in Nat
         /\ Cardinality(Holders(k)') <= Cardinality(Hooks)
         /\ Cardinality(Holders(k)') = 0 <=> Holders(k)' = {}
<1> TAKE k
<1>1. Holders(k)' \subseteq Hooks
  BY DEF Holders
<1> QED
  BY <1>1, HooksAssumption, FS_Subset, FS_CardinalityType, FS_EmptySet

\* An acquire adds one hook to the holders of its key.
LEMMA AcquireHolders ==
  ASSUME TypeOK, NEW h \in Hooks, NEW k \in Keys, Acquire(h, k)
  PROVE  /\ \A j \in Keys \ {k} : Holders(j)' = Holders(j)
         /\ Holders(k)' = Holders(k) \cup {h}
         /\ Cardinality(Holders(k)') = Cardinality(Holders(k)) + 1
<1> USE NoKeyAssumption DEF Acquire, TypeOK
<1>1. \A j \in Keys \ {k} : Holders(j)' = Holders(j)
  BY DEF Holders
<1>2. Holders(k)' = Holders(k) \cup {h} /\ h \notin Holders(k)
  BY DEF Holders
<1> QED
  BY <1>1, <1>2, HoldersFinite, FS_AddElement

\* A release takes one hook from them.
LEMMA ReleaseHolders ==
  ASSUME TypeOK, NEW h \in Hooks, NEW k \in Keys, held[h] = k, Release(h)
  PROVE  /\ \A j \in Keys \ {k} : Holders(j)' = Holders(j)
         /\ Holders(k)' = Holders(k) \ {h} /\ h \in Holders(k)
         /\ Cardinality(Holders(k)') = Cardinality(Holders(k)) - 1
<1> USE NoKeyAssumption DEF Release, TypeOK
<1>1. \A j \in Keys \ {k} : Holders(j)' = Holders(j)
  BY DEF Holders
<1>2. Holders(k)' = Holders(k) \ {h} /\ h \in Holders(k)
  BY DEF Holders
<1>3. IsFiniteSet(Holders(k))
  BY HoldersFinite
<1>4. Cardinality(Holders(k) \ {h}) = Cardinality(Holders(k)) - 1
  BY ONLY <1>2, <1>3, FS_RemoveElement
<1> QED
  BY ONLY <1>1, <1>2, <1>4

\* Steps that move no hook leave every key's holders and count alone.
LEMMA SameHolders ==
  ASSUME UNCHANGED <<held, pool, refs>>, RefsAreHolders
  PROVE  RefsAreHolders' /\ \A k : Holders(k)' = Holders(k)
BY DEF RefsAreHolders, Holders

LEMMA AcquirePoolInv ==
  ASSUME PoolInv, NEW h \in Hooks, NEW k \in Keys, Acquire(h, k)
  PROVE  PoolInv'
<1> USE NoKeyAssumption, OfflineAssumption
<1>0. TypeOK /\ RefsAreHolders /\ OneConnectionPerKey /\ HooksShowTheConnection
  BY DEF PoolInv
<1>1. /\ \A j \in Keys \ {k} : Holders(j)' = Holders(j)
      /\ Holders(k)' = Holders(k) \cup {h}
      /\ Cardinality(Holders(k)') = Cardinality(Holders(k)) + 1
  BY <1>0, AcquireHolders
<1>2. /\ Cardinality(Holders(k)) \in Nat
      /\ Cardinality(Holders(k)) + 1 <= Cardinality(Hooks)
      /\ Cardinality(Hooks) \in Nat
      /\ Cardinality(Holders(k)) = 0 <=> Holders(k) = {}
  BY <1>1, HoldersFinite, HoldersFinitePrime, FS_CardinalityType, HooksAssumption
<1>3. k \in pool => refs[k] = Cardinality(Holders(k)) /\ Holders(k) # {}
  BY <1>0 DEF RefsAreHolders
<1>4. k \notin pool => Holders(k) = {} /\ k \notin timer /\ source[k] = "none"
  BY <1>0 DEF RefsAreHolders, OneConnectionPerKey
<1> USE DEF Acquire, Join, Create, SetStatus
<1>5. TypeOK'
  BY <1>0, <1>2, <1>3 DEF TypeOK
<1>6. RefsAreHolders'
  <2> SUFFICES ASSUME NEW j \in Keys
               PROVE  /\ j \in pool' <=> Holders(j)' # {}
                      /\ j \in pool' => refs'[j] = Cardinality(Holders(j)')
    BY DEF RefsAreHolders
  <2>1. CASE j # k
    BY <2>1, <1>0, <1>1 DEF RefsAreHolders, TypeOK
  <2>2. CASE j = k
    BY <2>2, <1>0, <1>1, <1>2, <1>3, <1>4 DEF TypeOK
  <2> QED
    BY <2>1, <2>2
<1>7. OneConnectionPerKey'
  BY <1>0 DEF OneConnectionPerKey, TypeOK
<1>8. HooksShowTheConnection'
  <2>1. CASE k \in pool
    <3>1. PICK g \in Hooks : held[g] = k
      BY <1>3, <2>1 DEF Holders
    <3> QED
      BY <1>0, <2>1, <3>1 DEF HooksShowTheConnection, TypeOK
  <2>2. CASE k \notin pool
    <3>1. \A g \in Hooks : held[g] # k
      BY <1>4, <2>2 DEF Holders
    <3> QED
      BY <1>0, <2>2, <3>1 DEF HooksShowTheConnection, TypeOK
  <2> QED
    BY <2>1, <2>2
<1> QED
  BY <1>5, <1>6, <1>7, <1>8 DEF PoolInv

LEMMA ReleasePoolInv ==
  ASSUME PoolInv, NEW h \in Hooks, Release(h)
  PROVE  PoolInv'
<1> USE NoKeyAssumption, OfflineAssumption
<1>0. TypeOK /\ RefsAreHolders /\ OneConnectionPerKey /\ HooksShowTheConnection
  BY DEF PoolInv
<1>k. PICK k \in Keys : held[h] = k
  BY <1>0 DEF Release, TypeOK
<1>1. /\ \A j \in Keys \ {k} : Holders(j)' = Holders(j)
      /\ Holders(k)' = Holders(k) \ {h} /\ h \in Holders(k)
      /\ Cardinality(Holders(k)') = Cardinality(Holders(k)) - 1
  BY <1>0, <1>k, ReleaseHolders
<1>2. /\ k \in pool /\ refs[k] = Cardinality(Holders(k))
      /\ refs[k] \in Nat \ {0} /\ refs[k] <= Cardinality(Hooks)
      /\ Cardinality(Hooks) \in Nat
  BY <1>0, <1>1, HoldersFinite, FS_CardinalityType, HooksAssumption DEF RefsAreHolders
<1>3. refs[k] = 1 <=> Holders(k)' = {}
  <2>1. Cardinality(Holders(k)') = 0 <=> Holders(k)' = {}
    BY HoldersFinitePrime
  <2> QED
    BY ONLY <1>1, <1>2, <2>1
<1> USE <1>k DEF Release, DropEntry
<1>5. TypeOK'
  BY <1>0, <1>2 DEF TypeOK
<1>6. RefsAreHolders'
  <2> SUFFICES ASSUME NEW j \in Keys
               PROVE  /\ j \in pool' <=> Holders(j)' # {}
                      /\ j \in pool' => refs'[j] = Cardinality(Holders(j)')
    BY DEF RefsAreHolders
  <2>1. CASE j # k
    BY <2>1, <1>0, <1>1 DEF RefsAreHolders, TypeOK
  <2>2. CASE j = k
    BY <2>2, <1>0, <1>1, <1>2, <1>3 DEF TypeOK
  <2> QED
    BY <2>1, <2>2
<1>7. OneConnectionPerKey'
  BY <1>0 DEF OneConnectionPerKey, TypeOK
<1>8. HooksShowTheConnection'
  <2>1. refs[k] <= 1 => \A g \in Hooks \ {h} : held[g] # k
    BY <1>1, <1>2, <1>3 DEF Holders
  <2> QED
    BY <1>0, <2>1 DEF HooksShowTheConnection, TypeOK
<1> QED
  BY <1>5, <1>6, <1>7, <1>8 DEF PoolInv

\* A step of the connection of one key.
LEMMA ConnectionPoolInv ==
  ASSUME PoolInv, NEW k \in Keys,
         \/ OnOpen(k) \/ OnErrorRetrying(k) \/ OnErrorClosed(k) \/ TimerFires(k) \/ Mutation(k)
  PROVE  PoolInv'
<1> USE NoKeyAssumption, OfflineAssumption
<1>0. TypeOK /\ RefsAreHolders /\ OneConnectionPerKey /\ HooksShowTheConnection
  BY DEF PoolInv
<1> USE DEF SetStatus, StatusForAttempt, Holders
<1>1. CASE OnOpen(k)
  <2> USE <1>0, <1>1 DEF OnOpen
  <2>1. TypeOK'
    BY DEF TypeOK
  <2>2. RefsAreHolders'
    BY SameHolders
  <2>3. OneConnectionPerKey'
    BY DEF OneConnectionPerKey, TypeOK
  <2>4. HooksShowTheConnection'
    BY DEF HooksShowTheConnection, TypeOK
  <2> QED
    BY <2>1, <2>2, <2>3, <2>4 DEF PoolInv
<1>2. CASE OnErrorRetrying(k)
  <2> USE <1>0, <1>2 DEF OnErrorRetrying
  <2>1. TypeOK'
    BY DEF TypeOK
  <2>2. RefsAreHolders'
    BY SameHolders
  <2>3. OneConnectionPerKey'
    BY DEF OneConnectionPerKey, TypeOK
  <2>4. HooksShowTheConnection'
    BY DEF HooksShowTheConnection, TypeOK
  <2> QED
    BY <2>1, <2>2, <2>3, <2>4 DEF PoolInv
<1>3. CASE OnErrorClosed(k)
  <2> USE <1>0, <1>3 DEF OnErrorClosed
  <2>1. TypeOK'
    BY DEF TypeOK
  <2>2. RefsAreHolders'
    BY SameHolders
  <2>3. OneConnectionPerKey'
    BY DEF OneConnectionPerKey, TypeOK
  <2>4. HooksShowTheConnection'
    BY DEF HooksShowTheConnection, TypeOK
  <2> QED
    BY <2>1, <2>2, <2>3, <2>4 DEF PoolInv
<1>4. CASE TimerFires(k)
  <2> USE <1>0, <1>4 DEF TimerFires
  <2>1. k \in pool
    BY DEF OneConnectionPerKey
  <2>2. TypeOK'
    BY <2>1 DEF TypeOK
  <2>3. RefsAreHolders'
    BY SameHolders
  <2>4. OneConnectionPerKey'
    BY <2>1 DEF OneConnectionPerKey, TypeOK
  <2>5. HooksShowTheConnection'
    BY <2>1 DEF HooksShowTheConnection, TypeOK
  <2> QED
    BY <2>2, <2>3, <2>4, <2>5 DEF PoolInv
<1>5. CASE Mutation(k)
  <2> USE <1>0, <1>5 DEF Mutation
  <2>1. TypeOK'
    BY DEF TypeOK
  <2>2. RefsAreHolders'
    BY SameHolders
  <2>3. OneConnectionPerKey'
    BY DEF OneConnectionPerKey, TypeOK
  <2>4. HooksShowTheConnection'
    BY DEF HooksShowTheConnection, TypeOK
  <2> QED
    BY <2>1, <2>2, <2>3, <2>4 DEF PoolInv
<1> QED
  BY <1>1, <1>2, <1>3, <1>4, <1>5

\* Refresh timers touch nothing that the invariant speaks of but their own type.
LEMMA RefreshPoolInv ==
  ASSUME PoolInv, UNCHANGED <<held, heard, entry>>, refresh' \subseteq refresh
  PROVE  PoolInv'
<1> USE DEF entry
<1>1. TypeOK'
  BY DEF PoolInv, TypeOK
<1>2. RefsAreHolders'
  BY SameHolders DEF PoolInv
<1>3. OneConnectionPerKey' /\ HooksShowTheConnection'
  BY DEF PoolInv, OneConnectionPerKey, HooksShowTheConnection
<1> QED
  BY <1>1, <1>2, <1>3 DEF PoolInv

\* Every step of the pool keeps its invariant.
LEMMA StepPoolInv == PoolInv /\ [Next]_vars => PoolInv'
<1> SUFFICES ASSUME PoolInv, [Next]_vars PROVE PoolInv'
  OBVIOUS
<1>1. CASE \E h \in Hooks, k \in Keys : Acquire(h, k)
  BY <1>1, AcquirePoolInv
<1>2. CASE \E h \in Hooks : Release(h)
  BY <1>2, ReleasePoolInv
<1>3. CASE \E h \in Hooks : RefreshFires(h) \/ Unmount(h)
  <2>1. UNCHANGED <<held, heard, entry>> /\ refresh' \subseteq refresh
    BY <1>3 DEF RefreshFires, Unmount
  <2> QED
    BY <2>1, RefreshPoolInv
<1>4. CASE \E k \in Keys : \/ OnOpen(k) \/ OnErrorRetrying(k) \/ OnErrorClosed(k)
                           \/ TimerFires(k) \/ Mutation(k)
  BY <1>4, ConnectionPoolInv
<1>5. CASE UNCHANGED vars
  <2>1. UNCHANGED <<held, heard, entry>> /\ refresh' \subseteq refresh
    BY <1>5 DEF vars
  <2> QED
    BY <2>1, RefreshPoolInv
<1> QED
  BY <1>1, <1>2, <1>3, <1>4, <1>5 DEF Next

\* The pool's invariant.
THEOREM PoolInvariance == Spec => []PoolInv
  BY InitPoolInv, StepPoolInv, PTL DEF Spec

\* The state of a pooled entry keeps its type, and no count leaves its bounds.
THEOREM PoolTypeCorrect == Spec => []TypeOK
<1>1. PoolInv => TypeOK
  BY DEF PoolInv
<1> QED
  BY <1>1, PoolInvariance, PTL

\* Reference counting: an entry is pooled exactly while a hook holds it, and
\* counts them.
THEOREM RefsCountHolders == Spec => []RefsAreHolders
<1>1. PoolInv => RefsAreHolders
  BY DEF PoolInv
<1> QED
  BY <1>1, PoolInvariance, PTL

\* No key ever has two EventSources, or one and a reconnect to come.
THEOREM ConnectionIsUnique == Spec => []OneConnectionPerKey
<1>1. PoolInv => OneConnectionPerKey
  BY DEF PoolInv
<1> QED
  BY <1>1, PoolInvariance, PTL

\* A hook never shows a status that is not its connection's.
THEOREM HooksTellTheTruth == Spec => []HooksShowTheConnection
<1>1. PoolInv => HooksShowTheConnection
  BY DEF PoolInv
<1> QED
  BY <1>1, PoolInvariance, PTL
=============================================================================
