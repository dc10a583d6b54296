---------------------------- MODULE RedisPublisher ----------------------------
(***************************************************************************)
(* The publishers of packages/core: createMemoryPublisher, and             *)
(* createRedisPublisher over a connection string ("url") or over a client  *)
(* of the host that can duplicate() itself ("client").  A process may have *)
(* had several, of which all but the last are closed.                      *)
(*                                                                         *)
(* handlers is the Set of each channel.  close() clears the map, while the *)
(* disposers given out earlier still hold their Sets, so the Sets stay and *)
(* Listening is what the map of an open publisher answers.                 *)
(*                                                                         *)
(* Redis is external: a connection that is subscribed to a channel gets    *)
(* what is published on it.  Commands of one connection keep their order.  *)
(***************************************************************************)
EXTENDS Integers, FiniteSets

CONSTANTS
  Handlers,     \* callbacks passed to subscribe, one per server stream
  Channels,
  Publishers,   \* bound on the publishers a process creates
  Connections,  \* bound on its subscriber connections open at once
  Options,      \* configurations of the transport in use
  MaxPending,   \* bound on connect() calls a publisher awaits for one channel
  Nothing,      \* no publisher, no connection, no configuration
  MaxRefusals     \* bound on failed connects and rejected SUBSCRIBEs

Drivers == {"memory", "url", "client"}

\* "unbound" is the memory publisher of a process that has bound nothing yet.
InMemory == {"memory", "unbound"}
Created == Drivers \cup InMemory

ASSUME NothingAssumption == Nothing \notin Publishers \cup Connections \cup Channels \cup Created
ASSUME OptionsAssumption == Options \subseteq Drivers
ASSUME BoundsAssumption == MaxRefusals \in Nat /\ MaxPending \in Nat

VARIABLES
  options,     \* what each publisher was created with; Nothing: not created
  closed,      \* publishers whose close() was called
  handlers,    \* per publisher and channel, the Set of callbacks
  connecting,  \* per publisher and channel, first subscriptions that await connect()
  sub,         \* `sub`: the connection a publisher subscribes on
  owner,       \* whose each open connection is; Nothing: not open
  wired,       \* <<connection, channel>> subscribed at Redis
  refused,     \* <<publisher, channel>> whose first subscription failed
  refusals

wire == <<connecting, sub, owner, wired, refused, refusals>>
pubVars == <<options, closed, handlers, wire>>

PublisherTypeOK ==
  /\ options \in [Publishers -> Created \cup {Nothing}]
  /\ closed \in SUBSET Publishers
  /\ handlers \in [Publishers -> [Channels -> SUBSET Handlers]]
  /\ connecting \in [Publishers -> [Channels -> 0..MaxPending]]
  /\ sub \in [Publishers -> Connections \cup {Nothing}]
  /\ owner \in [Connections -> Publishers \cup {Nothing}]
  /\ wired \in SUBSET (Connections \X Channels)
  /\ refused \in SUBSET (Publishers \X Channels)
  /\ refusals \in 0..MaxRefusals

PublisherInit ==
  /\ options = [p \in Publishers |-> Nothing]
  /\ closed = {}
  /\ handlers = [p \in Publishers |-> [ch \in Channels |-> {}]]
  /\ connecting = [p \in Publishers |-> [ch \in Channels |-> 0]]
  /\ sub = [p \in Publishers |-> Nothing]
  /\ owner = [c \in Connections |-> Nothing]
  /\ wired = {} /\ refused = {} /\ refusals = 0

Refusal == refusals < MaxRefusals /\ refusals' = refusals + 1

CanCreate == \E p \in Publishers : options[p] = Nothing
NewPublisher == CHOOSE p \in Publishers : options[p] = Nothing

\* What the handlers map of a publisher answers for a channel.
Listening(p, ch) == IF p \in closed THEN {} ELSE handlers[p][ch]

\* Channels of a subscription that no handler has: they go to the wire.
Firsts(p, chs) == {ch \in chs : handlers[p][ch] = {}}

-----------------------------------------------------------------------------
(* subscriber(): the connection of a first subscription *)

CanConnect == \E c \in Connections : owner[c] = Nothing
NewConnection == CHOOSE c \in Connections : owner[c] = Nothing

AddToWire(c, chs) == wired' = wired \cup ({c} \X chs)

\* A new connection becomes `sub`.
OpenConnection(p) ==
  /\ CanConnect
  /\ owner' = [owner EXCEPT ![NewConnection] = p]
  /\ sub' = [sub EXCEPT ![p] = NewConnection]

\* An established connection takes the SUBSCRIBEs at once; Redis may reject.
WireOn(p, c, chs) ==
  \/ AddToWire(c, chs) /\ UNCHANGED <<refused, refusals>>
  \/ Refusal /\ chs # {} /\ refused' = refused \cup ({p} \X chs) /\ UNCHANGED wired

\* With a connection string every first subscription that finds no `sub`
\* awaits a connect() of its own.
WireUp(p, chs) ==
  CASE options[p] \in InMemory \/ chs = {} -> UNCHANGED wire
    [] sub[p] # Nothing -> WireOn(p, sub[p], chs) /\ UNCHANGED <<connecting, sub, owner>>
    [] options[p] = "client" /\ sub[p] = Nothing ->
         OpenConnection(p) /\ WireOn(p, NewConnection, chs) /\ UNCHANGED connecting
    [] OTHER ->
         /\ \A ch \in chs : connecting[p][ch] < MaxPending
         /\ connecting' = [connecting EXCEPT ![p] =
              [ch \in Channels |-> IF ch \in chs THEN @[ch] + 1 ELSE @[ch]]]
         /\ UNCHANGED <<sub, owner, wired, refused, refusals>>

\* connect() resolves: the latest connection becomes `sub`, and the channel
\* that waited is subscribed on it.
Connected(p, ch) ==
  /\ connecting[p][ch] > 0
  /\ connecting' = [connecting EXCEPT ![p][ch] = @ - 1]
  /\ OpenConnection(p) /\ WireOn(p, NewConnection, {ch})
  /\ UNCHANGED <<options, closed, handlers>>

\* connect() rejects: logged, and not retried.
ConnectFails(p, ch) ==
  /\ connecting[p][ch] > 0
  /\ connecting' = [connecting EXCEPT ![p][ch] = @ - 1]
  /\ Refusal
  /\ refused' = refused \cup {<<p, ch>>}
  /\ UNCHANGED <<options, closed, handlers, sub, owner, wired>>

-----------------------------------------------------------------------------
(* The calls *)

\* subscribe(ch, h) for each of chs in a row.  A closed publisher registers
\* nothing and hands back a disposer that does nothing.
Subscribe(p, h, chs) ==
  IF p \in closed
  THEN UNCHANGED pubVars
  ELSE /\ handlers' = [handlers EXCEPT ![p] =
            [ch \in Channels |-> IF ch \in chs THEN @[ch] \cup {h} ELSE @[ch]]]
       /\ WireUp(p, Firsts(p, chs))
       /\ UNCHANGED <<options, closed>>

\* Faulty: unsubscribes the wire with every handler that leaves.
DisposeWireAlways(p, h) ==
  LET mine == {ch \in Channels : h \in handlers[p][ch]} IN
  /\ handlers' = [handlers EXCEPT ![p] = [ch \in Channels |-> @[ch] \ {h}]]
  /\ wired' = wired \ ({sub[p]} \X mine)
  /\ refused' = refused \ ({p} \X mine)
  /\ UNCHANGED <<options, closed, connecting, sub, owner, refusals>>

\* Faulty: the disposer drops the channel instead of its handler.
DisposeForAll(p, h) ==
  LET mine == {ch \in Channels : h \in handlers[p][ch]} IN
  /\ handlers' = [handlers EXCEPT ![p] = [ch \in Channels |-> IF ch \in mine THEN {} ELSE @[ch]]]
  /\ wired' = wired \ ({sub[p]} \X mine)
  /\ refused' = refused \ ({p} \X mine)
  /\ UNCHANGED <<options, closed, connecting, sub, owner, refusals>>

\* The disposers of h: the last handler of a channel takes it off the wire, on
\* whatever connection is `sub` now.
Dispose(p, h) ==
  LET last == {ch \in Channels : handlers[p][ch] = {h}} IN
  /\ handlers' = [handlers EXCEPT ![p] = [ch \in Channels |-> @[ch] \ {h}]]
  /\ wired' = wired \ ({sub[p]} \X last)
  /\ refused' = refused \ ({p} \X last)
  /\ UNCHANGED <<options, closed, connecting, sub, owner, refusals>>

Owned(p) == {c \in Connections : owner[c] = p}

\* Faulty: the publisher that is replaced is forgotten.
ReplaceOpen(old, new, o) ==
  /\ options' = [options EXCEPT ![new] = o]
  /\ UNCHANGED <<closed, handlers, wire>>

\* createPublisher(o), and close() of the publisher it replaces, if any.  A
\* connect() under way is not part of `owned` yet.
Replace(old, new, o) ==
  /\ options' = [options EXCEPT ![new] = o]
  /\ closed' = closed \cup ({old} \ {Nothing})
  /\ sub' = [p \in Publishers |-> IF p = old THEN Nothing ELSE sub[p]]
  /\ owner' = [c \in Connections |-> IF c \in Owned(old) THEN Nothing ELSE owner[c]]
  /\ wired' = wired \ (Owned(old) \X Channels)
  /\ UNCHANGED <<handlers, connecting, refused, refusals>>

\* A channel is on the wire for a publisher.
Carried(p, ch) == \E c \in Owned(p) : <<c, ch>> \in wired
=============================================================================
