---------------------------- MODULE RealtimeServer ----------------------------
(***************************************************************************)
(* The server side of realtime in one Next.js process: the publisher store *)
(* of packages/next (bindPublisher, getPublisher) and the SSE streams of   *)
(* stream.ts, over the publishers of RedisPublisher.                       *)
(*                                                                         *)
(* A stream is a GET: it binds the publisher, awaits the session and the   *)
(* permission of each channel, then starts, unless its client has gone     *)
(* meanwhile.  A client that goes later is told by the abort signal, by    *)
(* cancel() of the body or by a failing enqueue, all of which run the same *)
(* cleanup.  A stream that has ended may be opened again by a reconnect.   *)
(***************************************************************************)
EXTENDS RedisPublisher

VARIABLES
  current,    \* store.publisher
  phase,      \* of each stream: "ended", "opening" or "open"
  gone,       \* streams whose client has disconnected
  channels,   \* channels an open stream was granted
  on,         \* the publisher it subscribed on
  heartbeat,  \* streams with a running interval
  event,      \* the channel of the event published, if it has been
  flying,     \* connections Redis has sent it to, not yet dispatched
  due,        \* streams it has to reach
  got         \* streams it was enqueued on

streams == <<phase, gone, channels, on, heartbeat>>
delivery == <<event, flying, due, got>>
serverVars == <<pubVars, current, streams, delivery>>

Streams == Handlers

ServerTypeOK ==
  /\ PublisherTypeOK
  /\ current \in Publishers \cup {Nothing}
  /\ phase \in [Streams -> {"ended", "opening", "open"}]
  /\ channels \in [Streams -> SUBSET Channels]
  /\ on \in [Streams -> Publishers \cup {Nothing}]
  /\ {gone, heartbeat, due, got} \subseteq SUBSET Streams
  /\ event \in Channels \cup {Nothing}
  /\ flying \in SUBSET Connections

ServerInit ==
  /\ PublisherInit
  /\ current = Nothing
  /\ phase = [s \in Streams |-> "ended"]
  /\ channels = [s \in Streams |-> {}]
  /\ on = [s \in Streams |-> Nothing]
  /\ gone = {} /\ heartbeat = {}
  /\ event = Nothing /\ flying = {} /\ due = {} /\ got = {}

-----------------------------------------------------------------------------
(* bindPublisher *)

\* Events on their way to a closed connection are lost, its streams not due.
DropDelivery(p) ==
  /\ flying' = flying \ Owned(p)
  /\ due' = due \ {s \in Streams : on[s] = p}
  /\ UNCHANGED <<event, got>>

\* A new publisher takes the place of the current one.
Install(o) ==
  /\ CanCreate
  /\ current' = NewPublisher
  /\ Replace(current, NewPublisher, o)
  /\ IF current = Nothing THEN UNCHANGED delivery ELSE DropDelivery(current)

\* Bound options are compared; those of the unbound fallback are null, so that
\* the first bind replaces it.
Bind(o) ==
  IF current # Nothing /\ options[current] = o
  THEN UNCHANGED <<pubVars, current, delivery>>
  ELSE Install(o)

\* Any page, action or drawer request binds first.
RequestBinds == \E o \in Options : Bind(o) /\ UNCHANGED streams

-----------------------------------------------------------------------------
(* stream(config)(req) *)

Open(s) ==
  /\ phase[s] = "ended"
  /\ \E o \in Options : Bind(o)
  /\ phase' = [phase EXCEPT ![s] = "opening"]
  /\ UNCHANGED <<gone, channels, on, heartbeat>>

\* The session provider or requireRole refuses the stream.
RefuseStream(s) ==
  /\ phase[s] = "opening"
  /\ phase' = [phase EXCEPT ![s] = "ended"]
  /\ gone' = gone \ {s}
  /\ UNCHANGED <<pubVars, current, channels, on, heartbeat, delivery>>

\* Faulty: starts for a client that has gone, whose abort has already fired.
StartRegardless(s, chs) ==
  /\ phase[s] = "opening" /\ current # Nothing
  /\ phase' = [phase EXCEPT ![s] = IF s \in gone THEN "ended" ELSE "open"]
  /\ on' = [on EXCEPT ![s] = current]
  /\ channels' = [channels EXCEPT ![s] = chs]
  /\ heartbeat' = heartbeat \cup {s}
  /\ Subscribe(current, s, chs)
  /\ gone' = gone \ {s}
  /\ UNCHANGED <<current, delivery>>

\* start(controller): subscribes on the publisher that is current by now.
Start(s, chs) ==
  /\ phase[s] = "opening" /\ current # Nothing
  /\ IF s \in gone
     THEN /\ phase' = [phase EXCEPT ![s] = "ended"]
          /\ gone' = gone \ {s}
          /\ UNCHANGED <<pubVars, channels, on, heartbeat, delivery>>
     ELSE /\ phase' = [phase EXCEPT ![s] = "open"]
          /\ on' = [on EXCEPT ![s] = current]
          /\ channels' = [channels EXCEPT ![s] = chs]
          /\ heartbeat' = heartbeat \cup {s}
          /\ Subscribe(current, s, chs)
          /\ UNCHANGED <<gone, delivery>>
  /\ UNCHANGED current

Disconnect(s) ==
  /\ phase[s] # "ended" /\ s \notin gone
  /\ gone' = gone \cup {s}
  /\ UNCHANGED <<pubVars, current, phase, channels, on, heartbeat, delivery>>

Cleanup(s) ==
  /\ Dispose(on[s], s)
  /\ heartbeat' = heartbeat \ {s}

\* The abort listener, cancel(), or an enqueue (an event's or a heartbeat's)
\* on the controller of a client that has gone.
End(s) ==
  /\ phase[s] = "open" /\ s \in gone
  /\ phase' = [phase EXCEPT ![s] = "ended"]
  /\ Cleanup(s)
  /\ gone' = gone \ {s}
  /\ channels' = [channels EXCEPT ![s] = {}]
  /\ on' = [on EXCEPT ![s] = Nothing]
  /\ due' = due \ {s} /\ got' = got \ {s} /\ UNCHANGED <<event, flying>>
  /\ UNCHANGED current

-----------------------------------------------------------------------------
(* Events *)

\* Streams that an event on ch has to reach: open, and already on the wire.
Reachable(ch) ==
  {s \in Streams : phase[s] = "open" /\ ch \in channels[s] /\ on[s] \notin closed
                   /\ Carried(on[s], ch)}

\* publish() before any bind in this process installs a memory publisher
\* nobody listens to.
PublishUnbound ==
  /\ current = Nothing
  /\ CanCreate
  /\ current' = NewPublisher
  /\ Replace(Nothing, NewPublisher, "unbound")
  /\ UNCHANGED <<streams, delivery>>

\* The memory publisher calls its handlers before publish() returns.
PublishInMemory(ch) ==
  /\ event = Nothing /\ current # Nothing /\ options[current] \in InMemory
  /\ event' = ch
  /\ got' = Listening(current, ch)
  /\ UNCHANGED <<flying, due>>
  /\ UNCHANGED <<pubVars, current, streams>>

\* An event published through Redis, by this process or another.
PublishOnRedis(ch) ==
  /\ event = Nothing
  /\ event' = ch
  /\ flying' = {c \in Connections : <<c, ch>> \in wired}
  /\ due' = Reachable(ch)
  /\ UNCHANGED got
  /\ UNCHANGED <<pubVars, current, streams>>

\* dispatch: the connection's "message" event calls the handlers of the channel.
Dispatch(c) ==
  /\ c \in flying
  /\ flying' = flying \ {c}
  /\ LET reached == Listening(owner[c], event) IN
       /\ got' = got \cup reached
       /\ due' = due \ reached
  /\ UNCHANGED event
  /\ UNCHANGED <<pubVars, current, streams>>

PublisherStep ==
  /\ \E p \in Publishers, ch \in Channels : Connected(p, ch) \/ ConnectFails(p, ch)
  /\ UNCHANGED <<current, streams, delivery>>

ServerNext ==
  \/ RequestBinds \/ PublisherStep \/ PublishUnbound
  \/ \E s \in Streams :
       \/ Open(s) \/ RefuseStream(s)
       \/ \E chs \in SUBSET Channels : Start(s, chs)
       \/ Disconnect(s) \/ End(s)
  \/ \E ch \in Channels : PublishInMemory(ch) \/ PublishOnRedis(ch)
  \/ \E c \in Connections : Dispatch(c)

ServerSpec == ServerInit /\ [][ServerNext]_serverVars

-----------------------------------------------------------------------------
(* Properties *)

\* The handlers of the bound publisher are exactly the open streams that want
\* the channel, and the heartbeats those of the open streams, whatever the order
\* of opening, rebinding and disconnecting: no stream is left behind, and a late
\* start does not outlive its client ("or the heartbeat and subscriptions leak
\* for good").  The publisher in use is open and every other one closed.
HandlersAreStreams ==
  /\ {p \in Publishers : options[p] # Nothing} \ closed = {current} \ {Nothing}
  /\ heartbeat = {s \in Streams : phase[s] = "open"}
  /\ \A p \in Publishers \ closed, ch \in Channels :
       handlers[p][ch] = {s \in Streams : phase[s] = "open" /\ on[s] = p /\ ch \in channels[s]}

\* A channel somebody listens to is on the wire, or on its way there, or its
\* first subscription was rejected.
ListenedIsCarried ==
  \A p \in Publishers \ closed, ch \in Channels :
    handlers[p][ch] # {} /\ options[p] \notin InMemory =>
      Carried(p, ch) \/ connecting[p][ch] > 0 \/ <<p, ch>> \in refused

\* An event that has to reach a stream is on its way to it, until the stream
\* ends or its publisher is replaced: nobody is forgotten when subscriptions
\* come, go and change connections around it.  And it is enqueued on open
\* streams that want its channel only.
EventsReachTheirStreams ==
  /\ \A s \in due : \E c \in flying : s \in Listening(owner[c], event)
  /\ \A s \in got : phase[s] = "open" /\ event \in channels[s]
=============================================================================
