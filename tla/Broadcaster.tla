---------------------------- MODULE Broadcaster ----------------------------
(***************************************************************************)
(* The event broadcaster of the retained service (internal/sse/            *)
(* broadcaster.go): one goroutine, listen(), owns the subscribers and      *)
(* talks to the handlers of the streams and to the callers of Broadcast()  *)
(* over unbuffered channels, so that each meeting is one step of both.     *)
(* Every select may take any of its ready cases; shutdown is one of them.  *)
(***************************************************************************)
EXTENDS Naturals, Sequences

CONSTANTS Streams,    \* requests for a stream, each with a channel of its own
          Callers,    \* Broadcast() calls under way at one time
          Topics,     \* jobs with events
          NoTopic,
          Buffer,     \* of a stream's channel, 16 in the code
          MaxEvents   \* bound: events ever broadcast

ASSUME BroadcasterAssumption == Buffer \in Nat \ {0} /\ MaxEvents \in Nat

VARIABLES
  listening,    \* listen() runs
  shutdown,     \* the shutdown channel is closed
  subscribers,
  stream,       \* the handlers: where they are, the job asked for, channel
  closed,       \* streams whose channel is closed
  gone,         \* streams whose client has left
  call,         \* the callers, and the event each one brings
  received,     \* history: what was written to each stream
  events        \* history: number of events so far

streamVars == <<listening, shutdown, subscribers, stream, closed, gone, call, received, events>>

Event == [job : Topics, number : 1..MaxEvents]
Places == {"none", "registering", "open", "leaving", "ended"}

StreamsType ==
  /\ listening \in BOOLEAN /\ shutdown \in BOOLEAN
  /\ subscribers \subseteq Streams /\ closed \subseteq Streams /\ gone \subseteq Streams
  /\ stream \in [Streams -> [at : Places, job : Topics \cup {NoTopic}, channel : Seq(Event)]]
  /\ \A s \in Streams : Len(stream[s].channel) <= Buffer
  /\ call \in [Callers -> {<<>>} \cup {<<e>> : e \in Event}]
  /\ received \in [Streams -> Seq(Event)] /\ events \in 0..MaxEvents

StreamsInit ==
  /\ listening = TRUE /\ shutdown = FALSE /\ subscribers = {}
  /\ stream = [s \in Streams |-> [at |-> "none", job |-> NoTopic, channel |-> <<>>]]
  /\ closed = {} /\ gone = {}
  /\ call = [k \in Callers |-> <<>>]
  /\ received = [s \in Streams |-> <<>>] /\ events = 0

At(s, place) == stream' = [stream EXCEPT ![s].at = place]

-----------------------------------------------------------------------------
\* ServeHTTP().
Connect(s, j) ==
  /\ stream[s].at = "none"
  /\ stream' = [stream EXCEPT ![s].at = "registering", ![s].job = j]
  /\ UNCHANGED <<listening, shutdown, subscribers, closed, gone, call, received, events>>

ClientLeaves(s) ==
  /\ stream[s].at # "none" /\ s \notin gone
  /\ gone' = gone \cup {s}
  /\ UNCHANGED <<listening, shutdown, subscribers, stream, closed, call, received, events>>

Register(s) ==
  /\ listening /\ stream[s].at = "registering"
  /\ subscribers' = subscribers \cup {s}
  /\ At(s, "open")
  /\ UNCHANGED <<listening, shutdown, closed, gone, call, received, events>>

RegisterGivenUp(s) ==
  /\ stream[s].at = "registering" /\ (shutdown \/ s \in gone)
  /\ At(s, "ended")
  /\ UNCHANGED <<listening, shutdown, subscribers, closed, gone, call, received, events>>

WriteEvent(s) ==
  /\ stream[s].at = "open" /\ stream[s].channel # <<>>
  /\ stream' = [stream EXCEPT ![s].channel = Tail(@)]
  /\ received' = [received EXCEPT ![s] = Append(@, Head(stream[s].channel))]
  /\ UNCHANGED <<listening, shutdown, subscribers, closed, gone, call, events>>

\* A closed channel is read to its end first.
StreamCloses(s) ==
  /\ stream[s].at = "open"
  /\ s \in gone \/ (s \in closed /\ stream[s].channel = <<>>)
  /\ At(s, "leaving")
  /\ UNCHANGED <<listening, shutdown, subscribers, closed, gone, call, received, events>>

\* Mutant: the channel is closed and the stream stays a subscriber.
UnregisterCloses(s) ==
  /\ listening /\ stream[s].at = "leaving"
  /\ closed' = closed \cup {s}
  /\ At(s, "ended")
  /\ UNCHANGED <<listening, shutdown, subscribers, gone, call, received, events>>

Unregister(s) ==
  /\ listening /\ stream[s].at = "leaving"
  /\ closed' = closed \cup ({s} \cap subscribers)
  /\ subscribers' = subscribers \ {s}
  /\ At(s, "ended")
  /\ UNCHANGED <<listening, shutdown, gone, call, received, events>>

\* Mutant: a stream that ends asks the listener to remove it in any case.
UnregisterInsists(s) == FALSE /\ UNCHANGED streamVars

UnregisterGivenUp(s) ==
  /\ stream[s].at = "leaving" /\ shutdown
  /\ At(s, "ended")
  /\ UNCHANGED <<listening, shutdown, subscribers, closed, gone, call, received, events>>

-----------------------------------------------------------------------------
\* Broadcast().
Call(k, j) ==
  /\ call[k] = <<>> /\ events < MaxEvents
  /\ events' = events + 1
  /\ call' = [call EXCEPT ![k] = <<[job |-> j, number |-> events']>>]
  /\ UNCHANGED <<listening, shutdown, subscribers, stream, closed, gone, received>>

\* Mutant: the buffer of a slow client grows.
DeliverUnbounded(k) ==
  /\ listening /\ call[k] # <<>>
  /\ stream' = [s \in Streams |->
       IF s \in subscribers /\ stream[s].job = call[k][1].job
       THEN [stream[s] EXCEPT !.channel = @ \o call[k]] ELSE stream[s]]
  /\ call' = [call EXCEPT ![k] = <<>>]
  /\ UNCHANGED <<listening, shutdown, subscribers, closed, gone, received, events>>

\* A slow client misses the event; nobody waits for it.
Deliver(k) ==
  /\ listening /\ call[k] # <<>>
  /\ stream' = [s \in Streams |->
       IF s \in subscribers /\ stream[s].job = call[k][1].job /\ Len(stream[s].channel) < Buffer
       THEN [stream[s] EXCEPT !.channel = @ \o call[k]] ELSE stream[s]]
  /\ call' = [call EXCEPT ![k] = <<>>]
  /\ UNCHANGED <<listening, shutdown, subscribers, closed, gone, received, events>>

CallGivenUp(k) ==
  /\ shutdown /\ call[k] # <<>>
  /\ call' = [call EXCEPT ![k] = <<>>]
  /\ UNCHANGED <<listening, shutdown, subscribers, stream, closed, gone, received, events>>

-----------------------------------------------------------------------------
ShutdownStreams ==
  /\ ~shutdown /\ shutdown' = TRUE
  /\ UNCHANGED <<listening, subscribers, stream, closed, gone, call, received, events>>

ListenEnds ==
  /\ listening /\ shutdown
  /\ listening' = FALSE
  /\ closed' = closed \cup subscribers
  /\ subscribers' = {}
  /\ UNCHANGED <<shutdown, stream, gone, call, received, events>>

StreamHandler(s) ==
  \/ Register(s) \/ RegisterGivenUp(s) \/ WriteEvent(s)
  \/ StreamCloses(s) \/ Unregister(s) \/ UnregisterGivenUp(s)

StreamsNext ==
  \/ \E s \in Streams : ClientLeaves(s) \/ StreamHandler(s) \/ \E j \in Topics : Connect(s, j)
  \/ \E k \in Callers :
       \/ Deliver(k) \/ CallGivenUp(k)
       \/ \E j \in Topics : Call(k, j)
  \/ ShutdownStreams \/ ListenEnds

\* Goroutines run on; users call, leave and shut down when they like.
StreamsGoOn ==
  \/ \E s \in Streams : StreamHandler(s)
  \/ \E k \in Callers : Deliver(k) \/ CallGivenUp(k)
  \/ ListenEnds

-----------------------------------------------------------------------------
\* A send on a closed channel, or closing it twice, panics and takes the
\* service down; listen() sends to and closes the channels of its subscribers.
SubscribersAreOpen == subscribers \cap closed = {}

\* A client sees events of its own job only, each once, and no two clients see
\* two events in opposite orders.
EventsAreItsOwn ==
  LET Seen(s) == received[s] \o stream[s].channel
      Order(s) == {<<Seen(s)[p[1]], Seen(s)[p[2]]>> :
                    p \in {q \in (DOMAIN Seen(s)) \X (DOMAIN Seen(s)) : q[1] < q[2]}}
  IN
  /\ \A s \in Streams : \A i \in DOMAIN Seen(s) : Seen(s)[i].job = stream[s].job
  /\ \A s, t \in Streams : \A p \in Order(s) : <<p[2], p[1]>> \notin Order(t)

\* The HTTP server waits for its handlers when the service ends, and the
\* processors of jobs for Broadcast(): after a shutdown, or when every client
\* has left, no stream stays open or subscribed and no caller is held up.
StreamsEnd ==
  shutdown \/ gone = Streams
    ~> /\ \A s \in Streams : stream[s].at \in {"none", "ended"} /\ s \notin subscribers
       /\ \A k \in Callers : call[k] = <<>>
=============================================================================
