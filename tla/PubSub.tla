------------------------------- MODULE PubSub -------------------------------
(***************************************************************************)
(* Publish/subscribe: ChannelRegistry, PubSubBroker and SessionMailbox     *)
(* (pubsub/*.cpp), called by several threads.                              *)
(*                                                                         *)
(* The registry and the mailbox have a mutex each, and each of their       *)
(* operations is one step.  publish holds neither from one call to the     *)
(* next: it copies the subscribers of the channel, then enqueues for one   *)
(* after the other.  A name that is not in a map and a name with an empty  *)
(* vector or queue behave alike, and are one here.                         *)
(*                                                                         *)
(* Wired tells whether wire_broker_delivery was called when the broker was *)
(* made.  The server never calls it, and subscribes every session as 1.    *)
(***************************************************************************)
EXTENDS Naturals, Sequences, SequencesExt

CONSTANTS Subscriber, Channel,
          Publisher,    \* threads that call publish
          Wired,        \* delivery_ is set
          MaxMessages   \* bound: messages of one publisher

ASSUME BoundAssumption == MaxMessages \in Nat

VARIABLES channel_map_, subscriber_map_, queues_,
          call,       \* the publish call of every publisher
          latest      \* history: the last message of every publisher in each mailbox

vars == <<channel_map_, subscriber_map_, queues_, call, latest>>

\* The n-th message of a publisher.
Message == [from : Publisher, n : 1 .. MaxMessages]

AddOnce(s, e) == IF Contains(s, e) THEN s ELSE Append(s, e)

\* What std::remove has kept of the first n elements
Kept(s, e) ==
  LET kept[n \in 0 .. Len(s)] == IF n = 0 THEN << >>
                                 ELSE IF s[n] = e THEN kept[n - 1]
                                 ELSE Append(kept[n - 1], s[n])
  IN  kept

\* Fault: std::remove without the erase leaves the length as it was.
WithoutErase(s, e) ==
  LET kept == Kept(s, e)[Len(s)]
  IN  kept \o SubSeq(s, Len(kept) + 1, Len(s))

Without(s, e) == Kept(s, e)[Len(s)]

\* reply is targets.size(), targets the subscribers still to come.
Init ==
  /\ channel_map_ = [c \in Channel |-> << >>]
  /\ subscriber_map_ = [s \in Subscriber |-> << >>]
  /\ queues_ = [s \in Subscriber |-> << >>]
  /\ call = [p \in Publisher |->
               [busy |-> FALSE, n |-> 0, targets |-> << >>, reply |-> 0]]
  /\ latest = [s \in Subscriber |-> [p \in Publisher |-> 0]]

-----------------------------------------------------------------------------
(* ChannelRegistry                                                         *)

subscribe(c, s) ==
  /\ channel_map_' = [channel_map_ EXCEPT ![c] = AddOnce(@, s)]
  /\ subscriber_map_' = [subscriber_map_ EXCEPT ![s] = AddOnce(@, c)]
  /\ UNCHANGED <<queues_, call, latest>>

unsubscribe(c, s) ==
  /\ channel_map_' = [channel_map_ EXCEPT ![c] = Without(@, s)]
  /\ subscriber_map_' = [subscriber_map_ EXCEPT ![s] = Without(@, c)]
  /\ UNCHANGED <<queues_, call, latest>>

\* Only the channels that the subscriber's own list names are visited.
unsubscribe_all(s) ==
  /\ channel_map_' = [c \in Channel |-> IF Contains(subscriber_map_[s], c)
                                        THEN Without(channel_map_[c], s)
                                        ELSE channel_map_[c]]
  /\ subscriber_map_' = [subscriber_map_ EXCEPT ![s] = << >>]
  /\ UNCHANGED <<queues_, call, latest>>

subscribers(c) == channel_map_[c]

-----------------------------------------------------------------------------
(* PubSubBroker::publish                                                   *)

\* Fault: the loop starts at the second subscriber.
PublishFromSecond(p, c) ==
  /\ ~call[p].busy
  /\ call[p].n < MaxMessages
  /\ call' = [call EXCEPT ![p] =
                [busy |-> TRUE, n |-> @.n + 1, reply |-> Len(subscribers(c)),
                 targets |-> SubSeq(subscribers(c), 2, Len(subscribers(c)))]]
  /\ UNCHANGED <<channel_map_, subscriber_map_, queues_, latest>>

Publish(p, c) ==
  /\ ~call[p].busy
  /\ call[p].n < MaxMessages
  /\ call' = [call EXCEPT ![p] =
                [busy |-> TRUE, n |-> @.n + 1, reply |-> Len(subscribers(c)),
                 targets |-> subscribers(c)]]
  /\ UNCHANGED <<channel_map_, subscriber_map_, queues_, latest>>

\* SessionMailbox::enqueue
enqueue(s, m) ==
  /\ queues_' = [queues_ EXCEPT ![s] = Append(@, m)]
  /\ latest' = [latest EXCEPT ![s][m.from] = m.n]

\* Fault: the same subscriber may be served again.
DeliverAgain(p) ==
  /\ call[p].targets # << >>
  /\ enqueue(Head(call[p].targets), [from |-> p, n |-> call[p].n])
  /\ \/ call' = [call EXCEPT ![p].targets = Tail(@)]
     \/ UNCHANGED call
  /\ UNCHANGED <<channel_map_, subscriber_map_>>

\* One turn of the loop over targets; without delivery_ it does nothing.
Deliver(p) ==
  /\ call[p].targets # << >>
  /\ IF Wired
     THEN enqueue(Head(call[p].targets), [from |-> p, n |-> call[p].n])
     ELSE UNCHANGED <<queues_, latest>>
  /\ call' = [call EXCEPT ![p].targets = Tail(@)]
  /\ UNCHANGED <<channel_map_, subscriber_map_>>

Return(p) ==
  /\ call[p].busy
  /\ call[p].targets = << >>
  /\ call' = [call EXCEPT ![p].busy = FALSE, ![p].reply = 0]
  /\ UNCHANGED <<channel_map_, subscriber_map_, queues_, latest>>

publish(p) == (\E c \in Channel : Publish(p, c)) \/ Deliver(p) \/ Return(p)

-----------------------------------------------------------------------------
(* SessionMailbox, on the side of the subscriber                           *)

try_dequeue(s) ==
  /\ queues_[s] # << >>
  /\ queues_' = [queues_ EXCEPT ![s] = Tail(@)]
  /\ UNCHANGED <<channel_map_, subscriber_map_, call, latest>>

clear(s) ==
  /\ queues_[s] # << >>
  /\ queues_' = [queues_ EXCEPT ![s] = << >>]
  /\ UNCHANGED <<channel_map_, subscriber_map_, call, latest>>

Next == \/ \E p \in Publisher : publish(p)
        \/ \E s \in Subscriber :
             \/ \E c \in Channel : subscribe(c, s) \/ unsubscribe(c, s)
             \/ unsubscribe_all(s) \/ try_dequeue(s) \/ clear(s)

Spec == Init /\ [][Next]_vars

-----------------------------------------------------------------------------
\* Through subscribe, unsubscribe and unsubscribe_all the two maps are each
\* other's inverse, so that unsubscribe_all, which follows subscriber_map_,
\* leaves no trace of the subscriber in channel_map_.
MapsAgree ==
  \A c \in Channel, s \in Subscriber :
    Contains(channel_map_[c], s) <=> Contains(subscriber_map_[s], c)

\* Fan-out with concurrent publishers and subscriptions that change during a
\* publish: a subscriber gets each message at most once, and the messages of
\* one publisher in the order in which they were published.
InOrder ==
  [][\A s \in Subscriber, m \in Message :
       enqueue(s, m) => m.n > latest[s][m.from]]_vars

\* "Pub/Sub channels with fan-out delivery" (README.md:12): the number that
\* publish returns, which PUBLISH replies as the count "delivered"
\* (dispatcher.cpp:76), is the number of mailboxes the message has reached.
ReplyIsDelivered ==
  [][\A p \in Publisher : Return(p) =>
       call[p].reply =
         Cardinality({s \in Subscriber : latest[s][p] = call[p].n})]_vars
=============================================================================
