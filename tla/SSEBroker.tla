----------------------------- MODULE SSEBroker -----------------------------
(***************************************************************************)
(* The event broker of internal/sse: Subscribe, Publish and Close of       *)
(* broker.go, the goroutine that cleans up after each subscription, and    *)
(* the connections that ServeSSE of handler.go serves from it.             *)
(*                                                                         *)
(* The map of subscribers is keyed by generateID: the time in seconds and  *)
(* one digit of a counter that subscriptions and events share.  Two        *)
(* subscriptions of one second may have the same key, and then the second  *)
(* one takes the entry of the first.                                       *)
(*                                                                         *)
(* Publish sends to all subscribers under the read lock.  It is one step   *)
(* here: sends to different channels commute with what others do to them   *)
(* meanwhile, and nobody can change the map.                               *)
(***************************************************************************)
EXTENDS Naturals, Sequences

CONSTANTS Conns,      \* SSE connections, one request each
          Topics,     \* what events are published to
          AnyTopic,   \* "*"
          Shutdown,   \* the event that Close sends
          Wants,      \* the topics of each connection
          Capacity,   \* of a subscriber's channel, 128 in the code
          IdMod,      \* values of the counter's digit, 10 in the code
          MaxIds,     \* bound: Publish makes no more than this many keys
          MaxSecond,  \* bound: on the clock
          MaxCloses   \* bound: on the calls of Close, 2 in main

ASSUME ShutdownAssumption == Shutdown \notin Topics
ASSUME WantsAssumption == Wants \in [Conns -> SUBSET (Topics \union {AnyTopic})]
ASSUME CapacityAssumption == Capacity \in Nat \ {0} /\ IdMod \in Nat \ {0}
ASSUME BrokerBoundsAssumption ==
    MaxIds \in Nat /\ MaxSecond \in Nat /\ MaxCloses \in Nat

VARIABLES subscribers, \* the values of the map; each one's key is its id
          closes,      \* how often Close has been called
          conn,        \* each connection's ServeSSE
          id,          \* the key of its subscription
          chan,        \* the events in its channel
          cleaner,     \* its cleanup goroutine; "ended" once the channel is closed
          reqEnded,    \* the connections whose request's context has ended
          cancelled,   \* the connections whose subscription was cancelled
          idCounter,
          second,      \* the clock
          told         \* history: the subscribers a Close found in the map

vars == <<subscribers, closes, conn, id, chan, cleaner, reqEnded, cancelled, idCounter,
          second, told>>

Events == Topics \union {Shutdown}

BrokerTypeOK ==
    /\ subscribers \in SUBSET Conns
    /\ closes \in Nat
    /\ conn \in [Conns -> {"none", "serving", "done"}]
    /\ id \in [Conns -> Nat \X Nat]
    /\ chan \in [Conns -> Seq(Events)]
    /\ \A c \in Conns : Len(chan[c]) <= Capacity
    /\ cleaner \in [Conns -> {"none", "waiting", "deleted", "ended"}]
    /\ reqEnded \in SUBSET Conns
    /\ cancelled \in SUBSET Conns
    /\ idCounter \in Nat
    /\ second \in Nat
    /\ told \in SUBSET Conns

Init ==
    /\ subscribers = {}
    /\ closes = 0
    /\ conn = [c \in Conns |-> "none"]
    /\ id = [c \in Conns |-> <<0, 0>>]
    /\ chan = [c \in Conns |-> <<>>]
    /\ cleaner = [c \in Conns |-> "none"]
    /\ reqEnded = {}
    /\ cancelled = {}
    /\ idCounter = 0
    /\ second = 0
    /\ told = {}

-----------------------------------------------------------------------------
(* The flag that Close sets and nothing resets. *)
closed == closes > 0

(* generateID *)
GenerateID == <<second, (idCounter + 1) % IdMod>>

(* A send with a default: a full channel loses the event. *)
Offer(queue, event) == IF Len(queue) < Capacity THEN Append(queue, event) ELSE queue

Matches(c, t) == t \in Wants[c] \/ AnyTopic \in Wants[c]

(* The context of the subscription is derived from the request's. *)
SubEnded(c) == c \in reqEnded \/ c \in cancelled

-----------------------------------------------------------------------------
(* ServeSSE subscribes.  A subscriber with the same key loses its entry.    *)
(* Nothing keeps a connection from subscribing to a closed broker.          *)
Subscribe(c) ==
    /\ conn[c] = "none"
    /\ conn' = [conn EXCEPT ![c] = "serving"]
    /\ id' = [id EXCEPT ![c] = GenerateID]
    /\ idCounter' = idCounter + 1
    /\ subscribers' = {q \in subscribers : id[q] # GenerateID} \union {c}
    /\ cleaner' = [cleaner EXCEPT ![c] = "waiting"]
    /\ UNCHANGED <<closes, chan, reqEnded, cancelled, second, told>>

(* Mutant: a closed broker goes on sending. *)
PublishWhenClosed(t) ==
    /\ idCounter < MaxIds
    /\ idCounter' = idCounter + 1
    /\ chan' = [c \in Conns |->
                  IF c \in subscribers /\ Matches(c, t) THEN Offer(chan[c], t) ELSE chan[c]]
    /\ UNCHANGED <<subscribers, closes, conn, id, cleaner, reqEnded, cancelled, second, told>>

(* An event of the streamer's; a closed broker ignores it. *)
Publish(t) ==
    /\ idCounter < MaxIds
    /\ ~closed
    /\ idCounter' = idCounter + 1
    /\ chan' = [c \in Conns |->
                  IF c \in subscribers /\ Matches(c, t) THEN Offer(chan[c], t) ELSE chan[c]]
    /\ UNCHANGED <<subscribers, closes, conn, id, cleaner, reqEnded, cancelled, second, told>>

(* Mutant: the subscriptions are not cancelled. *)
CloseWithoutCancel ==
    /\ closes < MaxCloses
    /\ closes' = closes + 1
    /\ idCounter' = idCounter + 1
    /\ chan' = [c \in Conns |-> IF c \in subscribers THEN Offer(chan[c], Shutdown) ELSE chan[c]]
    /\ told' = told \union subscribers
    /\ UNCHANGED <<subscribers, conn, id, cleaner, reqEnded, cancelled, second>>

(* Close: a shutdown event for every subscriber in the map, and the end of  *)
(* its subscription.  It does not ask whether the broker is closed already, *)
(* and main calls it twice, before the server's Shutdown and as it returns: *)
(* the second call tells those again whose entry is still there, and those  *)
(* who came after the first.                                                *)
Close ==
    /\ closes < MaxCloses
    /\ closes' = closes + 1
    /\ idCounter' = idCounter + 1
    /\ chan' = [c \in Conns |-> IF c \in subscribers THEN Offer(chan[c], Shutdown) ELSE chan[c]]
    /\ cancelled' = cancelled \union subscribers
    /\ told' = told \union subscribers
    /\ UNCHANGED <<subscribers, conn, id, cleaner, reqEnded, second>>

(* Mutant: the entry stays in the map. *)
CleanupKeepsEntry(c) ==
    /\ cleaner[c] = "waiting"
    /\ SubEnded(c)
    /\ cleaner' = [cleaner EXCEPT ![c] = "deleted"]
    /\ UNCHANGED <<subscribers, closes, conn, id, chan, reqEnded, cancelled, idCounter, second, told>>

(* The cleanup goroutine deletes the entry under the subscription's key,    *)
(* whoever has it by now,                                                   *)
CleanupDelete(c) ==
    /\ cleaner[c] = "waiting"
    /\ SubEnded(c)
    /\ subscribers' = {q \in subscribers : id[q] # id[c]}
    /\ cleaner' = [cleaner EXCEPT ![c] = "deleted"]
    /\ UNCHANGED <<closes, conn, id, chan, reqEnded, cancelled, idCounter, second, told>>

(* Mutant: the goroutine ends without closing the channel. *)
CleanupLeavesOpen(c) == FALSE

(* and, without the lock, closes the channel. *)
CleanupClose(c) ==
    /\ cleaner[c] = "deleted"
    /\ cleaner' = [cleaner EXCEPT ![c] = "ended"]
    /\ UNCHANGED <<subscribers, closes, conn, id, chan, reqEnded, cancelled, idCounter, second, told>>

(* ServeSSE writes the next event to its client. *)
ServeEvent(c) ==
    /\ conn[c] = "serving"
    /\ chan[c] # <<>>
    /\ chan' = [chan EXCEPT ![c] = Tail(@)]
    /\ UNCHANGED <<subscribers, closes, conn, id, cleaner, reqEnded, cancelled, idCounter, second, told>>

(* ServeSSE finds the request's context over, or the channel closed and     *)
(* empty, and unsubscribes as it returns.                                   *)
ServeReturns(c) ==
    /\ conn[c] = "serving"
    /\ c \in reqEnded \/ (cleaner[c] = "ended" /\ chan[c] = <<>>)
    /\ conn' = [conn EXCEPT ![c] = "done"]
    /\ cancelled' = cancelled \union {c}
    /\ UNCHANGED <<subscribers, closes, id, chan, cleaner, reqEnded, idCounter, second, told>>

(* The client goes away. *)
RequestEnds(c) ==
    /\ conn[c] # "done"
    /\ c \notin reqEnded
    /\ reqEnded' = reqEnded \union {c}
    /\ UNCHANGED <<subscribers, closes, conn, id, chan, cleaner, cancelled, idCounter, second, told>>

Tick ==
    /\ second < MaxSecond
    /\ second' = second + 1
    /\ UNCHANGED <<subscribers, closes, conn, id, chan, cleaner, reqEnded, cancelled, idCounter, told>>

ConnStep(c) ==
    \/ Subscribe(c)
    \/ CleanupDelete(c)
    \/ CleanupClose(c)
    \/ ServeEvent(c)
    \/ ServeReturns(c)
    \/ RequestEnds(c)

(* Every connection has come and gone. *)
AllGone ==
    /\ \A c \in Conns : conn[c] = "done" /\ cleaner[c] = "ended"
    /\ UNCHANGED vars

Next ==
    \/ \E c \in Conns : ConnStep(c)
    \/ \E t \in Topics : Publish(t)
    \/ Close
    \/ Tick
    \/ AllGone

Spec == Init /\ [][Next]_vars

(* The goroutines of a connection move when they can.  The select of        *)
(* ServeSSE picks at random among its ready cases, so an ended context is   *)
(* noticed however many events arrive.                                      *)
FairSpec ==
    /\ Spec
    /\ \A c \in Conns :
          /\ WF_vars(CleanupDelete(c))
          /\ WF_vars(CleanupClose(c))
          /\ WF_vars(ServeEvent(c))
          /\ SF_vars(ServeReturns(c))

-----------------------------------------------------------------------------
(* Publish and Close never send on a closed channel, which would panic,     *)
(* although the channel is closed outside the lock and the cleanup of one   *)
(* subscription may delete the entry of another: whoever is in the map has  *)
(* its cleanup still ahead.                                                 *)
NoSendOnClosed == \A c \in subscribers : cleaner[c] = "waiting"

(* The map has one entry per key, the subscription's own. *)
OneEntryPerKey == \A c, d \in subscribers : id[c] = id[d] => c = d

(* A client that was told of the shutdown gets nothing else, also when      *)
(* publishers are busy while the broker closes: behind a shutdown event     *)
(* there are only those of further calls of Close.                          *)
ShutdownIsLast ==
    \A c \in Conns : \A i \in DOMAIN chan[c] :
        chan[c][i] = Shutdown =>
            /\ closed
            /\ \A j \in DOMAIN chan[c] : i < j => chan[c][j] = Shutdown

(* What makes these inductive. *)
BrokerInv ==
    /\ BrokerTypeOK
    /\ NoSendOnClosed
    /\ OneEntryPerKey
    /\ ShutdownIsLast
    /\ \A c \in Conns : conn[c] = "none" <=> cleaner[c] = "none"

(* A client that goes away leaves nothing behind: ServeSSE returns, the     *)
(* cleanup goroutine ends and the map has no entry for it.                  *)
NothingLeftBehind ==
    \A c \in Conns :
        (conn[c] = "serving" /\ c \in reqEnded)
            ~> (conn[c] = "done" /\ cleaner[c] = "ended" /\ c \notin subscribers)

(* Closing the broker ends the connections it has in its map, so that the   *)
(* server's Shutdown need not wait for its timeout because of them.         *)
CloseEndsConnections == \A c \in Conns : c \in told ~> conn[c] = "done"

(* The comment at the send says when an event is lost, "drop if subscriber  *)
(* is too slow".  A subscriber with room in its channel loses events too,   *)
(* all of them, when another subscription of the same second gets its key,  *)
(* or ends and deletes it.  This does not hold.                             *)
OnlySlowMiss ==
    [][\A t \in Topics, c \in Conns :
          (/\ Publish(t) /\ Matches(c, t)
           /\ conn[c] = "serving" /\ ~SubEnded(c) /\ Len(chan[c]) < Capacity)
              => chan'[c] = Append(chan[c], t)]_vars
=============================================================================
