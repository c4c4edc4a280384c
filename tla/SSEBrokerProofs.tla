-------------------------- MODULE SSEBrokerProofs --------------------------
(***************************************************************************)
(* The event broker never sends on a closed channel, and sends nothing     *)
(* else after a shutdown event, for any set of connections and topics, any *)
(* channel capacity, any number of keys, which may collide, and any number *)
(* of calls of Close.                                                      *)
(***************************************************************************)
EXTENDS SSEBroker, TLAPS

(* A channel after Offer: it holds one event more at its end, or is full    *)
(* and unchanged.                                                           *)
LEMMA OfferKeeps ==
    ASSUME NEW q \in Seq(Events), NEW e \in Events, Len(q) <= Capacity
    PROVE  /\ Offer(q, e) \in Seq(Events)
           /\ Len(Offer(q, e)) <= Capacity
           /\ \A i \in DOMAIN Offer(q, e) :
                 \/ i \in DOMAIN q /\ Offer(q, e)[i] = q[i]
                 \/ i = Len(Offer(q, e)) /\ Offer(q, e)[i] = e
BY CapacityAssumption DEF Offer

(* A channel after a receive: the same events, one place further on. *)
LEMMA TailKeeps ==
    ASSUME NEW q \in Seq(Events), q # <<>>
    PROVE  /\ Tail(q) \in Seq(Events)
           /\ Len(Tail(q)) = Len(q) - 1
           /\ \A i \in DOMAIN Tail(q) : i + 1 \in DOMAIN q /\ Tail(q)[i] = q[i + 1]
OBVIOUS

(* An empty broker satisfies the invariant. *)
LEMMA BrokerInitInv == Init => BrokerInv
<1> SUFFICES ASSUME Init PROVE BrokerInv
  OBVIOUS
<1>1. \A c \in Conns : chan[c] = <<>> /\ Len(chan[c]) = 0 /\ DOMAIN chan[c] = {}
  <2>1. Len(<<>>) = 0 /\ DOMAIN <<>> = {}
    OBVIOUS
  <2>2. \A c \in Conns : chan[c] = <<>>
    BY DEF Init
  <2>3. QED
    BY <2>1, <2>2
<1>2. BrokerTypeOK
  <2>1. chan \in [Conns -> Seq(Events)] /\ \A c \in Conns : Len(chan[c]) <= Capacity
    BY <1>1, CapacityAssumption DEF Init
  <2>2. id \in [Conns -> Nat \X Nat]
    BY DEF Init
  <2>3. QED
    BY <2>1, <2>2 DEF Init, BrokerTypeOK
<1>3. ShutdownIsLast
  BY <1>1 DEF ShutdownIsLast
<1>4. NoSendOnClosed /\ OneEntryPerKey /\ \A c \in Conns : conn[c] = "none" <=> cleaner[c] = "none"
  BY DEF Init, NoSendOnClosed, OneEntryPerKey
<1>5. QED
  BY <1>2, <1>3, <1>4 DEF BrokerInv

(* The part of the invariant about the map: who is in it, under which key.  *)
MapInv ==
    /\ subscribers \in SUBSET Conns
    /\ conn \in [Conns -> {"none", "serving", "done"}]
    /\ id \in [Conns -> Nat \X Nat]
    /\ cleaner \in [Conns -> {"none", "waiting", "deleted", "ended"}]
    /\ NoSendOnClosed
    /\ OneEntryPerKey
    /\ \A c \in Conns : conn[c] = "none" <=> cleaner[c] = "none"

(* The rest: the counters and sets, and the channels. *)
ChanInv ==
    /\ closes \in Nat
    /\ chan \in [Conns -> Seq(Events)]
    /\ \A c \in Conns : Len(chan[c]) <= Capacity
    /\ reqEnded \in SUBSET Conns
    /\ cancelled \in SUBSET Conns
    /\ idCounter \in Nat
    /\ second \in Nat
    /\ told \in SUBSET Conns
    /\ ShutdownIsLast

(* The invariant is its two parts. *)
LEMMA InvParts == BrokerInv <=> MapInv /\ ChanInv
BY DEF BrokerInv, BrokerTypeOK, MapInv, ChanInv

(* Every step keeps the map right.  A new subscriber replaces the one with  *)
(* its key; a cleanup takes its own entry, or that of the one that replaced *)
(* it, out of the map before the channel is closed.                         *)
LEMMA StepKeepsMap ==
    ASSUME BrokerInv, [Next]_vars
    PROVE  MapInv'
<1> USE DEF MapInv, NoSendOnClosed, OneEntryPerKey
<1>0. MapInv /\ ChanInv
  BY InvParts
<1>1. ASSUME NEW c \in Conns, Subscribe(c) PROVE MapInv'
  <2>1. GenerateID \in Nat \X Nat
    BY <1>0, CapacityAssumption DEF GenerateID, ChanInv
  <2>2. QED
    BY <1>0, <1>1, <2>1 DEF Subscribe
<1>2. ASSUME NEW c \in Conns, CleanupDelete(c) PROVE MapInv'
  BY <1>0, <1>2 DEF CleanupDelete
<1>3. ASSUME NEW c \in Conns, CleanupClose(c) PROVE MapInv'
  BY <1>0, <1>3 DEF CleanupClose
<1>4. ASSUME NEW c \in Conns, ServeEvent(c) PROVE MapInv'
  BY <1>0, <1>4 DEF ServeEvent
<1>5. ASSUME NEW c \in Conns, ServeReturns(c) PROVE MapInv'
  BY <1>0, <1>5 DEF ServeReturns
<1>6. ASSUME NEW c \in Conns, RequestEnds(c) PROVE MapInv'
  BY <1>0, <1>6 DEF RequestEnds
<1>7. ASSUME NEW t \in Topics, Publish(t) PROVE MapInv'
  BY <1>0, <1>7 DEF Publish
<1>8. CASE Close
  BY <1>0, <1>8 DEF Close
<1>9. CASE Tick
  BY <1>0, <1>9 DEF Tick
<1>10. CASE UNCHANGED vars
  BY <1>0, <1>10 DEF vars
<1>11. QED
  BY <1>1, <1>2, <1>3, <1>4, <1>5, <1>6, <1>7, <1>8, <1>9, <1>10
  DEF Next, ConnStep, AllGone

(* Every step keeps the channels right: an open broker has sent no shutdown *)
(* event, Close sends one to the end of each channel, and afterwards there  *)
(* are only receives and further calls of Close.                            *)
LEMMA StepKeepsChannels ==
    ASSUME BrokerInv, [Next]_vars
    PROVE  ChanInv'
<1> USE DEF ChanInv, ShutdownIsLast, closed
<1>0. MapInv /\ ChanInv
  BY InvParts
<1>1. ASSUME NEW c \in Conns, Subscribe(c) PROVE ChanInv'
  BY <1>0, <1>1 DEF Subscribe
<1>2. ASSUME NEW c \in Conns, CleanupDelete(c) PROVE ChanInv'
  BY <1>0, <1>2 DEF CleanupDelete
<1>3. ASSUME NEW c \in Conns, CleanupClose(c) PROVE ChanInv'
  BY <1>0, <1>3 DEF CleanupClose
<1>4. ASSUME NEW c \in Conns, ServeEvent(c) PROVE ChanInv'
  <2>1. chan[c] \in Seq(Events) /\ chan[c] # <<>>
    BY <1>0, <1>4 DEF ServeEvent
  <2>2. chan' = [chan EXCEPT ![c] = Tail(chan[c])]
    BY <1>4 DEF ServeEvent
  <2>3. /\ Tail(chan[c]) \in Seq(Events)
        /\ Len(Tail(chan[c])) = Len(chan[c]) - 1
        /\ \A i \in DOMAIN Tail(chan[c]) :
              i + 1 \in DOMAIN chan[c] /\ Tail(chan[c])[i] = chan[c][i + 1]
    BY <2>1, TailKeeps
  <2>4. chan' \in [Conns -> Seq(Events)] /\ \A d \in Conns : Len(chan'[d]) <= Capacity
    BY <1>0, <2>1, <2>2, <2>3, CapacityAssumption
  <2>5. ShutdownIsLast'
    <3> SUFFICES ASSUME NEW d \in Conns, NEW i \in DOMAIN chan'[d], chan'[d][i] = Shutdown
                 PROVE  /\ closed
                        /\ \A j \in DOMAIN chan'[d] : i < j => chan'[d][j] = Shutdown
      BY <1>4 DEF ServeEvent
    <3>1. CASE d = c
      <4>1. chan'[d] = Tail(chan[c])
        BY <1>0, <2>2, <3>1
      <4>2. i + 1 \in DOMAIN chan[c] /\ chan[c][i + 1] = Shutdown
        BY <2>3, <4>1
      <4>3. closed /\ \A k \in DOMAIN chan[c] : i + 1 < k => chan[c][k] = Shutdown
        BY <1>0, <4>2
      <4>4. ASSUME NEW j \in DOMAIN chan'[d], i < j PROVE chan'[d][j] = Shutdown
        <5>1. i \in Nat /\ j \in Nat
          BY <2>3, <4>1
        <5>2. j + 1 \in DOMAIN chan[c] /\ chan'[d][j] = chan[c][j + 1] /\ i + 1 < j + 1
          BY <2>3, <4>1, <4>4, <5>1
        <5>3. QED
          BY <4>3, <5>2
      <4>5. QED
        BY <4>3, <4>4
    <3>2. CASE d # c
      BY <1>0, <2>2, <3>2
    <3>3. QED
      BY <3>1, <3>2
  <2>6. QED
    BY <1>0, <1>4, <2>4, <2>5 DEF ServeEvent
<1>5. ASSUME NEW c \in Conns, ServeReturns(c) PROVE ChanInv'
  BY <1>0, <1>5 DEF ServeReturns
<1>6. ASSUME NEW c \in Conns, RequestEnds(c) PROVE ChanInv'
  BY <1>0, <1>6 DEF RequestEnds
<1>7. ASSUME NEW t \in Topics, Publish(t) PROVE ChanInv'
  <2>1. ASSUME NEW d \in Conns
        PROVE  chan'[d] \in Seq(Events) /\ Len(chan'[d]) <= Capacity
               /\ \A i \in DOMAIN chan'[d] : chan'[d][i] # Shutdown
    <3>1. t \in Events /\ t # Shutdown
      BY ShutdownAssumption DEF Events
    <3>2. chan[d] \in Seq(Events) /\ Len(chan[d]) <= Capacity
          /\ \A i \in DOMAIN chan[d] : chan[d][i] # Shutdown
      BY <1>0, <1>7 DEF Publish
    <3>3. chan'[d] = chan[d] \/ chan'[d] = Offer(chan[d], t)
      BY <1>7 DEF Publish
    <3>4. QED
      BY <3>1, <3>2, <3>3, OfferKeeps
  <2>2. chan' \in [Conns -> Seq(Events)]
    BY <1>7, <2>1 DEF Publish
  <2>3. QED
    BY <1>0, <1>7, <2>1, <2>2 DEF Publish
<1>8. CASE Close
  <2>1. ASSUME NEW d \in Conns
        PROVE  /\ chan'[d] \in Seq(Events) /\ Len(chan'[d]) <= Capacity
               /\ \A i, j \in DOMAIN chan'[d] :
                     chan'[d][i] = Shutdown /\ i < j => chan'[d][j] = Shutdown
    <3>1. Shutdown \in Events
      BY DEF Events
    <3>2. /\ chan[d] \in Seq(Events) /\ Len(chan[d]) <= Capacity
          /\ \A i, j \in DOMAIN chan[d] :
                chan[d][i] = Shutdown /\ i < j => chan[d][j] = Shutdown
      BY <1>0
    <3>3. chan'[d] = chan[d] \/ chan'[d] = Offer(chan[d], Shutdown)
      BY <1>8 DEF Close
    <3>4. CASE chan'[d] = Offer(chan[d], Shutdown)
      <4> DEFINE q == Offer(chan[d], Shutdown)
      <4>1. /\ q \in Seq(Events) /\ Len(q) <= Capacity
            /\ \A i \in DOMAIN q : \/ i \in DOMAIN chan[d] /\ q[i] = chan[d][i]
                                   \/ i = Len(q) /\ q[i] = Shutdown
        BY <3>1, <3>2, OfferKeeps
      <4>2. ASSUME NEW i \in DOMAIN q, NEW j \in DOMAIN q, q[i] = Shutdown, i < j
            PROVE  q[j] = Shutdown
        <5>1. i \in 1 .. Len(q) /\ j \in 1 .. Len(q) /\ Len(q) \in Nat
          BY <4>1
        <5>2. i # Len(q)
          BY <4>2, <5>1
        <5>3. i \in DOMAIN chan[d] /\ q[i] = chan[d][i]
          BY <4>1, <5>2
        <5>4. QED
          BY <3>2, <4>1, <4>2, <5>3
      <4>3. QED
        BY <3>4, <4>1, <4>2
    <3>5. QED
      BY <3>2, <3>3, <3>4
  <2>2. chan' \in [Conns -> Seq(Events)]
    BY <1>8, <2>1 DEF Close
  <2>3. cancelled' \in SUBSET Conns /\ told' \in SUBSET Conns
    BY <1>0, <1>8 DEF Close, MapInv
  <2>4. closes' \in Nat /\ closed'
    BY <1>0, <1>8 DEF Close
  <2>5. ShutdownIsLast'
    BY <2>1, <2>4
  <2>6. QED
    BY <1>0, <1>8, <2>1, <2>2, <2>3, <2>4, <2>5 DEF Close
<1>9. CASE Tick
  BY <1>0, <1>9 DEF Tick
<1>10. CASE UNCHANGED vars
  BY <1>0, <1>10 DEF vars
<1>11. QED
  BY <1>1, <1>2, <1>3, <1>4, <1>5, <1>6, <1>7, <1>8, <1>9, <1>10
  DEF Next, ConnStep, AllGone

(* The invariant holds in every state of the broker. *)
THEOREM BrokerInvariant == Spec => []BrokerInv
<1>1. Init => BrokerInv
  BY BrokerInitInv
<1>2. BrokerInv /\ [Next]_vars => BrokerInv'
  <2> SUFFICES ASSUME BrokerInv, [Next]_vars PROVE BrokerInv'
    OBVIOUS
  <2>1. MapInv' /\ ChanInv'
    BY StepKeepsMap, StepKeepsChannels
  <2>2. QED
    BY <2>1 DEF BrokerInv, BrokerTypeOK, MapInv, ChanInv
<1>3. QED
  BY <1>1, <1>2, PTL DEF Spec

(* Publish and Close never send on a closed channel: whoever is in the map  *)
(* has its cleanup, which closes the channel, still ahead.                  *)
THEOREM BrokerNoSendOnClosed == Spec => []NoSendOnClosed
<1>1. BrokerInv => NoSendOnClosed
  BY DEF BrokerInv
<1>2. QED
  BY <1>1, BrokerInvariant, PTL

(* Nothing but a further shutdown event follows a shutdown event in a       *)
(* client's channel, however often Close is called.                         *)
THEOREM BrokerShutdownIsLast == Spec => []ShutdownIsLast
<1>1. BrokerInv => ShutdownIsLast
  BY DEF BrokerInv
<1>2. QED
  BY <1>1, BrokerInvariant, PTL
=============================================================================
