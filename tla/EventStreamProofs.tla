------------------------- MODULE EventStreamProofs -------------------------
(***************************************************************************)
(* Proofs about the stream of Docker events: its inductive invariant       *)
(* StreamInv, and the order and the completeness of what is published.     *)
(***************************************************************************)
EXTENDS EventStream, TLAPS

(* What a concatenation is made of.                                        *)
LEMMA PartsOfConcat ==
    ASSUME NEW S, NEW s \in Seq(S), NEW t \in Seq(S)
    PROVE  /\ s \o t \in Seq(S) /\ Len(s \o t) = Len(s) + Len(t)
           /\ \A i \in 1..Len(s) : (s \o t)[i] = s[i]
           /\ \A i \in (Len(s) + 1)..(Len(s) + Len(t)) : (s \o t)[i] = t[i - Len(s)]
  OBVIOUS

(* What Append and Tail do to each place.                                  *)
LEMMA PartsOfAppend ==
    ASSUME NEW S, NEW s \in Seq(S), NEW x \in S
    PROVE  /\ Append(s, x) \in Seq(S) /\ Len(Append(s, x)) = Len(s) + 1
           /\ \A i \in 1..Len(s) : Append(s, x)[i] = s[i]
           /\ Append(s, x)[Len(s) + 1] = x
  OBVIOUS

LEMMA PartsOfTail ==
    ASSUME NEW S, NEW s \in Seq(S), s # <<>>
    PROVE  /\ Tail(s) \in Seq(S) /\ Len(s) \in Nat \ {0} /\ Len(Tail(s)) = Len(s) - 1
           /\ \A i \in 1..(Len(s) - 1) : Tail(s)[i] = s[i + 1]
           /\ Head(s) = s[1] /\ Head(s) \in S
  OBVIOUS

LEMMA WiderSeq ==
    ASSUME NEW S, NEW T, S \subseteq T, NEW s \in Seq(S)
    PROVE  s \in Seq(T)
<1>1. Len(s) \in Nat /\ DOMAIN s = 1..Len(s) /\ \A i \in 1..Len(s) : s[i] \in T
  OBVIOUS
<1>2. s = [i \in 1..Len(s) |-> s[i]]
  OBVIOUS
<1> QED BY <1>1, <1>2

(* The messages that PublishDockerEvent makes of one event: one to three,  *)
(* all of this event and this connection, no two of one kind, and the one  *)
(* to the global topic last.                                               *)
LEMMA MessagesOfAnEvent ==
    ASSUME NEW e \in Events, conn \in Conns
    PROVE  LET B == PublishDockerEvent(e) IN
           /\ B \in Seq(Messages)
           /\ Len(B) \in 1..3
           /\ \A i \in 1..Len(B) : B[i].event = e /\ B[i].conn = conn
           /\ \A i \in 1..Len(B) : Global(B[i]) <=> i = Len(B)
           /\ \A i, j \in 1..Len(B) : SameKind(B[i], B[j]) => i = j
<1> DEFINE g == [event |-> e, topic |-> "global", type |-> "docker_event", conn |-> conn]
           d == [event |-> e, topic |-> "project", type |-> "docker_event", conn |-> conn]
           c == [event |-> e, topic |-> "project", type |-> "container_state", conn |-> conn]
<1>1. g \in Messages /\ d \in Messages /\ c \in Messages
  BY DEF Messages
<1>2. /\ g.event = e /\ d.event = e /\ c.event = e
      /\ g.conn = conn /\ d.conn = conn /\ c.conn = conn
      /\ Global(g) /\ ~Global(d) /\ ~Global(c)
      /\ ~SameKind(g, d) /\ ~SameKind(d, g) /\ ~SameKind(g, c) /\ ~SameKind(c, g)
      /\ ~SameKind(c, d) /\ ~SameKind(d, c)
  BY DEF Global, SameKind
<1>3. CASE e \notin Labelled
  <2>1. PublishDockerEvent(e) = <<g>>
    BY <1>1, <1>3 DEF PublishDockerEvent
  <2> QED BY <1>1, <1>2, <2>1
<1>4. CASE e \in Labelled /\ e \notin OfContainer
  <2>1. PublishDockerEvent(e) = (<<d>> \o <<>>) \o <<g>>
    BY <1>4 DEF PublishDockerEvent
  <2> HIDE DEF d, g
  <2>2. LET B == PublishDockerEvent(e) IN
        B \in Seq(Messages) /\ Len(B) = 2 /\ B[1] = d /\ B[2] = g
    <3>1. <<d>> \in Seq(Messages) /\ <<g>> \in Seq(Messages)
      BY <1>1
    <3> DEFINE s == <<d>> \o <<>>
               t == <<g>>
    <3>2. s \in Seq(Messages) /\ Len(s) = 1 /\ s[1] = d
      BY <3>1
    <3>3. t \in Seq(Messages) /\ Len(t) = 1 /\ t[1] = g
      BY <3>1
    <3>4. PublishDockerEvent(e) = s \o t
      BY <2>1
    <3> HIDE DEF s, t
    <3>5. /\ s \o t \in Seq(Messages) /\ Len(s \o t) = Len(s) + Len(t)
          /\ \A i \in 1..Len(s) : (s \o t)[i] = s[i]
          /\ \A i \in (Len(s) + 1)..(Len(s) + Len(t)) : (s \o t)[i] = t[i - Len(s)]
      BY <3>2, <3>3, PartsOfConcat
    <3> QED BY <3>2, <3>3, <3>4, <3>5
  <2> QED BY <1>1, <1>2, <2>2
<1>5. CASE e \in Labelled /\ e \in OfContainer
  <2>1. PublishDockerEvent(e) = (<<d>> \o <<c>>) \o <<g>>
    BY <1>5 DEF PublishDockerEvent
  <2> HIDE DEF d, c, g
  <2>2. LET B == PublishDockerEvent(e) IN
        B \in Seq(Messages) /\ Len(B) = 3 /\ B[1] = d /\ B[2] = c /\ B[3] = g
    <3>1. <<d>> \in Seq(Messages) /\ <<c>> \in Seq(Messages) /\ <<g>> \in Seq(Messages)
      BY <1>1
    <3> DEFINE s == <<d>> \o <<c>>
               t == <<g>>
    <3>2. s \in Seq(Messages) /\ Len(s) = 2 /\ s[1] = d /\ s[2] = c
      BY <3>1
    <3>3. t \in Seq(Messages) /\ Len(t) = 1 /\ t[1] = g
      BY <3>1
    <3>4. PublishDockerEvent(e) = s \o t
      BY <2>1
    <3> HIDE DEF s, t
    <3>5. /\ s \o t \in Seq(Messages) /\ Len(s \o t) = Len(s) + Len(t)
          /\ \A i \in 1..Len(s) : (s \o t)[i] = s[i]
          /\ \A i \in (Len(s) + 1)..(Len(s) + Len(t)) : (s \o t)[i] = t[i - Len(s)]
      BY <3>2, <3>3, PartsOfConcat
    <3> QED BY <3>2, <3>3, <3>4, <3>5
  <2> QED BY <1>1, <1>2, <2>2
<1> QED BY <1>3, <1>4, <1>5

(* The types of what the goroutines keep, without the channels.            *)
FlowTypeOK ==
    /\ emitted \in 0..MaxEvents /\ conn \in 0..MaxConns
    /\ sdk \in [Conns -> {"none", "open", "failed"}]
    /\ fwd \in [Conns -> {"none", "reading", "sending", "closing", "ended"}]
    /\ hand \in [Conns -> 0..MaxEvents]
    /\ outErrCh \in [Conns -> BOOLEAN]
    /\ DOMAIN wire = Conns /\ DOMAIN outCh = Conns

(* Every step keeps the types: a channel is only written while it has a    *)
(* place, and a forwarder only sends what it has taken.                    *)
LEMMA StreamTypeStep ==
    ASSUME StreamTypeOK, InStep, [Next]_vars
    PROVE  StreamTypeOK'
<1> USE StreamAssumption DEF StreamTypeOK
<1>1. CASE Emit
  <2>1. emitted' \in Events /\ emitted' \in 0..MaxEvents
    BY <1>1 DEF Emit, Events
  <2>2. wire' \in [Conns -> Seq(Events)]
    BY <1>1, <2>1 DEF Emit
  <2> QED BY <1>1, <2>1, <2>2 DEF Emit, forwarder
<1>2. CASE CtxEnds
  BY <1>2 DEF CtxEnds, forwarder, daemon
<1>3. CASE Connect
  <2>1. conn' \in Conns /\ conn' \in 0..MaxConns
    BY <1>3 DEF Connect, Conns
  <2>2. PICK s \in {"open", "failed"} : sdk' = [sdk EXCEPT ![conn'] = s]
    BY <1>3 DEF Connect
  <2>3. sdk' \in [Conns -> {"none", "open", "failed"}]
    BY <2>1, <2>2
  <2>4. fwd' \in [Conns -> {"none", "reading", "sending", "closing", "ended"}]
    BY <1>3, <2>1 DEF Connect
  <2> QED BY <1>3, <2>1, <2>3, <2>4 DEF Connect
<1>4. CASE StreamerReturns \/ StreamerError \/ StreamerClosed \/ StreamerWakes
  BY <1>4 DEF StreamerReturns, StreamerError, StreamerClosed, StreamerWakes, forwarder, daemon
<1>5. CASE StreamerReceives
  <2>1. conn \in Conns
    BY <1>5 DEF StreamerReceives, InStep, Conns
  <2>2. Head(outCh[conn]) \in Events /\ Tail(outCh[conn]) \in Seq(Events)
        /\ Len(Tail(outCh[conn])) <= Cap
    BY <1>5, <2>1 DEF StreamerReceives
  <2>3. published' \in Seq(Messages)
    <3>1. PublishDockerEvent(Head(outCh[conn])) \in Seq(Messages)
      BY <2>1, <2>2, MessagesOfAnEvent
    <3> HIDE DEF StreamTypeOK
    <3>2. published \in Seq(Messages)
      BY DEF StreamTypeOK
    <3>3. published \o PublishDockerEvent(Head(outCh[conn])) \in Seq(Messages)
      BY <3>1, <3>2
    <3> QED BY <1>5, <3>3 DEF StreamerReceives
  <2> QED BY <1>5, <2>1, <2>2, <2>3 DEF StreamerReceives, forwarder, daemon
<1>6. ASSUME NEW k \in Conns, SdkFails(k) \/ ForwardError(k) \/ ForwardCloses(k)
      PROVE  StreamTypeOK'
  <2>1. CASE SdkFails(k)
    <3>1. sdk' \in [Conns -> {"none", "open", "failed"}] /\ wire' \in [Conns -> Seq(Events)]
      BY <2>1 DEF SdkFails
    <3> QED BY <2>1, <3>1 DEF SdkFails, forwarder
  <2>2. CASE ForwardError(k)
    BY <2>2 DEF ForwardError, daemon
  <2>3. CASE ForwardCloses(k)
    BY <2>3 DEF ForwardCloses, daemon
  <2> QED BY <1>6, <2>1, <2>2, <2>3
<1>7. ASSUME NEW k \in Conns, ForwardTakes(k)
      PROVE  StreamTypeOK'
  <2>1. Head(wire[k]) \in Events /\ Tail(wire[k]) \in Seq(Events)
    BY <1>7 DEF ForwardTakes
  <2>2. wire' \in [Conns -> Seq(Events)]
    BY <1>7, <2>1 DEF ForwardTakes
  <2>3. hand' \in [Conns -> 0..MaxEvents]
    BY <1>7, <2>1 DEF ForwardTakes, Events
  <2> QED BY <1>7, <2>2, <2>3 DEF ForwardTakes
<1>8. ASSUME NEW k \in Conns, ForwardSends(k)
      PROVE  StreamTypeOK'
  <2>1. hand[k] \in Events
    BY <1>8 DEF ForwardSends, InStep
  <2>2. /\ Append(outCh[k], hand[k]) \in Seq(Events)
        /\ Len(Append(outCh[k], hand[k])) <= Cap
    BY <1>8, <2>1 DEF ForwardSends
  <2>3. outCh' \in [Conns -> Seq(Events)] /\ \A j \in Conns : Len(outCh'[j]) <= Cap
    BY <1>8, <2>2 DEF ForwardSends
  <2>4. hand' \in [Conns -> 0..MaxEvents]
    BY <1>8 DEF ForwardSends
  <2> QED BY <1>8, <2>3, <2>4 DEF ForwardSends, daemon
<1>9. CASE UNCHANGED vars
  BY <1>9 DEF vars
<1> QED BY <1>1, <1>2, <1>3, <1>4, <1>5, <1>6, <1>7, <1>8, <1>9
        DEF Next, StreamerStep, ForwardStep, Over

(* What NoForwarderBehind and InStep say of one connection.                *)
InStepAt(k) ==
    /\ k < conn => fwd[k] \in {"closing", "ended"}
    /\ outErrCh[k] => fwd[k] \in {"closing", "ended"}
    /\ fwd[k] = "sending" => hand[k] \in Events
    /\ k > conn => /\ sdk[k] = "none" /\ fwd[k] = "none"
                   /\ wire[k] = <<>> /\ outCh[k] = <<>>

(* Every step keeps the streamer and the forwarders in step.               *)
LEMMA InStepStep ==
    ASSUME StreamTypeOK, NoForwarderBehind, InStep, [Next]_vars
    PROVE  NoForwarderBehind' /\ InStep'
<1>1. FlowTypeOK
  BY DEF FlowTypeOK, StreamTypeOK
<1>2. \A j \in Conns : InStepAt(j)
  BY DEF NoForwarderBehind, InStep, InStepAt
<1>3. /\ streamer = "select" => conn > 0
      /\ streamer \in {"connect", "sleep"} /\ conn > 0 => fwd[conn] \in {"closing", "ended"}
  BY DEF InStep
<1>4. \A k \in Conns : wire[k] \in Seq(Events)
  BY DEF StreamTypeOK
<1>14. conn > 0 => conn \in Conns
  BY <1>1 DEF FlowTypeOK, Conns
<1> DEFINE Goal == /\ \A j \in Conns : InStepAt(j)'
                   /\ streamer' = "select" => conn' > 0
                   /\ streamer' \in {"connect", "sleep"} /\ conn' > 0
                         => fwd'[conn'] \in {"closing", "ended"}
<1> SUFFICES Goal
  BY DEF NoForwarderBehind, InStep, InStepAt, Conns, Events
<1> USE StreamAssumption DEF FlowTypeOK, InStepAt
<1>5. CASE Emit
  BY <1>1, <1>2, <1>3, <1>5 DEF Emit, forwarder
<1>6. CASE CtxEnds
  BY <1>1, <1>2, <1>3, <1>6 DEF CtxEnds, forwarder, daemon
<1>7. CASE Connect
  BY <1>1, <1>2, <1>3, <1>7 DEF Connect, Conns
<1>8. CASE StreamerReturns \/ StreamerError \/ StreamerClosed \/ StreamerWakes
  BY <1>1, <1>2, <1>3, <1>8 DEF StreamerReturns, StreamerError, StreamerClosed, StreamerWakes,
                                forwarder, daemon, Conns
<1>9. CASE StreamerReceives
  BY <1>1, <1>2, <1>3, <1>9 DEF StreamerReceives, forwarder, daemon
<1>10. ASSUME NEW k \in Conns, SdkFails(k) \/ ForwardError(k) \/ ForwardCloses(k)
       PROVE  Goal
  <2>1. CASE SdkFails(k)
    BY <1>1, <1>2, <1>3, <2>1 DEF SdkFails, forwarder
  <2>2. CASE ForwardError(k)
    BY <1>1, <1>2, <1>3, <2>2, <1>14 DEF ForwardError, daemon
  <2>3. CASE ForwardCloses(k)
    BY <1>1, <1>2, <1>3, <2>3, <1>14 DEF ForwardCloses, daemon
  <2> QED BY <1>10, <2>1, <2>2, <2>3
<1>11. ASSUME NEW k \in Conns, ForwardTakes(k)
       PROVE  Goal
  <2>1. Head(wire[k]) \in Events
    BY <1>4, <1>11 DEF ForwardTakes
  <2> QED BY <1>1, <1>2, <1>3, <1>11, <2>1, <1>14 DEF ForwardTakes
<1>12. ASSUME NEW k \in Conns, ForwardSends(k)
       PROVE  Goal
  BY <1>1, <1>2, <1>3, <1>12, <1>14 DEF ForwardSends, daemon
<1>13. CASE UNCHANGED vars
  BY <1>1, <1>2, <1>3, <1>13 DEF vars
<1> QED BY <1>5, <1>6, <1>7, <1>8, <1>9, <1>10, <1>11, <1>12, <1>13
        DEF Next, StreamerStep, ForwardStep, Over

(* Pending only depends on the current connection.                         *)
LEMMA PendingElsewhere ==
    ASSUME NEW a, Pending(a), UNCHANGED <<conn, emitted, published>>,
           /\ outCh'[conn] = outCh[conn] /\ wire'[conn] = wire[conn]
           /\ fwd'[conn] = fwd[conn] /\ hand'[conn] = hand[conn] /\ sdk'[conn] = sdk[conn]
    PROVE  Pending(a)'
  BY DEF Pending, Ahead, InHand

(* How Pending is shown for the next state.                                *)
LEMMA PendingNext ==
    ASSUME NEW a \in Nat, NEW o \in Seq(Nat), NEW w \in Seq(Nat), NEW n \in Nat,
           UNCHANGED <<conn, published>>, outCh'[conn] = o, wire'[conn] = w,
           n = Len(o) + (IF fwd'[conn] = "sending" THEN 1 ELSE 0),
           \A i \in 1..Len(o) : o[i] = a + i,
           fwd'[conn] = "sending" => hand'[conn] = a + Len(o) + 1,
           \A i \in 1..Len(w) : w[i] = a + n + i,
           a + n + Len(w) <= emitted',
           sdk'[conn] = "open" => a + n + Len(w) = emitted',
           \A i \in DOMAIN published : published[i].event <= a
    PROVE  Pending(a)'
<1>1. Ahead' = n
  BY DEF Ahead, InHand
<1>2. DOMAIN o = 1..Len(o) /\ DOMAIN w = 1..Len(w)
  OBVIOUS
<1> QED BY <1>1, <1>2 DEF Pending

(* The daemon and the forwarder pass the pending events on in their order. *)
LEMMA PendingStep ==
    ASSUME StreamTypeOK, conn \in Conns, NEW a \in 0..MaxEvents, Pending(a),
           \/ Emit
           \/ \E k \in Conns : SdkFails(k) \/ ForwardStep(k)
    PROVE  Pending(a)'
<1> DEFINE o == outCh[conn]
           w == wire[conn]
           f == fwd[conn]
           n == Len(o) + (IF f = "sending" THEN 1 ELSE 0)
<1>1. /\ DOMAIN outCh = Conns /\ DOMAIN wire = Conns /\ DOMAIN fwd = Conns
      /\ DOMAIN hand = Conns /\ DOMAIN sdk = Conns
  BY DEF StreamTypeOK
<1>2. o \in Seq(Nat) /\ w \in Seq(Nat)
  <2>1. Events \subseteq Nat
    BY StreamAssumption DEF Events
  <2>2. outCh[conn] \in Seq(Events) /\ wire[conn] \in Seq(Events)
    BY DEF StreamTypeOK
  <2> QED BY <2>1, <2>2, WiderSeq
<1>3. Len(o) \in Nat /\ Len(w) \in Nat /\ DOMAIN o = 1..Len(o) /\ DOMAIN w = 1..Len(w)
  BY <1>2
<1>4. emitted \in Nat /\ a \in Nat /\ n \in Nat
  BY <1>3, StreamAssumption DEF StreamTypeOK
<1>5. \A i \in 1..Len(o) : o[i] = a + i
  BY <1>3 DEF Pending
<1>6. f = "sending" => hand[conn] = a + Len(o) + 1
  BY DEF Pending
<1>7. \A i \in 1..Len(w) : w[i] = a + n + i
  BY <1>3 DEF Pending, Ahead, InHand
<1>8. a + n + Len(w) <= emitted
  BY DEF Pending, Ahead, InHand
<1>9. sdk[conn] = "open" => a + n + Len(w) = emitted
  BY DEF Pending, Ahead, InHand
<1>10. \A i \in DOMAIN published : published[i].event <= a
  BY DEF Pending
<1>11. n = Len(o) + (IF f = "sending" THEN 1 ELSE 0)
  OBVIOUS
<1>12. outCh[conn] = o /\ wire[conn] = w /\ fwd[conn] = f
  OBVIOUS
<1> HIDE DEF o, w, f, n
<1>13. CASE Emit
  <2>1. /\ UNCHANGED <<outCh, fwd, hand, sdk, conn, published>>
        /\ emitted' = emitted + 1
    BY <1>13 DEF Emit, forwarder
  <2>2. CASE sdk[conn] = "open"
    <3> DEFINE v == Append(w, emitted + 1)
    <3>1. wire'[conn] = v
      BY <1>1, <1>12, <1>13, <2>1, <2>2 DEF Emit
    <3>2. /\ v \in Seq(Nat) /\ Len(v) = Len(w) + 1 /\ v[Len(w) + 1] = emitted + 1
          /\ \A i \in 1..Len(w) : v[i] = w[i]
      BY <1>2, <1>4, PartsOfAppend
    <3> HIDE DEF v
    <3>3. \A i \in 1..Len(v) : v[i] = a + n + i
      BY <1>3, <1>4, <1>7, <1>9, <2>2, <3>2
    <3>4. a + n + Len(v) = emitted + 1
      BY <1>3, <1>4, <1>9, <2>2, <3>2
    <3>5. a + n + Len(v) <= emitted'
      BY <1>4, <2>1, <3>4
    <3> QED
      BY <1>2, <1>4, <1>5, <1>6, <1>10, <1>11, <1>12, <2>1, <3>1, <3>2, <3>3, <3>4, <3>5,
         PendingNext
  <2>3. CASE sdk[conn] # "open"
    <3>1. wire'[conn] = w
      BY <1>12, <1>13, <2>3, <2>1 DEF Emit
    <3>2. a + n + Len(w) <= emitted'
      BY <1>3, <1>4, <1>8, <2>1
    <3> QED
      BY <1>2, <1>4, <1>5, <1>6, <1>7, <1>10, <1>11, <1>12, <2>1, <2>3, <3>1, <3>2, PendingNext
  <2> QED BY <2>2, <2>3
<1>14. ASSUME NEW k \in Conns, SdkFails(k)
      PROVE  Pending(a)'
  <2>1. CASE k # conn
    BY <1>1, <1>14, <2>1, PendingElsewhere DEF SdkFails, forwarder
  <2>2. CASE k = conn
    <3> DEFINE v == <<>>
    <3>1. /\ wire'[conn] = v /\ sdk'[conn] = "failed"
          /\ UNCHANGED <<outCh, fwd, hand, conn, published, emitted>>
      BY <1>1, <1>14, <2>2 DEF SdkFails, forwarder
    <3>2. v \in Seq(Nat) /\ Len(v) = 0
      OBVIOUS
    <3> HIDE DEF v
    <3>3. a + n + Len(v) <= emitted /\ \A i \in 1..Len(v) : v[i] = a + n + i
      BY <1>3, <1>4, <1>8, <3>2
    <3> QED
      BY <1>2, <1>4, <1>5, <1>6, <1>10, <1>11, <1>12, <3>1, <3>2, <3>3, PendingNext
  <2> QED BY <2>1, <2>2
<1>15. ASSUME NEW k \in Conns, ForwardTakes(k)
      PROVE  Pending(a)'
  <2>1. CASE k # conn
    BY <1>1, <1>15, <2>1, PendingElsewhere DEF ForwardTakes
  <2>2. CASE k = conn
    <3> DEFINE v == Tail(w)
               m == Len(o) + 1
    <3>1. /\ wire'[conn] = v /\ hand'[conn] = Head(w) /\ w # <<>>
          /\ f = "reading" /\ fwd'[conn] = "sending"
          /\ UNCHANGED <<outCh, sdk, conn, published, emitted>>
      BY <1>1, <1>12, <1>15, <2>2 DEF ForwardTakes
    <3>2. n = Len(o)
      BY <1>3, <1>11, <3>1
    <3>3. /\ v \in Seq(Nat) /\ Len(w) \in Nat \ {0} /\ Len(v) = Len(w) - 1
          /\ \A i \in 1..(Len(w) - 1) : v[i] = w[i + 1]
          /\ Head(w) = w[1]
      BY <1>2, <3>1, PartsOfTail
    <3> HIDE DEF v
    <3>4. Head(w) = a + Len(o) + 1
      BY <1>4, <1>7, <3>2, <3>3
    <3>5. \A i \in 1..Len(v) : v[i] = a + m + i
      BY <1>4, <1>7, <3>2, <3>3
    <3>6. a + m + Len(v) = a + n + Len(w) /\ m \in Nat
      BY <1>3, <1>4, <3>2, <3>3
    <3>7. m = Len(o) + (IF fwd'[conn] = "sending" THEN 1 ELSE 0)
      BY <3>1
    <3>8. a + m + Len(v) <= emitted' /\ (sdk'[conn] = "open" => a + m + Len(v) = emitted')
      BY <1>8, <1>9, <3>1, <3>6
    <3>9. /\ UNCHANGED <<conn, published>> /\ outCh'[conn] = o /\ wire'[conn] = v
          /\ hand'[conn] = a + Len(o) + 1
      BY <1>12, <3>1, <3>4
    <3> HIDE DEF m
    <3> QED
      BY <1>2, <1>4, <1>5, <1>10, <3>3, <3>5, <3>6, <3>7, <3>8, <3>9, PendingNext
  <2> QED BY <2>1, <2>2
<1>16. ASSUME NEW k \in Conns, ForwardSends(k)
      PROVE  Pending(a)'
  <2>1. CASE k # conn
    BY <1>1, <1>16, <2>1, PendingElsewhere DEF ForwardSends, daemon
  <2>2. CASE k = conn
    <3> DEFINE u == Append(o, hand[conn])
    <3>1. /\ outCh'[conn] = u /\ f = "sending" /\ fwd'[conn] = "reading"
          /\ UNCHANGED <<wire, sdk, conn, published, emitted>>
      BY <1>1, <1>12, <1>16, <2>2 DEF ForwardSends, daemon
    <3>2. n = Len(o) + 1 /\ hand[conn] = a + Len(o) + 1 /\ hand[conn] \in Nat
      BY <1>3, <1>4, <1>6, <1>11, <3>1
    <3>3. /\ u \in Seq(Nat) /\ Len(u) = Len(o) + 1 /\ u[Len(o) + 1] = hand[conn]
          /\ \A i \in 1..Len(o) : u[i] = o[i]
      BY <1>2, <3>2, PartsOfAppend
    <3> HIDE DEF u
    <3>4. ASSUME NEW i \in 1..Len(u)
          PROVE  u[i] = a + i
      <4>1. CASE i \in 1..Len(o)
        BY <1>5, <3>3, <4>1
      <4>2. CASE i = Len(o) + 1
        BY <1>3, <1>4, <3>2, <3>3, <4>2
      <4> QED BY <1>3, <3>3, <4>1, <4>2
    <3>5. n = Len(u) + (IF fwd'[conn] = "sending" THEN 1 ELSE 0)
      BY <1>3, <3>1, <3>2, <3>3
    <3>6. wire'[conn] = w /\ fwd'[conn] # "sending"
      BY <1>12, <3>1
    <3>7. a + n + Len(w) <= emitted' /\ (sdk'[conn] = "open" => a + n + Len(w) = emitted')
      BY <1>8, <1>9, <3>1
    <3>8. /\ UNCHANGED <<conn, published>> /\ outCh'[conn] = u
          /\ fwd'[conn] = "sending" => hand'[conn] = a + Len(u) + 1
      BY <3>1
    <3> QED
      BY <1>2, <1>4, <1>7, <1>10, <3>3, <3>4, <3>5, <3>6, <3>7, <3>8, PendingNext
  <2> QED BY <2>1, <2>2
<1>17. ASSUME NEW k \in Conns, ForwardError(k) \/ ForwardCloses(k)
      PROVE  Pending(a)'
  <2>1. CASE k # conn
    BY <1>1, <1>17, <2>1, PendingElsewhere DEF ForwardError, ForwardCloses, daemon
  <2>2. CASE k = conn
    <3>1. /\ f # "sending" /\ fwd'[conn] # "sending"
          /\ UNCHANGED <<outCh, wire, sdk, conn, published, emitted, hand>>
      BY <1>1, <1>12, <1>17, <2>2 DEF ForwardError, ForwardCloses, daemon
    <3>2. wire'[conn] = w /\ outCh'[conn] = o
      BY <1>12, <3>1
    <3>3. a + n + Len(w) <= emitted' /\ (sdk'[conn] = "open" => a + n + Len(w) = emitted')
      BY <1>8, <1>9, <3>1
    <3>4. n = Len(o) + (IF fwd'[conn] = "sending" THEN 1 ELSE 0)
      BY <1>11, <3>1
    <3>5. UNCHANGED <<conn, published>> /\ (fwd'[conn] = "sending" => hand'[conn] = a + Len(o) + 1)
      BY <3>1
    <3> QED
      BY <1>2, <1>4, <1>5, <1>7, <1>10, <3>2, <3>3, <3>4, <3>5, PendingNext
  <2> QED BY <2>1, <2>2
<1> QED BY <1>13, <1>14, <1>15, <1>16, <1>17 DEF ForwardStep

(* Publishing the next event keeps the order, and leaves no gap.           *)
LEMMA ReceivesInOrder ==
    ASSUME StreamInv, StreamerReceives
    PROVE  PublishedInOrder'
<1> DEFINE o == outCh[conn]
           B == PublishDockerEvent(Head(o))
           L == Len(published)
           M == L + Len(B)
           q == published'
           lo == Len(o)
           lw == Len(wire[conn])
<1>1. conn \in Conns /\ conn > 0 /\ conn \in Nat
  BY StreamAssumption DEF StreamInv, InStep, StreamerReceives, StreamTypeOK, Conns
<1>2. PICK a \in 0..MaxEvents :
          /\ Pending(a)
          /\ published # <<>> /\ LastOne.conn = conn => LastOne.event = a
  BY <1>1 DEF StreamInv, PublishedInOrder
<1>3. /\ o \in Seq(Events) /\ o # <<>> /\ wire[conn] \in Seq(Events)
      /\ emitted \in 0..MaxEvents /\ published \in Seq(Messages)
      /\ DOMAIN outCh = Conns
  BY <1>1 DEF StreamInv, StreamTypeOK, StreamerReceives
<1>4. /\ outCh'[conn] = Tail(o) /\ published' = published \o B
      /\ UNCHANGED <<emitted, wire, sdk, conn, fwd, hand>>
  BY <1>1, <1>3 DEF StreamerReceives, daemon, forwarder
<1>5. /\ Tail(o) \in Seq(Events) /\ Len(o) \in Nat \ {0} /\ Len(Tail(o)) = Len(o) - 1
      /\ \A i \in 1..(Len(o) - 1) : Tail(o)[i] = o[i + 1]
      /\ Head(o) = o[1] /\ Head(o) \in Events
  BY <1>3, PartsOfTail
<1>6. /\ B \in Seq(Messages) /\ Len(B) \in 1..3
      /\ \A i \in 1..Len(B) : B[i].event = Head(o) /\ B[i].conn = conn
      /\ \A i \in 1..Len(B) : Global(B[i]) <=> i = Len(B)
      /\ \A i, j \in 1..Len(B) : SameKind(B[i], B[j]) => i = j
  BY <1>1, <1>5, MessagesOfAnEvent
<1> HIDE DEF B
<1>7. a \in Nat /\ emitted \in Nat /\ MaxEvents \in Nat /\ L \in Nat /\ M \in Nat /\ L < M
  BY <1>2, <1>3, <1>6, StreamAssumption
<1>8. /\ Head(o) = a + 1
      /\ a + Ahead + lw <= emitted
      /\ Ahead \in Nat /\ Ahead > 0 /\ lw \in Nat /\ lo \in Nat /\ Len(Tail(o)) = lo - 1
  <2>1. DOMAIN o = 1..Len(o)
    BY <1>3
  <2>2. 1 \in DOMAIN o
    BY <1>5, <2>1
  <2>3. o[1] = a + 1
    BY <1>2, <2>2 DEF Pending
  <2>4. lo \in Nat /\ lo > 0 /\ lw \in Nat /\ Len(Tail(o)) = lo - 1
    BY <1>3, <1>5
  <2>5. Ahead = lo + InHand
    BY DEF Ahead
  <2>6. InHand \in {0, 1}
    BY DEF InHand
  <2>7. a + Ahead + lw <= emitted
    BY <1>2 DEF Pending
  <2> HIDE DEF lo, lw
  <2>8. Ahead \in Nat /\ Ahead > 0
    BY <2>4, <2>5, <2>6
  <2> QED BY <1>5, <2>3, <2>4, <2>7, <2>8
<1> HIDE DEF lo, lw
<1>9. a + 1 \in 0..MaxEvents
  <2>1. emitted <= MaxEvents
    BY <1>3
  <2> QED BY <1>7, <1>8, <2>1
<1>10. /\ q \in Seq(Messages) /\ Len(q) = M
       /\ \A i \in 1..L : q[i] = published[i]
       /\ \A i \in (L + 1)..M : q[i] = B[i - L]
  BY <1>3, <1>4, <1>6, PartsOfConcat
<1>11. DOMAIN q = 1..M /\ DOMAIN published = 1..L
  BY <1>3, <1>10
<1> HIDE DEF L, M, q
<1>12. ASSUME NEW i \in (L + 1)..M
       PROVE  /\ q[i].event = a + 1 /\ q[i].conn = conn
              /\ Global(q[i]) <=> i = M
  <2>1. i - L \in 1..Len(B) /\ q[i] = B[i - L] /\ (i = M <=> i - L = Len(B))
    BY <1>6, <1>7, <1>10 DEF M
  <2> QED BY <1>6, <1>8, <2>1
<1>13. ASSUME NEW i \in (L + 1)..M, NEW j \in (L + 1)..M, SameKind(q[i], q[j])
       PROVE  i = j
  <2>1. i - L \in 1..Len(B) /\ q[i] = B[i - L] /\ j - L \in 1..Len(B) /\ q[j] = B[j - L]
    BY <1>6, <1>7, <1>10 DEF M
  <2>2. i - L = j - L
    BY <1>6, <1>13, <2>1
  <2> QED BY <1>7, <2>2
<1>14. ASSUME NEW i \in 1..L
       PROVE  /\ q[i] = published[i] /\ published[i].event <= a /\ published[i].conn <= conn
              /\ published[i].event \in Nat
  <2>1. published[i] \in Messages
    BY <1>3, <1>11 DEF L
  <2>2. published[i].event \in Nat
    BY <2>1, <1>7 DEF Messages, Events
  <2> QED BY <1>2, <1>10, <1>11, <2>2 DEF Pending, StreamInv, PublishedInOrder
<1>15. \A i \in 1..M : q[i].event <= a + 1 /\ q[i].conn <= conn
  BY <1>1, <1>7, <1>12, <1>14
<1>16. Pending(a + 1)'
  <2>1. Ahead' = Ahead - 1
    <3>1. InHand' = InHand /\ InHand \in {0, 1}
      BY <1>4 DEF InHand
    <3>2. Ahead' = Len(Tail(o)) + InHand'
      BY <1>4 DEF Ahead
    <3>3. Ahead = lo + InHand
      BY DEF Ahead, lo
    <3> QED BY <1>8, <3>1, <3>2, <3>3
  <2>2. \A i \in 1..(Len(o) - 1) : Tail(o)[i] = a + 1 + i
    <3>1. \A i \in 1..Len(o) : o[i] = a + i
      BY <1>2, <1>3 DEF Pending
    <3> QED BY <1>5, <1>7, <3>1
  <2>3. DOMAIN (Tail(o)) = 1..(Len(o) - 1)
    BY <1>5
  <2>4. fwd[conn] = "sending" => hand[conn] = a + 1 + Len(Tail(o)) + 1
    <3>1. fwd[conn] = "sending" => hand[conn] = a + lo + 1
      BY <1>2 DEF Pending, lo
    <3>2. a + 1 + (lo - 1) + 1 = a + lo + 1
      BY <1>7, <1>8
    <3> QED BY <1>8, <3>1, <3>2
  <2>5. \A i \in DOMAIN wire[conn] : wire[conn][i] = a + 1 + (Ahead - 1) + i
    <3>1. DOMAIN wire[conn] = 1..Len(wire[conn])
      BY <1>3
    <3>2. \A i \in 1..Len(wire[conn]) : wire[conn][i] = a + Ahead + i
      BY <1>2, <3>1 DEF Pending
    <3> QED BY <1>7, <1>8, <3>1, <3>2
  <2>6. a + 1 + (Ahead - 1) + lw = a + Ahead + lw
    BY <1>7, <1>8
  <2>7. \A i \in DOMAIN q : q[i].event <= a + 1
    BY <1>11, <1>15
  <2>8. sdk[conn] = "open" => a + Ahead + lw = emitted
    BY <1>2 DEF Pending, lw
  <2> QED BY <1>4, <1>8, <2>1, <2>2, <2>3, <2>4, <2>5, <2>6, <2>7, <2>8 DEF Pending, q, lw
<1>17. InOrder'
  <2> SUFFICES ASSUME NEW i \in 1..M, NEW j \in 1..M, i < j, SameKind(q[i], q[j])
               PROVE  q[i].event < q[j].event
    BY <1>11 DEF InOrder, SameKind, q
  <2>1. CASE j <= L
    <3>1. i \in 1..L /\ j \in 1..L
      BY <1>7, <2>1
    <3> QED BY <1>11, <1>14, <3>1 DEF StreamInv, PublishedInOrder, InOrder
  <2>2. CASE i <= L /\ j > L
    <3>1. i \in 1..L /\ j \in (L + 1)..M
      BY <1>7, <2>2
    <3> QED BY <1>7, <1>12, <1>14, <3>1
  <2>3. CASE i > L
    <3>1. i \in (L + 1)..M /\ j \in (L + 1)..M
      BY <1>7, <2>3
    <3> QED BY <1>7, <1>13, <3>1
  <2> QED BY <1>7, <2>1, <2>2, <2>3
<1>18. GapsOnlyBetweenConnections'
  <2> SUFFICES ASSUME NEW i \in 1..M, NEW j \in 1..M, i < j, Global(q[i]), Global(q[j]),
                      \A k \in (i + 1)..(j - 1) : ~Global(q[k]),
                      q[i].conn = q[j].conn
               PROVE  q[j].event = q[i].event + 1
    BY <1>11 DEF GapsOnlyBetweenConnections, Global, q
  <2>1. CASE j <= L
    <3>1. i \in 1..L /\ j \in 1..L /\ \A k \in (i + 1)..(j - 1) : k \in 1..L
      BY <1>7, <2>1
    <3>2. \A k \in (i + 1)..(j - 1) : ~Global(published[k])
      BY <1>14, <3>1
    <3> QED BY <1>11, <1>14, <3>1, <3>2 DEF StreamInv, PublishedInOrder, GapsOnlyBetweenConnections
  <2>2. CASE i <= L /\ j > L
    <3>1. i \in 1..L /\ j \in (L + 1)..M /\ L \in 1..L
      BY <1>7, <2>2
    <3>2. q[L] = LastOne /\ published # <<>> /\ Global(LastOne)
      BY <1>3, <1>7, <1>14, <3>1 DEF StreamInv, PublishedInOrder, LastOne, L
    <3>3. i = L
      <4>1. i < L => L \in (i + 1)..(j - 1)
        BY <1>7, <3>1
      <4> QED BY <1>7, <3>1, <3>2, <4>1
    <3>4. LastOne.conn = conn
      BY <1>12, <3>1, <3>2, <3>3
    <3> QED BY <1>2, <1>12, <3>1, <3>2, <3>3, <3>4
  <2>3. CASE i > L
    <3>1. i \in (L + 1)..M /\ j \in (L + 1)..M
      BY <1>7, <2>3
    <3> QED BY <1>7, <1>12, <3>1
  <2> QED BY <1>7, <2>1, <2>2, <2>3
<1>19. q # <<>> /\ Global(q[M]) /\ q[M].event = a + 1
  <2>1. M \in (L + 1)..M
    BY <1>7
  <2> QED BY <1>7, <1>10, <1>12, <2>1
<1>20. LastOne' = q[M]
  BY <1>10 DEF LastOne, q
<1>21. \A i \in DOMAIN q : q[i].conn <= conn
  BY <1>11, <1>15
<1> HIDE DEF o
<1>22. (\E b \in 0..MaxEvents :
          /\ Pending(b)
          /\ published # <<>> /\ LastOne.conn = conn => LastOne.event = b)'
  BY <1>9, <1>16, <1>19, <1>20 DEF q
<1>23. (published # <<>> => Global(LastOne))'
  BY <1>19, <1>20 DEF Global
<1> QED BY <1>1, <1>4, <1>17, <1>18, <1>21, <1>22, <1>23 DEF PublishedInOrder, q


(* A new connection starts after the last event.                           *)
LEMMA ConnectInOrder ==
    ASSUME StreamInv, Connect
    PROVE  PublishedInOrder'
<1>1. /\ conn \in Nat /\ conn' = conn + 1 /\ conn' \in Conns
      /\ UNCHANGED <<emitted, wire, outCh, published>>
      /\ fwd'[conn'] = "reading"
      /\ emitted \in 0..MaxEvents /\ published \in Seq(Messages)
  BY StreamAssumption DEF StreamInv, StreamTypeOK, Connect, Conns
<1>2. outCh[conn'] = <<>> /\ wire[conn'] = <<>>
  BY <1>1 DEF StreamInv, InStep
<1>3. \A i \in DOMAIN published : published[i].conn <= conn /\ published[i].conn \in Nat
  <2>1. \A i \in DOMAIN published : published[i] \in Messages
    BY <1>1
  <2>2. \A m \in Messages : m.conn \in Nat
    BY StreamAssumption DEF Messages, Conns
  <2> QED BY <2>1, <2>2 DEF StreamInv, PublishedInOrder
<1>4. published # <<>> => /\ Len(published) \in DOMAIN published /\ Global(LastOne)
  BY <1>1 DEF StreamInv, PublishedInOrder
<1>5. \A i \in DOMAIN published : published[i].event <= emitted
  <2>1. CASE conn = 0
    BY <1>1, <2>1 DEF StreamInv, PublishedInOrder
  <2>2. CASE conn > 0
    <3>1. PICK a \in 0..MaxEvents : Pending(a)
      BY <2>2 DEF StreamInv, PublishedInOrder
    <3> DEFINE lw == Len(wire[conn])
               lo == Len(outCh[conn])
    <3>2. lw \in Nat /\ lo \in Nat
      BY <1>1, <2>2 DEF StreamInv, StreamTypeOK, Conns
    <3>3. a + Ahead + lw <= emitted /\ Ahead = lo + InHand
      BY <3>1 DEF Pending, Ahead
    <3>4. InHand \in {0, 1}
      BY DEF InHand
    <3> HIDE DEF lw, lo
    <3>5. a <= emitted /\ a \in Nat /\ emitted \in Nat
      BY <1>1, <3>2, <3>3, <3>4, StreamAssumption
    <3>6. \A i \in DOMAIN published : published[i].event <= a /\ published[i].event \in Nat
      <4>1. \A i \in DOMAIN published : published[i] \in Messages
        BY <1>1
      <4>2. \A m \in Messages : m.event \in Nat
        BY StreamAssumption DEF Messages, Events
      <4> QED BY <3>1, <4>1, <4>2 DEF Pending
    <3> QED BY <3>5, <3>6
  <2> QED BY <1>1, <2>1, <2>2
<1>6. Pending(emitted)'
  <2>1. Ahead' = 0
    BY <1>1, <1>2 DEF Ahead, InHand
  <2>2. Len(<<>>) = 0 /\ DOMAIN <<>> = {}
    OBVIOUS
  <2>3. emitted + 0 + 0 = emitted /\ emitted <= emitted
    BY <1>1, StreamAssumption
  <2> QED BY <1>1, <1>2, <1>5, <2>1, <2>2, <2>3 DEF Pending
<1>7. published # <<>> => LastOne.conn < conn'
  BY <1>1, <1>3, <1>4 DEF LastOne
<1>8. (\E a \in 0..MaxEvents :
          /\ Pending(a)
          /\ published # <<>> /\ LastOne.conn = conn => LastOne.event = a)'
  <2>1. LastOne' = LastOne
    BY <1>1 DEF LastOne
  <2>2. published # <<>> => LastOne.conn # conn'
    BY <1>1, <1>3, <1>4, <1>7 DEF LastOne
  <2> QED BY <1>1, <1>6, <2>1, <2>2
<1>9. \A i \in DOMAIN published : published[i].conn <= conn'
  BY <1>1, <1>3
<1>10. InOrder' /\ GapsOnlyBetweenConnections'
  BY <1>1 DEF StreamInv, PublishedInOrder, InOrder, GapsOnlyBetweenConnections
<1> QED BY <1>1, <1>4, <1>8, <1>9, <1>10 DEF PublishedInOrder, LastOne

(* The steps that publish nothing and open no connection.                  *)
LEMMA QuietStepInOrder ==
    ASSUME PublishedInOrder, UNCHANGED <<conn, published>>,
           \A a \in 0..MaxEvents : conn > 0 /\ Pending(a) => Pending(a)'
    PROVE  PublishedInOrder'
<1>1. InOrder' /\ GapsOnlyBetweenConnections'
  BY DEF PublishedInOrder, InOrder, GapsOnlyBetweenConnections
<1>2. LastOne' = LastOne
  BY DEF LastOne
<1> QED BY <1>1, <1>2 DEF PublishedInOrder, Global

(* Every step keeps the order of what is under way.                        *)
LEMMA PublishedInOrderStep ==
    ASSUME StreamInv, [Next]_vars
    PROVE  PublishedInOrder'
<1>1. PublishedInOrder /\ StreamTypeOK /\ (conn > 0 => conn \in Conns)
  BY StreamAssumption DEF StreamInv, StreamTypeOK, Conns
<1>2. CASE Emit \/ \E k \in Conns : SdkFails(k) \/ ForwardStep(k)
  <2>1. UNCHANGED <<conn, published>>
    BY <1>2 DEF Emit, SdkFails, ForwardStep, ForwardTakes, ForwardSends, ForwardError,
                ForwardCloses
  <2> QED BY <1>1, <1>2, <2>1, PendingStep, QuietStepInOrder
<1>3. CASE \/ CtxEnds \/ StreamerReturns \/ StreamerError \/ StreamerClosed \/ StreamerWakes
           \/ UNCHANGED vars
  <2>1. UNCHANGED <<conn, published, emitted, outCh, wire, fwd, hand, sdk>>
    BY <1>3 DEF CtxEnds, StreamerReturns, StreamerError, StreamerClosed, StreamerWakes, daemon,
                forwarder, vars
  <2>2. \A a \in 0..MaxEvents : Pending(a) => Pending(a)'
    BY <2>1, PendingElsewhere
  <2> QED BY <1>1, <2>1, <2>2, QuietStepInOrder
<1>4. CASE Connect
  BY <1>4, ConnectInOrder
<1>5. CASE StreamerReceives
  BY <1>5, ReceivesInOrder
<1> QED BY <1>2, <1>3, <1>4, <1>5 DEF Next, StreamerStep, Over

(* The stream of Docker events keeps its types, outCh its capacity; no     *)
(* forwarding goroutine of sdkClient.Events is left behind by a streamer   *)
(* that went on to the next connection; and what is under way is in order. *)
THEOREM StreamInvariant == Spec => []StreamInv
<1>1. Init => StreamInv
  <2> SUFFICES ASSUME Init PROVE StreamInv
    OBVIOUS
  <2>1. StreamTypeOK
    <3>1. <<>> \in Seq(Events) /\ <<>> \in Seq(Messages) /\ Len(<<>>) = 0
      OBVIOUS
    <3>2. /\ wire \in [Conns -> Seq(Events)] /\ outCh \in [Conns -> Seq(Events)]
          /\ \A k \in Conns : Len(outCh[k]) <= Cap
      BY <3>1, StreamAssumption DEF Init
    <3>3. 0 \in 0..MaxEvents /\ 0 \in 0..MaxConns
      BY StreamAssumption
    <3>4. published \in Seq(Messages)
      BY <3>1 DEF Init
    <3>5. /\ ctxDone \in BOOLEAN /\ emitted \in 0..MaxEvents /\ conn \in 0..MaxConns
          /\ sdk \in [Conns -> {"none", "open", "failed"}]
          /\ fwd \in [Conns -> {"none", "reading", "sending", "closing", "ended"}]
          /\ hand \in [Conns -> 0..MaxEvents] /\ outErrCh \in [Conns -> BOOLEAN]
          /\ streamer \in {"connect", "select", "sleep", "returned"}
      BY <3>3 DEF Init
    <3> QED BY <3>2, <3>4, <3>5 DEF StreamTypeOK
  <2>2. NoForwarderBehind /\ InStep
    BY StreamAssumption DEF Init, NoForwarderBehind, InStep, Conns
  <2>3. PublishedInOrder
    <3>1. conn = 0 /\ published = <<>> /\ DOMAIN published = {}
      BY DEF Init
    <3> QED BY <3>1 DEF PublishedInOrder, InOrder, GapsOnlyBetweenConnections
  <2> QED BY <2>1, <2>2, <2>3 DEF StreamInv
<1>2. StreamInv /\ [Next]_vars => StreamInv'
  BY StreamTypeStep, InStepStep, PublishedInOrderStep DEF StreamInv
<1> QED BY <1>1, <1>2, PTL DEF Spec

(* StreamDockerEvents publishes the events of each kind in the order in    *)
(* which they happened and none twice, over any number of reconnections.   *)
THEOREM StreamInOrder == Spec => []InOrder
<1>1. StreamInv => InOrder
  BY DEF StreamInv, PublishedInOrder
<1> QED BY <1>1, StreamInvariant, PTL

(* Of the events that one connection delivered none is missing, for every  *)
(* capacity of outCh: the blocking send of sdkClient.Events loses nothing. *)
THEOREM StreamGaps == Spec => []GapsOnlyBetweenConnections
<1>1. StreamInv => GapsOnlyBetweenConnections
  BY DEF StreamInv, PublishedInOrder
<1> QED BY <1>1, StreamInvariant, PTL


=============================================================================
