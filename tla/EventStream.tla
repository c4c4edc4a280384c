---------------------------- MODULE EventStream ----------------------------
(***************************************************************************)
(* The stream of Docker events: Streamer.StreamDockerEvents of             *)
(* internal/docker/streamer.go, the goroutine that sdkClient.Events of     *)
(* internal/docker/sdk_client.go starts for each connection, and the       *)
(* Docker SDK with the daemon behind it, which are external.               *)
(*                                                                         *)
(* The daemon numbers its events here.  A connection delivers those that   *)
(* happen while it is open and may break at any time; the SDK then hands   *)
(* out one error.  The forwarding goroutine moves events into a buffered   *)
(* channel and the error into another; the streamer selects among both and *)
(* its context, and opens the next connection after a pause.               *)
(***************************************************************************)
EXTENDS Naturals, Sequences

CONSTANTS
    MaxEvents,   \* bound: the number of events of the daemon
    MaxConns,    \* bound: the number of connections; the last does not break
    Cap,         \* the capacity of outCh (64)
    Labelled,    \* the events that carry the label of a project
    OfContainer  \* the events of type "container"

ASSUME StreamAssumption ==
    /\ MaxEvents \in Nat /\ MaxConns \in Nat \ {0} /\ Cap \in Nat \ {0}
    /\ Labelled \subseteq 1..MaxEvents /\ OfContainer \subseteq 1..MaxEvents

VARIABLES
    ctxDone,    \* the context of main is cancelled
    emitted,    \* the number of events so far
    conn,       \* the number of connections opened so far
    wire,       \* events of each connection that its forwarder has not taken
    sdk,        \* whether the connection is open, or the SDK has an error
    fwd,        \* where the forwarding goroutine of each connection is
    hand,       \* the event it is sending
    outCh,      \* outCh of each connection
    outErrCh,   \* whether outErrCh holds the error
    streamer,   \* where StreamDockerEvents is
    published   \* what it has published: event, topic, connection

daemon == <<emitted, wire, sdk>>
forwarder == <<fwd, hand>>
vars == <<ctxDone, emitted, conn, wire, sdk, fwd, hand, outCh, outErrCh, streamer, published>>

Conns == 1..MaxConns
Events == 1..MaxEvents
Messages == [event : Events, topic : {"project", "global"},
             type : {"docker_event", "container_state"}, conn : Conns]

StreamTypeOK ==
    /\ ctxDone \in BOOLEAN
    /\ emitted \in 0..MaxEvents /\ conn \in 0..MaxConns
    /\ wire \in [Conns -> Seq(Events)]
    /\ sdk \in [Conns -> {"none", "open", "failed"}]
    /\ fwd \in [Conns -> {"none", "reading", "sending", "closing", "ended"}]
    /\ hand \in [Conns -> 0..MaxEvents]
    /\ outCh \in [Conns -> Seq(Events)] /\ \A k \in Conns : Len(outCh[k]) <= Cap
    /\ outErrCh \in [Conns -> BOOLEAN]
    /\ streamer \in {"connect", "select", "sleep", "returned"}
    /\ published \in Seq(Messages)

Init ==
    /\ ctxDone = FALSE
    /\ emitted = 0 /\ conn = 0
    /\ wire = [k \in Conns |-> <<>>]
    /\ sdk = [k \in Conns |-> "none"]
    /\ fwd = [k \in Conns |-> "none"]
    /\ hand = [k \in Conns |-> 0]
    /\ outCh = [k \in Conns |-> <<>>]
    /\ outErrCh = [k \in Conns |-> FALSE]
    /\ streamer = "connect"
    /\ published = <<>>

-----------------------------------------------------------------------------
(* The daemon and the SDK.                                                 *)
Emit ==
    /\ emitted < MaxEvents
    /\ emitted' = emitted + 1
    /\ wire' = [k \in Conns |-> IF sdk[k] = "open" THEN Append(wire[k], emitted') ELSE wire[k]]
    /\ UNCHANGED <<ctxDone, conn, sdk, forwarder, outCh, outErrCh, streamer, published>>

(* The connection breaks, with what is on the wire, or its context ends.   *)
SdkFails(k) ==
    /\ sdk[k] = "open"
    /\ ctxDone \/ k < MaxConns
    /\ sdk' = [sdk EXCEPT ![k] = "failed"]
    /\ wire' = [wire EXCEPT ![k] = <<>>]
    /\ UNCHANGED <<ctxDone, emitted, conn, forwarder, outCh, outErrCh, streamer, published>>

CtxEnds ==
    /\ ~ctxDone
    /\ ctxDone' = TRUE
    /\ UNCHANGED <<daemon, conn, forwarder, outCh, outErrCh, streamer, published>>

-----------------------------------------------------------------------------
(* The goroutine of sdkClient.Events.                                      *)
ForwardTakes(k) ==
    /\ fwd[k] = "reading" /\ wire[k] # <<>>
    /\ hand' = [hand EXCEPT ![k] = Head(wire[k])]
    /\ wire' = [wire EXCEPT ![k] = Tail(@)]
    /\ fwd' = [fwd EXCEPT ![k] = "sending"]
    /\ UNCHANGED <<ctxDone, emitted, conn, sdk, outCh, outErrCh, streamer, published>>

(* Mutant: an event that finds the channel full is dropped.                *)
ForwardDrops(k) ==
    /\ fwd[k] = "sending"
    /\ outCh' = [outCh EXCEPT ![k] = IF Len(@) < Cap THEN Append(@, hand[k]) ELSE @]
    /\ fwd' = [fwd EXCEPT ![k] = "reading"]
    /\ hand' = [hand EXCEPT ![k] = 0]
    /\ UNCHANGED <<ctxDone, daemon, conn, outErrCh, streamer, published>>

(* The send blocks while the channel is full, whatever the context does.   *)
ForwardSends(k) ==
    /\ fwd[k] = "sending" /\ Len(outCh[k]) < Cap
    /\ outCh' = [outCh EXCEPT ![k] = Append(@, hand[k])]
    /\ fwd' = [fwd EXCEPT ![k] = "reading"]
    /\ hand' = [hand EXCEPT ![k] = 0]
    /\ UNCHANGED <<ctxDone, daemon, conn, outErrCh, streamer, published>>

(* Mutant: the goroutine goes on after it has passed the error on.         *)
ForwardErrorGoesOn(k) ==
    /\ fwd[k] = "reading" /\ sdk[k] = "failed" /\ ~outErrCh[k]
    /\ outErrCh' = [outErrCh EXCEPT ![k] = TRUE]
    /\ UNCHANGED <<ctxDone, daemon, conn, fwd, hand, outCh, streamer, published>>

(* The error fits into outErrCh; both channels are closed next.            *)
ForwardError(k) ==
    /\ fwd[k] = "reading" /\ sdk[k] = "failed"
    /\ outErrCh' = [outErrCh EXCEPT ![k] = TRUE]
    /\ fwd' = [fwd EXCEPT ![k] = "closing"]
    /\ UNCHANGED <<ctxDone, daemon, conn, hand, outCh, streamer, published>>

ForwardCloses(k) ==
    /\ fwd[k] = "closing"
    /\ fwd' = [fwd EXCEPT ![k] = "ended"]
    /\ UNCHANGED <<ctxDone, daemon, conn, hand, outCh, outErrCh, streamer, published>>

-----------------------------------------------------------------------------
(* StreamDockerEvents.                                                     *)

(* Mutant: a new connection asks for the last event again.                 *)
ConnectReplays ==
    /\ streamer = "connect" /\ ~ctxDone /\ conn < MaxConns
    /\ conn' = conn + 1
    /\ sdk' = [sdk EXCEPT ![conn'] = "open"]
    /\ wire' = [wire EXCEPT ![conn'] = IF emitted > 0 THEN <<emitted>> ELSE <<>>]
    /\ fwd' = [fwd EXCEPT ![conn'] = "reading"]
    /\ streamer' = "select"
    /\ UNCHANGED <<ctxDone, emitted, hand, outCh, outErrCh, published>>

(* The new connection delivers what happens from now on, as Since is not   *)
(* set; it may also fail at once.                                          *)
Connect ==
    /\ streamer = "connect" /\ ~ctxDone /\ conn < MaxConns
    /\ conn' = conn + 1
    /\ \E s \in {"open", "failed"} :
          /\ s = "failed" => conn' < MaxConns
          /\ sdk' = [sdk EXCEPT ![conn'] = s]
    /\ fwd' = [fwd EXCEPT ![conn'] = "reading"]
    /\ streamer' = "select"
    /\ UNCHANGED <<ctxDone, emitted, wire, hand, outCh, outErrCh, published>>

StreamerReturns ==
    /\ streamer \in {"connect", "select"} /\ ctxDone
    /\ streamer' = "returned"
    /\ UNCHANGED <<ctxDone, daemon, conn, forwarder, outCh, outErrCh, published>>

(* The messages for one event, in the order of the calls of Publish.       *)
PublishDockerEvent(e) ==
    LET Msg(t, y) == <<[event |-> e, topic |-> t, type |-> y, conn |-> conn]>>
        state == IF e \in OfContainer THEN Msg("project", "container_state") ELSE <<>>
        project == IF e \in Labelled THEN Msg("project", "docker_event") \o state ELSE <<>>
    IN  project \o Msg("global", "docker_event")

StreamerReceives ==
    /\ streamer = "select" /\ outCh[conn] # <<>>
    /\ outCh' = [outCh EXCEPT ![conn] = Tail(@)]
    /\ published' = published \o PublishDockerEvent(Head(outCh[conn]))
    /\ UNCHANGED <<ctxDone, daemon, conn, forwarder, outErrCh, streamer>>

(* The error may be selected although there are events in outCh.           *)
StreamerError ==
    /\ streamer = "select" /\ outErrCh[conn]
    /\ outErrCh' = [outErrCh EXCEPT ![conn] = FALSE]
    /\ streamer' = "sleep"
    /\ UNCHANGED <<ctxDone, daemon, conn, forwarder, outCh, published>>

(* outCh is drained and closed.                                            *)
StreamerClosed ==
    /\ streamer = "select" /\ outCh[conn] = <<>> /\ fwd[conn] = "ended"
    /\ streamer' = "sleep"
    /\ UNCHANGED <<ctxDone, daemon, conn, forwarder, outCh, outErrCh, published>>

(* Mutant: the streamer gives up after an error.                           *)
StreamerSleepsOn ==
    /\ streamer = "sleep" /\ ctxDone
    /\ streamer' = "connect"
    /\ UNCHANGED <<ctxDone, daemon, conn, forwarder, outCh, outErrCh, published>>

StreamerWakes ==
    /\ streamer = "sleep"
    /\ streamer' = "connect"
    /\ UNCHANGED <<ctxDone, daemon, conn, forwarder, outCh, outErrCh, published>>

StreamerStep == \/ Connect \/ StreamerReturns \/ StreamerReceives
                \/ StreamerError \/ StreamerClosed \/ StreamerWakes
ForwardStep(k) == ForwardTakes(k) \/ ForwardSends(k) \/ ForwardError(k) \/ ForwardCloses(k)

(* The process ends once the streamer has returned.                        *)
Over == streamer = "returned" /\ UNCHANGED vars

Next == \/ Emit \/ CtxEnds \/ StreamerStep \/ Over
        \/ \E k \in Conns : SdkFails(k) \/ ForwardStep(k)

Spec == Init /\ [][Next]_vars

(* Goroutines run; a pause ends; a connection ends with its context.       *)
FairSpec ==
    /\ Spec
    /\ WF_vars(Connect) /\ WF_vars(StreamerReturns) /\ WF_vars(StreamerReceives)
    /\ WF_vars(StreamerError \/ StreamerClosed) /\ WF_vars(StreamerWakes)
    /\ \A k \in Conns : WF_vars(ForwardStep(k)) /\ WF_vars(ctxDone /\ SdkFails(k))

-----------------------------------------------------------------------------
(* Two messages of one kind, and whether the message is one of those that  *)
(* every event has.                                                        *)
SameKind(m, n) == m.topic = n.topic /\ m.type = n.type
Global(m) == m.topic = "global"

(* A subscriber sees events in the order in which they happened and none   *)
(* twice, across reconnections.                                            *)
InOrder ==
    \A i, j \in DOMAIN published :
        i < j /\ SameKind(published[i], published[j]) =>
            published[i].event < published[j].event

(* Events are only lost where a connection was lost: what one connection   *)
(* delivered has no gap, however full outCh was.                           *)
GapsOnlyBetweenConnections ==
    \A i, j \in DOMAIN published :
        /\ i < j /\ Global(published[i]) /\ Global(published[j])
        /\ \A k \in (i + 1)..(j - 1) : ~Global(published[k])
        /\ published[i].conn = published[j].conn
        => published[j].event = published[i].event + 1

(* No goroutine of an earlier connection waits for a reader that has left. *)
NoForwarderBehind == \A k \in Conns : k < conn => fwd[k] \in {"closing", "ended"}

(* How the streamer and the forwarders stand to each other: the streamer   *)
(* leaves a connection only after its forwarder has passed the error on.   *)
InStep ==
    /\ streamer = "select" => conn > 0
    /\ streamer \in {"connect", "sleep"} /\ conn > 0 => fwd[conn] \in {"closing", "ended"}
    /\ \A k \in Conns :
          /\ outErrCh[k] => fwd[k] \in {"closing", "ended"}
          /\ fwd[k] = "sending" => hand[k] \in Events
          /\ k > conn => /\ sdk[k] = "none" /\ fwd[k] = "none"
                         /\ wire[k] = <<>> /\ outCh[k] = <<>>

(* The events of the connection that the streamer has not published yet    *)
(* are the numbers after some a: first those in outCh, then the one in the *)
(* forwarder's hand, then those on the wire, up to the last event as long  *)
(* as the connection is open.  All that is published is not after a.       *)
InHand == IF fwd[conn] = "sending" THEN 1 ELSE 0
Ahead == Len(outCh[conn]) + InHand

Pending(a) ==
    /\ \A i \in DOMAIN outCh[conn] : outCh[conn][i] = a + i
    /\ fwd[conn] = "sending" => hand[conn] = a + Len(outCh[conn]) + 1
    /\ \A i \in DOMAIN wire[conn] : wire[conn][i] = a + Ahead + i
    /\ a + Ahead + Len(wire[conn]) <= emitted
    /\ sdk[conn] = "open" => a + Ahead + Len(wire[conn]) = emitted
    /\ \A i \in DOMAIN published : published[i].event <= a

LastOne == published[Len(published)]

PublishedInOrder ==
    /\ conn = 0 => published = <<>>
    /\ conn > 0 => \E a \in 0..MaxEvents :
          /\ Pending(a)
          /\ published # <<>> /\ LastOne.conn = conn => LastOne.event = a
    /\ published # <<>> => Global(LastOne)
    /\ \A i \in DOMAIN published : published[i].conn <= conn
    /\ InOrder
    /\ GapsOnlyBetweenConnections

(* The inductive invariant: the types of the state, the capacity of outCh  *)
(* included, no forwarder of sdkClient.Events left behind, and the order   *)
(* of what is under way.                                                   *)
StreamInv == StreamTypeOK /\ NoForwarderBehind /\ InStep /\ PublishedInOrder

(* A lost connection is replaced unless the server stops.                  *)
Reconnects ==
    \A k \in 1..(MaxConns - 1) : conn = k /\ sdk[k] = "failed" ~> conn > k \/ ctxDone

(* The server's stop ends the streamer, and the forwarding goroutine too   *)
(* unless it is blocked on a full channel that nobody will read.           *)
StreamEnds ==
    ctxDone ~> /\ streamer = "returned"
               /\ \A k \in Conns : \/ fwd[k] \in {"none", "ended"}
                                   \/ fwd[k] = "sending" /\ Len(outCh[k]) = Cap
=============================================================================
