----------------------------- MODULE LogStream -----------------------------
(***************************************************************************)
(* The log tail of a service: ServiceLogs of api/handlers/events_handler.go*)
(* starts Streamer.StreamProjectLogs in a goroutine and then subscribes    *)
(* its client; demuxDockerLogs of internal/docker/streamer.go reads the    *)
(* multiplexed stream of Docker and publishes its frames to the topic of   *)
(* the service, on which all the clients of that service are.              *)
(*                                                                         *)
(* The log is a sequence of frames.  A frame is a header of HeaderLen      *)
(* bytes, which holds the size, and a payload of that many bytes.  Reading *)
(* is modelled by byte positions: at the start of a frame a header gives   *)
(* the frame's size; anywhere else the eight bytes are payload or a part   *)
(* of a header, and the size they make is arbitrary.  Docker lets every    *)
(* client read the log from its first frame (Tail "100") and then follow.  *)
(* The broker is reduced to its delivery: a message reaches the clients    *)
(* that are subscribed; what slow clients lose is in SSEBroker.            *)
(***************************************************************************)
EXTENDS Naturals, Sequences

CONSTANTS
    Clients,     \* the requests for the log
    Logs,        \* the logs considered: sequences of frame sizes
    Blank,       \* numbers of the frames whose payload is only line ends
    HeaderLen,   \* 8
    MaxSize,     \* the largest payload that is accepted (1024 * 1024)
    MaxGarbage   \* bound: the largest size that misread bytes make up

ASSUME LogAssumption ==
    /\ Logs \subseteq Seq(Nat) /\ HeaderLen \in Nat \ {0}
    /\ MaxSize \in Nat \ {0} /\ MaxGarbage \in Nat

VARIABLES
    log,        \* the sizes of the frames
    written,    \* how many of them the container has written
    client,     \* where each request is
    stream,     \* where its goroutine is
    pos,        \* how many bytes that goroutine has read
    received    \* what each client has received: line and sending goroutine

vars == <<log, written, client, stream, pos, received>>

Garbage == 0
Frames == DOMAIN log
Lines == [line : Frames \cup {Garbage}, by : Clients]

LogTypeOK ==
    /\ log \in Logs
    /\ written \in 0..Len(log)
    /\ client \in [Clients -> {"none", "connected", "subscribed", "gone"}]
    /\ stream \in [Clients -> {"none", "listing", "reading", "ended"}]
    /\ pos \in [Clients -> Nat]
    /\ received \in [Clients -> Seq(Lines)]

Init ==
    /\ log \in Logs
    /\ written = 0
    /\ client = [c \in Clients |-> "none"]
    /\ stream = [c \in Clients |-> "none"]
    /\ pos = [c \in Clients |-> 0]
    /\ received = [c \in Clients |-> <<>>]

(* The bytes before frame f.                                               *)
Start(f) ==
    LET S[i \in 1..(Len(log) + 1)] == IF i = 1 THEN 0 ELSE S[i - 1] + HeaderLen + log[i - 1]
    IN  S[f]
Available == Start(written + 1)

(* The container writes the next frame.                                    *)
Write ==
    /\ written < Len(log)
    /\ written' = written + 1
    /\ UNCHANGED <<log, client, stream, pos, received>>

-----------------------------------------------------------------------------
(* ServiceLogs: the goroutine is started before the client is subscribed.  *)
Connect(c) ==
    /\ client[c] = "none"
    /\ client' = [client EXCEPT ![c] = "connected"]
    /\ stream' = [stream EXCEPT ![c] = "listing"]
    /\ UNCHANGED <<log, written, pos, received>>

Subscribe(c) ==
    /\ client[c] = "connected"
    /\ client' = [client EXCEPT ![c] = "subscribed"]
    /\ UNCHANGED <<log, written, stream, pos, received>>

(* The client goes away: ServeSSE returns, the request's context ends.     *)
Leave(c) ==
    /\ client[c] \in {"connected", "subscribed"}
    /\ client' = [client EXCEPT ![c] = "gone"]
    /\ UNCHANGED <<log, written, stream, pos, received>>

-----------------------------------------------------------------------------
(* StreamProjectLogs finds the container and opens its log, or it returns. *)
OpenLogs(c) ==
    /\ stream[c] = "listing"
    /\ \E to \in {"reading", "ended"} : stream' = [stream EXCEPT ![c] = to]
    /\ UNCHANGED <<log, written, client, pos, received>>

Publish(c, line) ==
    received' = [d \in Clients |-> IF client[d] = "subscribed"
                                   THEN Append(received[d], [line |-> line, by |-> c])
                                   ELSE received[d]]

(* What a header read at position p says: the frame, if one starts there,  *)
(* and the size of the payload.                                            *)
HeadersAt(p) ==
    IF \E f \in 1..written : p = Start(f)
    THEN {[line |-> f, size |-> log[f]] : f \in {f \in 1..written : p = Start(f)}}
    ELSE {[line |-> Garbage, size |-> n] : n \in 0..MaxGarbage}

(* A frame that is empty or too long is passed over, without its payload.  *)
DemuxSkips(c) ==
    /\ stream[c] = "reading" /\ client[c] # "gone"
    /\ pos[c] + HeaderLen <= Available
    /\ \E h \in HeadersAt(pos[c]) : h.size \notin 1..MaxSize
    /\ pos' = [pos EXCEPT ![c] = @ + HeaderLen]
    /\ UNCHANGED <<log, written, client, stream, received>>

(* Mutant: a blank line is recognised before its payload is read.          *)
DemuxLeavesBlanks(c) ==
    /\ stream[c] = "reading" /\ client[c] # "gone"
    /\ \E h \in HeadersAt(pos[c]) :
          /\ h.size \in 1..MaxSize
          /\ pos[c] + HeaderLen + h.size <= Available
          /\ pos' = [pos EXCEPT ![c] = @ + HeaderLen + (IF h.line \in Blank THEN 0 ELSE h.size)]
          /\ IF h.line \in Blank THEN UNCHANGED received ELSE Publish(c, h.line)
    /\ UNCHANGED <<log, written, client, stream>>

(* A frame is read completely and published unless it is blank.            *)
DemuxFrame(c) ==
    /\ stream[c] = "reading" /\ client[c] # "gone"
    /\ \E h \in HeadersAt(pos[c]) :
          /\ h.size \in 1..MaxSize
          /\ pos[c] + HeaderLen + h.size <= Available
          /\ pos' = [pos EXCEPT ![c] = @ + HeaderLen + h.size]
          /\ IF h.line \in Blank THEN UNCHANGED received ELSE Publish(c, h.line)
    /\ UNCHANGED <<log, written, client, stream>>

(* Mutant: the goroutine has a context of its own, which never ends.       *)
DemuxEndsWithContainer(c) ==
    /\ stream[c] = "reading" /\ written = Len(log) /\ client[c] # "gone"
    /\ stream' = [stream EXCEPT ![c] = "ended"]
    /\ UNCHANGED <<log, written, client, pos, received>>

(* The container has stopped, or the client is gone: a read fails or the   *)
(* context is found to be done.                                            *)
DemuxEnds(c) ==
    /\ stream[c] = "reading"
    /\ client[c] = "gone" \/ written = Len(log)
    /\ stream' = [stream EXCEPT ![c] = "ended"]
    /\ UNCHANGED <<log, written, client, pos, received>>

StreamStep(c) == OpenLogs(c) \/ DemuxSkips(c) \/ DemuxFrame(c) \/ DemuxEnds(c)
Over == /\ \A c \in Clients : client[c] = "gone" /\ stream[c] = "ended"
        /\ UNCHANGED vars

Next == \/ Write \/ Over
        \/ \E c \in Clients : Connect(c) \/ Subscribe(c) \/ Leave(c) \/ StreamStep(c)

Spec == Init /\ [][Next]_vars

(* The goroutines run; clients and the container need not do anything.     *)
FairSpec == Spec /\ \A c \in Clients : WF_vars(StreamStep(c))

-----------------------------------------------------------------------------
(* Frames that are too long are not passed over completely: what follows   *)
(* is about logs without them (Docker cuts lines at 16 KiB).               *)
Framed == \A f \in Frames : log[f] <= MaxSize

(* A frame that is never sent.                                             *)
Silent(f) == f \in Blank \/ log[f] = 0

(* A sequence s of lines has, between its positions i and j, all that      *)
(* goroutine d has to send between frames m and n.                         *)
SentBetween(s, d, i, j, m, n) ==
    \A f \in (m + 1)..(n - 1) :
        Silent(f) \/ \E k \in (i + 1)..(j - 1) : s[k] = [line |-> f, by |-> d]

(* The lines of s that one goroutine has sent are a piece of the log.      *)
PieceOfLog(s) ==
    \A j \in DOMAIN s :
        /\ s[j].line # Garbage /\ ~Silent(s[j].line)
        /\ \A i \in 1..(j - 1) :
              s[i].by = s[j].by => /\ s[i].line < s[j].line
                                   /\ SentBetween(s, s[j].by, i, j, s[i].line, s[j].line)

(* What a client gets from one goroutine is a piece of the log: its lines, *)
(* in order, each once and without a gap other than blank or empty frames, *)
(* although several goroutines send the lines of the same log to it.       *)
LinesInOrder == Framed => \A c \in Clients : PieceOfLog(received[c])

(* In s, goroutine d has not sent frame f, and all before it since d's     *)
(* first line.                                                             *)
UpTo(s, d, f) == \A i \in DOMAIN s : s[i].by = d => s[i].line < f
AllSince(s, d, f) ==
    \A i \in DOMAIN s : s[i].by = d => SentBetween(s, d, i, Len(s) + 1, s[i].line, f)

(* Goroutine d is at the start of frame f: no client has f from it, and    *)
(* those that are still subscribed have got all since their first line.    *)
ReadsNext(d, f) ==
    /\ pos[d] = Start(f)
    /\ \A c \in Clients : /\ UpTo(received[c], d, f)
                          /\ client[c] = "subscribed" => AllSince(received[c], d, f)

ReadersInStep == Framed => \A d \in Clients : \E f \in 1..(written + 1) : ReadsNext(d, f)

(* The broker sends nothing to a client that is not subscribed yet.        *)
NothingTooEarly == \A c \in Clients : client[c] \in {"none", "connected"} => received[c] = <<>>

(* The inductive invariant.                                                *)
LogInv == LogTypeOK /\ LinesInOrder /\ ReadersInStep /\ NothingTooEarly

(* The goroutine of a client that has left ends.                           *)
StreamEnds == \A c \in Clients : client[c] = "gone" ~> stream[c] = "ended"
=============================================================================
