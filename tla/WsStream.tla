------------------------------ MODULE WsStream ------------------------------
(***************************************************************************)
(* The WebSocket transaction stream (pipeline/ws.rs): the subscription     *)
(* handshake that buffers the notifications overtaking the answer, next()  *)
(* with its biased select between a frame and the heartbeat deadline, the  *)
(* ping/pong heartbeat, the slot cursor and the bounded deduplication set. *)
(* run_streaming makes a new stream for every connection, so Subscribe     *)
(* starts from WsTransactionStream::new.                                   *)
(*                                                                         *)
(* A frame is a well-formed logsNotification (a signature and a slot; the  *)
(* same signature may be notified again, with another slot after a fork)   *)
(* or the name of the kind of any other frame.  The server may send any    *)
(* frame at any time, fall silent for ever, or answer a ping late; frames  *)
(* arrive in the order they were sent.                                     *)
(***************************************************************************)
EXTENDS Integers, Sequences, FiniteSets, SequencesExt

CONSTANTS Sig,              \* transaction signatures
          Note,             \* well-formed logsNotification frames
          SigOf, SlotOf,    \* the signature and the slot of each
          DedupSize,        \* dedup_cache_size
          PingInterval,     \* ws_ping_interval_secs
          PongTimeout,      \* ws_pong_timeout_secs
          MaxFrames,        \* bound: frames the server sends, pongs aside
          MaxInFlight,      \* bound: frames the socket holds when another is sent
          MaxConnections    \* bound: connections made

Control == {"ack", "error", "other", "garbled", "binary", "ping", "pong", "close"}
Frame == Note \union Control

ASSUME DedupSizeNonZero == DedupSize \in Nat \ {0}
ASSUME TimeoutsNonZero == PingInterval \in Nat \ {0} /\ PongTimeout \in Nat \ {0}
ASSUME NotesAreTyped == SigOf \in [Note -> Sig] /\ SlotOf \in [Note -> Nat \ {0}]
ASSUME FrameKindsDiffer == Note \intersect Control = {}
ASSUME BoundsAreNaturals == MaxFrames \in Nat /\ MaxInFlight \in Nat /\ MaxConnections \in Nat

VARIABLES
  phase,        \* "off", "handshake", "idle" (between two next()), "next", "closed"
  reason,       \* why the stream was closed
  inbox,        \* frames the socket holds, oldest first
  pending,      \* pending_frames
  seen,         \* dedup.seen
  order,        \* dedup.order
  lastSeen,     \* last_seen_slot; 0 is None
  pendingPing,  \* pending_ping
  sinceMsg,     \* time since last_message_time, counted up to PingInterval
  sincePing,    \* time since last_ping_time, counted up to PongTimeout
  alive,        \* the server still sends
  owed,         \* the server has a ping to answer
  frames,       \* frames sent so far
  connections,  \* connections made so far
  arrived,      \* notifications read from the socket on this connection
  delivered     \* events next() returned on this connection

server == <<alive, owed, frames>>
history == <<connections, arrived, delivered>>
vars == <<phase, reason, inbox, pending, seen, order, lastSeen, pendingPing,
          sinceMsg, sincePing, alive, owed, frames, connections, arrived,
          delivered>>

Sigs(notes) == [i \in DOMAIN notes |-> SigOf[notes[i]]]

(***************************************************************************)
(* DeduplicationSet::insert and parse_logs_notification                    *)
(***************************************************************************)

Evicts == Cardinality(seen) >= DedupSize /\ order # <<>>

\* Variant: the set is full one signature too late.
InsertOneMore(s) ==
  /\ seen' = (IF Cardinality(seen) > DedupSize THEN seen \ {Head(order)} ELSE seen)
               \union {s}
  /\ order' = Append(IF Cardinality(seen) > DedupSize THEN Tail(order) ELSE order, s)

Insert(s) ==
  /\ seen' = (IF Evicts THEN seen \ {Head(order)} ELSE seen) \union {s}
  /\ order' = Append(IF Evicts THEN Tail(order) ELSE order, s)

\* Variant: insert's answer is ignored.
AlwaysNew(n) == TRUE

IsNew(n) == SigOf[n] \notin seen

\* Variant: the cursor is moved after the duplicate check.
AdvanceIfNew(n) == IF SlotOf[n] > lastSeen /\ IsNew(n) THEN SlotOf[n] ELSE lastSeen

Advance(n) == IF SlotOf[n] > lastSeen THEN SlotOf[n] ELSE lastSeen

Close(why) == phase' = "closed" /\ reason' = why

\* An event ends next(); a duplicate or any other frame continues its loop; an
\* error the server pushes is a disconnect.
Parse(f) ==
  /\ lastSeen' = IF f \in Note THEN Advance(f) ELSE lastSeen
  /\ IF f \in Note /\ IsNew(f)
     THEN /\ Insert(SigOf[f])
          /\ delivered' = Append(delivered, f)
          /\ phase' = "idle" /\ UNCHANGED reason
     ELSE /\ UNCHANGED <<seen, order, delivered>>
          /\ IF f = "error" THEN Close("error") ELSE UNCHANGED <<phase, reason>>

(***************************************************************************)
(* subscribe and do_handshake                                              *)
(***************************************************************************)

\* WsTransactionStream::new, unsubscribe and reset_session_state: a new stream
\* has an empty deduplication set, no cursor and no buffered frame.
Subscribe ==
  /\ phase \in {"off", "closed"}
  /\ connections < MaxConnections
  /\ phase' = "handshake" /\ reason' = "none"
  /\ inbox' = <<>> /\ pending' = <<>>
  /\ seen' = {} /\ order' = <<>> /\ lastSeen' = 0
  /\ pendingPing' = FALSE /\ sinceMsg' = 0 /\ sincePing' = 0
  /\ alive' = TRUE /\ owed' = FALSE
  /\ connections' = connections + 1
  /\ arrived' = <<>> /\ delivered' = <<>>
  /\ UNCHANGED frames

\* Variant: a notification that overtakes the answer is skipped.
BufferNothing(f) == UNCHANGED pending

Buffer(f) == pending' = Append(pending, f)

IsNotification(f) == f \in Note

\* A notification is buffered, the answer opens the stream, an error answer, an
\* unparsable text or the end of the connection fails it, the rest is ignored.
HandshakeFrame ==
  /\ phase = "handshake"
  /\ inbox # <<>>
  /\ LET f == Head(inbox)
     IN /\ inbox' = Tail(inbox)
        /\ IF IsNotification(f)
           THEN Buffer(f) /\ arrived' = Append(arrived, f)
           ELSE UNCHANGED <<pending, arrived>>
        /\ CASE f = "ack" -> phase' = "idle" /\ sinceMsg' = 0 /\ UNCHANGED reason
             [] f \in {"error", "garbled", "close"} -> Close("handshake") /\ UNCHANGED sinceMsg
             [] OTHER -> UNCHANGED <<phase, reason, sinceMsg>>
  /\ UNCHANGED <<seen, order, lastSeen, pendingPing, sincePing, server,
                 connections, delivered>>

\* The connection cannot be made, the request not be sent, or the time is up.
\* timeout() polls the handshake first: it expires only while nothing is readable.
HandshakeTimeout ==
  /\ phase = "handshake"
  /\ inbox = <<>>
  /\ Close("handshake")
  /\ UNCHANGED <<inbox, pending, seen, order, lastSeen, pendingPing, sinceMsg, sincePing,
                 server, history>>

(***************************************************************************)
(* next                                                                    *)
(***************************************************************************)

CallNext ==
  /\ phase = "idle"
  /\ phase' = "next"
  /\ UNCHANGED <<reason, inbox, pending, seen, order, lastSeen, pendingPing, sinceMsg,
                 sincePing, server, history>>

\* Variant: a frame on the socket comes before the buffered ones.
ReplaysWhenQuiet == pending # <<>> /\ inbox = <<>>

Replays == pending # <<>>

\* The frames buffered by the handshake come before the socket.
ReplayFrame ==
  /\ phase = "next"
  /\ Replays
  /\ pending' = Tail(pending)
  /\ Parse(Head(pending))
  /\ UNCHANGED <<inbox, pendingPing, sinceMsg, sincePing, server, connections, arrived>>

\* Only a pong clears pending_ping; text, ping and pong restart the ping interval.
ReadFrame ==
  /\ phase = "next"
  /\ ~Replays
  /\ inbox # <<>>
  /\ LET f == Head(inbox)
     IN /\ inbox' = Tail(inbox)
        /\ arrived' = IF f \in Note THEN Append(arrived, f) ELSE arrived
        /\ IF f = "close"
           THEN /\ Close("close")
                /\ UNCHANGED <<seen, order, lastSeen, delivered, pendingPing, sinceMsg>>
           ELSE /\ Parse(f)
                /\ pendingPing' = (pendingPing /\ f # "pong")
                /\ sinceMsg' = IF f = "binary" THEN sinceMsg ELSE 0
  /\ UNCHANGED <<pending, sincePing, server, connections>>

\* next_deadline
DeadlinePassed ==
  IF pendingPing THEN sincePing >= PongTimeout ELSE sinceMsg >= PingInterval

\* Variant: the select is not biased.
TimerFiresUnbiased == ~Replays /\ DeadlinePassed

\* The select is biased: the timer wins only when no frame is ready.
TimerFires == ~Replays /\ inbox = <<>> /\ DeadlinePassed

\* Variant: every deadline sends another ping.
NeverLate == FALSE

PongIsLate == pendingPing

\* The first deadline sends a ping, the next one without a pong is a disconnect.
Heartbeat ==
  /\ phase = "next"
  /\ TimerFires
  /\ IF PongIsLate
     THEN Close("pongTimeout") /\ UNCHANGED <<pendingPing, sincePing, owed>>
     ELSE pendingPing' = TRUE /\ sincePing' = 0 /\ owed' = TRUE /\ UNCHANGED <<phase, reason>>
  /\ UNCHANGED <<inbox, pending, seen, order, lastSeen, sinceMsg, alive, frames, history>>

\* The ping cannot be sent: the connection is gone.
PingFails ==
  /\ phase = "next"
  /\ TimerFires
  /\ ~pendingPing
  /\ ~alive
  /\ Close("close")
  /\ UNCHANGED <<inbox, pending, seen, order, lastSeen, pendingPing, sinceMsg, sincePing,
                 server, history>>

\* A ping of the server cannot be answered, in the handshake or in next().
PongFails ==
  /\ phase = "handshake" \/ (phase = "next" /\ ~Replays)
  /\ inbox # <<>> /\ Head(inbox) = "ping"
  /\ ~alive
  /\ inbox' = Tail(inbox)
  /\ Close(IF phase = "handshake" THEN "handshake" ELSE "close")
  /\ UNCHANGED <<pending, seen, order, lastSeen, pendingPing, sinceMsg, sincePing, server,
                 history>>

\* stream_events ends for another reason than the stream (cancellation, a failed
\* fetch or write): run_streaming returns, which drops the stream.
DropStream ==
  /\ phase = "idle"
  /\ Close("dropped")
  /\ UNCHANGED <<inbox, pending, seen, order, lastSeen, pendingPing, sinceMsg, sincePing,
                 server, history>>

(***************************************************************************)
(* The server, the network and the clock                                   *)
(***************************************************************************)

Send(f) ==
  /\ phase \in {"handshake", "idle", "next"}
  /\ alive
  /\ frames < MaxFrames
  /\ Len(inbox) < MaxInFlight
  /\ inbox' = Append(inbox, f)
  /\ frames' = frames + 1
  /\ UNCHANGED <<phase, reason, pending, seen, order, lastSeen, pendingPing, sinceMsg,
                 sincePing, alive, owed, history>>

Pong ==
  /\ phase \in {"idle", "next"}
  /\ alive
  /\ owed
  /\ owed' = FALSE
  /\ inbox' = Append(inbox, "pong")
  /\ UNCHANGED <<phase, reason, pending, seen, order, lastSeen, pendingPing, sinceMsg,
                 sincePing, alive, frames, history>>

\* The server or the path to it dies without closing the connection.
Die ==
  /\ phase \in {"handshake", "idle", "next"}
  /\ alive
  /\ alive' = FALSE
  /\ UNCHANGED <<phase, reason, inbox, pending, seen, order, lastSeen, pendingPing, sinceMsg,
                 sincePing, owed, frames, history>>

UpTo(bound, n) == IF n < bound THEN n + 1 ELSE bound

Tick ==
  /\ phase \in {"idle", "next"}
  /\ sinceMsg' = UpTo(PingInterval, sinceMsg)
  /\ sincePing' = UpTo(PongTimeout, sincePing)
  /\ UNCHANGED <<phase, reason, inbox, pending, seen, order, lastSeen, pendingPing, server,
                 history>>

(***************************************************************************)
(* Specification                                                           *)
(***************************************************************************)

Init ==
  /\ phase = "off" /\ reason = "none"
  /\ inbox = <<>> /\ pending = <<>>
  /\ seen = {} /\ order = <<>> /\ lastSeen = 0
  /\ pendingPing = FALSE /\ sinceMsg = 0 /\ sincePing = 0
  /\ alive = TRUE /\ owed = FALSE
  /\ frames = 0 /\ connections = 0
  /\ arrived = <<>> /\ delivered = <<>>

ClientStep ==
  HandshakeFrame \/ HandshakeTimeout \/ CallNext \/ ReplayFrame \/ ReadFrame \/ Heartbeat

Next ==
  \/ Subscribe \/ ClientStep \/ PingFails \/ PongFails \/ DropStream
  \/ (\E f \in Frame : Send(f)) \/ Pong \/ Die \/ Tick

Spec == Init /\ [][Next]_vars

\* The runtime polls the stream and fires its timers, stream_events calls next()
\* again once it has handled an event, and time passes.  Nothing is assumed of
\* the server.
FairSpec == Spec /\ WF_vars(ClientStep) /\ WF_vars(Tick)

(***************************************************************************)
(* Properties                                                              *)
(***************************************************************************)

\* The types of the variables; only notifications are ever buffered.
WsTypeOK ==
  /\ phase \in {"off", "handshake", "idle", "next", "closed"}
  /\ reason \in {"none", "handshake", "close", "error", "pongTimeout", "dropped"}
  /\ inbox \in Seq(Frame) /\ pending \in Seq(Note)
  /\ seen \subseteq Sig /\ order \in Seq(Sig)
  /\ lastSeen \in Nat
  /\ pendingPing \in BOOLEAN /\ alive \in BOOLEAN /\ owed \in BOOLEAN
  /\ sinceMsg \in 0..PingInterval /\ sincePing \in 0..PongTimeout
  /\ frames \in 0..MaxFrames /\ connections \in 0..MaxConnections
  /\ arrived \in Seq(Note) /\ delivered \in Seq(Note)

\* DeduplicationSet: the hash set and the eviction queue hold the same
\* signatures, the queue holds none twice, they are the newest of the returned
\* events, and there are never more than dedup_cache_size of them.
DedupIsWindow ==
  /\ seen = ToSet(order)
  /\ Len(order) <= DedupSize
  /\ IsSuffix(order, Sigs(delivered))
  /\ IsInjective(order)

\* A signature is returned a second time on a connection only after
\* dedup_cache_size other events were returned since the first time.
NoDuplicateInWindow ==
  \A i, k \in DOMAIN delivered :
    i < k /\ SigOf[delivered[i]] = SigOf[delivered[k]] => k - i > DedupSize

FirstIndex(q, s) == CHOOSE i \in DOMAIN q : q[i] = s /\ \A k \in 1..(i - 1) : q[k] # s

\* No notification read from the socket is lost, whether it came during the
\* handshake or later: it has been returned or still waits in pending_frames, and
\* signatures are first returned in the order in which they first arrived.
ArrivalsAreDelivered ==
  LET came == Sigs(arrived)
      gone == Sigs(delivered)
  IN /\ ToSet(came) = ToSet(gone) \union ToSet(Sigs(pending))
     /\ \A s \in ToSet(gone), t \in ToSet(came) :
          FirstIndex(came, t) < FirstIndex(came, s) =>
            t \in ToSet(gone) /\ FirstIndex(gone, t) < FirstIndex(gone, s)

\* The notifications next() has parsed: those that arrived, less the buffered.
Parsed == Len(arrived) - Len(pending)

\* last_seen_slot is the largest slot of the notifications next() has parsed, the
\* duplicates included: the gap filled after a disconnect starts from it.
CursorIsLargestParsed ==
  LET parsed == {SlotOf[arrived[i]] : i \in 1..Parsed}
  IN /\ \A n \in parsed : n <= lastSeen
     /\ lastSeen # 0 => lastSeen \in parsed

\* A stream is dropped for a missing pong only when there is none to read: one
\* that arrived while the consumer was busy past the deadline is honoured.
PongTimeoutIsReal == reason = "pongTimeout" => "pong" \notin ToSet(inbox)

\* The stream implements the feed of Feed: the buffer of the handshake, the
\* deduplication set with its eviction queue, the heartbeat and the frames of
\* other kinds do not show in what next() returns and in last_seen_slot.
F == INSTANCE Feed WITH Window <- DedupSize, taken <- Parsed, cursor <- lastSeen

ImplementsFeed == F!FeedSpec

\* A server that falls silent without closing the connection is noticed: next()
\* fails, so that run_streaming reconnects.
SilenceIsNoticed ==
  (phase \in {"idle", "next"} /\ ~alive) ~> (phase = "closed")
=============================================================================
