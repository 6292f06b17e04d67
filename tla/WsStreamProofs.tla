--------------------------- MODULE WsStreamProofs ---------------------------
(***************************************************************************)
(* Proofs about WsStream, for every set of notifications, every size of    *)
(* the deduplication set and every bound: the deduplication set is the     *)
(* window it stands for, no notification is lost or returned out of order, *)
(* the cursor is exact, a missing pong is really missing, and the stream   *)
(* implements the feed of Feed.                                            *)
(***************************************************************************)
EXTENDS WsStream, TLAPS, SequenceTheorems, FiniteSetTheorems, WellFoundedInduction

(***************************************************************************)
(* The inductive invariant                                                 *)
(***************************************************************************)

\* pending_frames is the end of what has arrived: next() has parsed the rest.
PendingIsTail ==
  /\ Len(pending) <= Len(arrived)
  /\ \A k \in 1..Len(pending) : pending[k] = arrived[Parsed + k]

\* The eviction queue is the end of the returned events, as long as it may be.
QueueIsTail ==
  /\ Len(order) <= DedupSize /\ Len(order) <= Len(delivered)
  /\ Len(order) = DedupSize \/ Len(order) = Len(delivered)
  /\ \A i \in 1..Len(order) :
       order[i] = SigOf[delivered[Len(delivered) - Len(order) + i]]

\* The hash set holds what the queue holds, and the queue holds nothing twice.
SetIsQueue ==
  /\ IsFiniteSet(seen) /\ Cardinality(seen) = Len(order)
  /\ \A s \in seen : \E i \in 1..Len(order) : order[i] = s
  /\ \A i \in 1..Len(order) : order[i] \in seen
  /\ \A i, k \in 1..Len(order) : order[i] = order[k] => i = k

ReturnedBefore(k, s) == \E m \in 1..(k - 1) : SigOf[delivered[m]] = s

\* Whatever next() has parsed has been returned.
ParsedAreReturned ==
  \A i \in 1..Parsed : ReturnedBefore(Len(delivered) + 1, SigOf[arrived[i]])

\* An event comes from a parsed notification, and the signature of everything
\* that arrived before that one was returned before the event.
EventsComeInOrder ==
  \A k \in 1..Len(delivered) :
    \E i \in 1..Parsed :
      /\ SigOf[arrived[i]] = SigOf[delivered[k]]
      /\ \A j \in 1..(i - 1) : ReturnedBefore(k, SigOf[arrived[j]])

CursorIsExact ==
  /\ \A i \in 1..Parsed : SlotOf[arrived[i]] <= lastSeen
  /\ lastSeen # 0 => \E i \in 1..Parsed : SlotOf[arrived[i]] = lastSeen

\* Only a stream with an empty socket is closed for a missing pong.
TimedOutIsSilent == reason = "pongTimeout" => phase = "closed" /\ inbox = <<>>

\* What depends on the parsed notifications only.
ParsedInv ==
  /\ QueueIsTail /\ SetIsQueue /\ NoDuplicateInWindow
  /\ ParsedAreReturned /\ EventsComeInOrder /\ CursorIsExact

WsInv == WsTypeOK /\ PendingIsTail /\ ParsedInv /\ TimedOutIsSilent

(***************************************************************************)
(* Types                                                                   *)
(***************************************************************************)

\* Parsing a frame keeps the types of what it touches.
LEMMA ParseType ==
  ASSUME WsTypeOK, NEW f, Parse(f), phase = "next"
  PROVE  /\ phase' \in {"next", "idle", "closed"}
         /\ reason' \in {reason, "error"}
         /\ seen' \subseteq Sig /\ order' \in Seq(Sig)
         /\ lastSeen' \in Nat /\ delivered' \in Seq(Note)
<1>1. lastSeen' \in Nat
  BY NotesAreTyped DEF WsTypeOK, Parse, Advance
<1>2. CASE f \in Note /\ IsNew(f)
  <2>1. SigOf[f] \in Sig
    BY <1>2, NotesAreTyped
  <2>2. seen' \subseteq Sig /\ phase' = "idle" /\ reason' = reason
    BY <1>2, <2>1 DEF WsTypeOK, Parse, Insert
  <2>3. (IF Evicts THEN Tail(order) ELSE order) \in Seq(Sig)
    BY DEF WsTypeOK, Evicts
  <2>4. order' \in Seq(Sig)
    <3>1. order' = Append(IF Evicts THEN Tail(order) ELSE order, SigOf[f])
      BY <1>2 DEF Parse, Insert
    <3> QED BY <2>1, <2>3, <3>1, AppendProperties
  <2>5. delivered' = Append(delivered, f) /\ delivered \in Seq(Note)
    BY <1>2 DEF WsTypeOK, Parse
  <2>6. delivered' \in Seq(Note)
    BY <1>2, <2>5, AppendProperties
  <2> QED BY <1>1, <2>2, <2>4, <2>6
<1>3. CASE ~(f \in Note /\ IsNew(f))
  BY <1>1, <1>3 DEF WsTypeOK, Parse, Close
<1> QED BY <1>2, <1>3

\* The first frame of the socket is a frame, and so is the rest.
LEMMA InboxType ==
  ASSUME WsTypeOK, inbox # <<>>
  PROVE  Head(inbox) \in Frame /\ Tail(inbox) \in Seq(Frame)
BY DEF WsTypeOK

\* WsTypeOK is kept by every step.
LEMMA TypeStep ==
  ASSUME WsTypeOK, [Next]_vars
  PROVE  WsTypeOK'
<1> USE DedupSizeNonZero, TimeoutsNonZero, BoundsAreNaturals
<1>1. CASE Subscribe
  <2>1. /\ inbox' \in Seq(Frame) /\ pending' \in Seq(Note) /\ order' \in Seq(Sig)
        /\ arrived' \in Seq(Note) /\ delivered' \in Seq(Note)
    BY <1>1, EmptySeq DEF Subscribe
  <2>2. /\ connections' \in 0..MaxConnections /\ frames' \in 0..MaxFrames
        /\ sinceMsg' \in 0..PingInterval /\ sincePing' \in 0..PongTimeout
        /\ lastSeen' \in Nat
    BY <1>1 DEF WsTypeOK, Subscribe
  <2> QED BY <1>1, <2>1, <2>2, Zenon DEF WsTypeOK, Subscribe
<1>2. CASE HandshakeFrame
  <2>1. Head(inbox) \in Frame /\ inbox' \in Seq(Frame)
    BY <1>2, InboxType DEF HandshakeFrame
  <2>2. pending' \in Seq(Note) /\ arrived' \in Seq(Note)
    <3>1. CASE Head(inbox) \in Note
      <4>1. pending' = Append(pending, Head(inbox)) /\ arrived' = Append(arrived, Head(inbox))
        BY <1>2, <3>1, Zenon DEF HandshakeFrame, IsNotification, Buffer
      <4> QED BY <3>1, <4>1, AppendProperties, Zenon DEF WsTypeOK
    <3>2. CASE Head(inbox) \notin Note
      BY <1>2, <3>2 DEF WsTypeOK, HandshakeFrame, IsNotification
    <3> QED BY <3>1, <3>2
  <2>3. /\ phase' \in {"handshake", "idle", "closed"} /\ reason' \in {reason, "handshake"}
        /\ sinceMsg' \in {sinceMsg, 0}
    BY <1>2 DEF HandshakeFrame, Close
  <2>4. sinceMsg' \in 0..PingInterval
    BY <2>3 DEF WsTypeOK
  <2>5. UNCHANGED <<seen, order, lastSeen, pendingPing, sincePing, alive, owed, frames,
                    connections, delivered>>
    BY <1>2 DEF HandshakeFrame, server
  <2> QED BY <2>1, <2>2, <2>3, <2>4, <2>5, Zenon DEF WsTypeOK
<1>3. CASE HandshakeTimeout
  BY <1>3 DEF WsTypeOK, HandshakeTimeout, Close, server, history
<1>4. CASE CallNext
  BY <1>4 DEF WsTypeOK, CallNext, server, history
<1>5. CASE ReplayFrame
  <2>1. pending' \in Seq(Note)
    BY <1>5 DEF WsTypeOK, ReplayFrame, Replays
  <2> QED BY <1>5, <2>1, ParseType DEF WsTypeOK, ReplayFrame, server
<1>6. CASE ReadFrame
  <2>1. Head(inbox) \in Frame /\ inbox' \in Seq(Frame)
    BY <1>6, InboxType, Zenon DEF ReadFrame
  <2>2. arrived' \in Seq(Note)
    BY <1>6, <2>1, AppendProperties, Zenon DEF WsTypeOK, ReadFrame
  <2>3. CASE Head(inbox) = "close"
    BY <1>6, <2>1, <2>2, <2>3, Zenon DEF WsTypeOK, ReadFrame, Close, server
  <2>4. CASE Head(inbox) # "close"
    BY <1>6, <2>1, <2>2, <2>4, ParseType DEF WsTypeOK, ReadFrame, server
  <2> QED BY <2>3, <2>4
<1>7. CASE Heartbeat
  <2>1. /\ phase' \in {phase, "closed"} /\ reason' \in {reason, "pongTimeout"}
        /\ sincePing' \in {sincePing, 0}
    BY <1>7 DEF Heartbeat, Close
  <2>2. pendingPing' \in BOOLEAN /\ owed' \in BOOLEAN
    BY <1>7, Zenon DEF WsTypeOK, Heartbeat
  <2>3. UNCHANGED <<inbox, pending, seen, order, lastSeen, sinceMsg, alive, frames, connections,
                    arrived, delivered>>
    BY <1>7 DEF Heartbeat, history
  <2>4. sincePing' \in 0..PongTimeout
    BY <2>1 DEF WsTypeOK
  <2> QED BY <2>1, <2>2, <2>3, <2>4 DEF WsTypeOK
<1>8. CASE PingFails
  BY <1>8 DEF WsTypeOK, PingFails, Close, server, history
<1>9. CASE PongFails
  BY <1>9 DEF WsTypeOK, PongFails, Close, server, history
<1>10. CASE DropStream
  BY <1>10 DEF WsTypeOK, DropStream, Close, server, history
<1>11. CASE \E f \in Frame : Send(f)
  BY <1>11, AppendProperties DEF WsTypeOK, Send, history
<1>12. CASE Pong
  BY <1>12, AppendProperties, Zenon DEF WsTypeOK, Pong, history, Frame, Control
<1>13. CASE Die
  BY <1>13, Zenon DEF WsTypeOK, Die, history
<1>14. CASE Tick
  BY <1>14 DEF WsTypeOK, Tick, UpTo, server, history
<1>15. CASE UNCHANGED vars
  BY <1>15 DEF WsTypeOK, vars
<1> QED BY <1>1, <1>2, <1>3, <1>4, <1>5, <1>6, <1>7, <1>8, <1>9, <1>10, <1>11, <1>12,
           <1>13, <1>14, <1>15, Zenon DEF Next, ClientStep

(***************************************************************************)
(* The deduplication set                                                   *)
(***************************************************************************)

\* insert evicts exactly when the queue is full.
LEMMA EvictsWhenFull ==
  ASSUME WsTypeOK, QueueIsTail, SetIsQueue
  PROVE  Evicts <=> Len(order) = DedupSize
<1>1. Len(order) \in Nat /\ (order # <<>> <=> Len(order) # 0)
  BY EmptySeq DEF WsTypeOK
<1> QED BY <1>1, DedupSizeNonZero DEF QueueIsTail, SetIsQueue, Evicts

\* What insert does to the queue: all of it moves up when one is evicted, and the
\* new signature comes last.
LEMMA QueueAfterInsert ==
  ASSUME WsTypeOK, QueueIsTail, SetIsQueue, NEW s \in Sig, Insert(s)
  PROVE  LET out == IF Len(order) = DedupSize THEN 1 ELSE 0
         IN /\ Len(order') = Len(order) + 1 - out
            /\ \A i \in 1..(Len(order) - out) : order'[i] = order[i + out]
            /\ order'[Len(order) + 1 - out] = s
            /\ out = 1 => Len(order) >= 1
<1>1. order \in Seq(Sig) /\ Len(order) \in Nat /\ DedupSize \in Nat \ {0}
  BY DedupSizeNonZero DEF WsTypeOK
<1>2. CASE Len(order) = DedupSize
  <2>1. order # <<>> /\ order' = Append(Tail(order), s)
    BY <1>1, <1>2, EvictsWhenFull, EmptySeq, Zenon DEF Insert
  <2>2. /\ Tail(order) \in Seq(Sig) /\ Len(Tail(order)) = Len(order) - 1
        /\ \A i \in 1..(Len(order) - 1) : Tail(order)[i] = order[i + 1]
    BY <1>1, <2>1, HeadTailProperties
  <2> HIDE <2>1
  <2>3. PICK q : q = Tail(order)
    BY Zenon
  <2>4. order' = Append(q, s) /\ q \in Seq(Sig) /\ Len(q) = Len(order) - 1
    BY <2>1, <2>2, <2>3, Zenon
  <2>5. /\ Len(order') = Len(q) + 1 /\ order'[Len(q) + 1] = s
        /\ \A i \in 1..Len(q) : order'[i] = q[i]
    BY <2>4, AppendProperties
  <2> QED BY <1>1, <1>2, <2>2, <2>3, <2>4, <2>5
<1>3. CASE Len(order) # DedupSize
  <2>1. order' = Append(order, s)
    BY <1>1, <1>3, EvictsWhenFull, Zenon DEF Insert
  <2>2. /\ Len(order') = Len(order) + 1 /\ order'[Len(order) + 1] = s
        /\ \A i \in 1..Len(order) : order'[i] = order[i]
    BY <1>1, <2>1, AppendProperties
  <2> QED BY <1>1, <1>3, <2>2
<1> QED BY <1>2, <1>3

\* Returning an event and inserting its signature keeps the queue the end of the
\* returned events.
LEMMA InsertKeepsTail ==
  ASSUME WsTypeOK, QueueIsTail, SetIsQueue, NEW n \in Note, Insert(SigOf[n]),
         delivered' = Append(delivered, n)
  PROVE  QueueIsTail'
<1>1. SigOf[n] \in Sig /\ DedupSize \in Nat \ {0}
  BY NotesAreTyped, DedupSizeNonZero
<1>2. PICK out \in {0, 1} :
        /\ out = IF Len(order) = DedupSize THEN 1 ELSE 0
        /\ Len(order') = Len(order) + 1 - out
        /\ \A i \in 1..(Len(order) - out) : order'[i] = order[i + out]
        /\ order'[Len(order) + 1 - out] = SigOf[n]
  BY <1>1, QueueAfterInsert
<1>3. /\ Len(delivered') = Len(delivered) + 1 /\ delivered'[Len(delivered) + 1] = n
      /\ \A i \in 1..Len(delivered) : delivered'[i] = delivered[i]
  BY AppendProperties DEF WsTypeOK
<1>4. Len(order) \in Nat /\ Len(delivered) \in Nat
  BY DEF WsTypeOK
<1>5. /\ Len(order') <= DedupSize /\ Len(order') <= Len(delivered')
      /\ Len(order') = DedupSize \/ Len(order') = Len(delivered')
  BY <1>1, <1>2, <1>3, <1>4 DEF QueueIsTail
<1>6. ASSUME NEW i \in 1..Len(order')
      PROVE  order'[i] = SigOf[delivered'[Len(delivered') - Len(order') + i]]
  <2>1. CASE i = Len(order')
    BY <1>2, <1>3, <1>4, <2>1
  <2>2. CASE i # Len(order')
    <3>1. i \in 1..(Len(order) - out) /\ i + out \in 1..Len(order)
      BY <1>2, <1>4, <2>2
    <3>2. PICK k \in 1..Len(order) : k = i + out
      BY <3>1
    <3>3. order'[i] = order[k]
      BY <1>2, <3>1, <3>2, Zenon
    <3>4. order[k] = SigOf[delivered[Len(delivered) - Len(order) + k]]
      BY DEF QueueIsTail
    <3>5. /\ Len(delivered) - Len(order) + k \in 1..Len(delivered)
          /\ Len(delivered) - Len(order) + k = Len(delivered') - Len(order') + i
      <4>1. Len(order) <= Len(delivered)
        BY DEF QueueIsTail
      <4>2. Len(order') = Len(order) + 1 - out /\ Len(delivered') = Len(delivered) + 1
        BY <1>2, <1>3
      <4> QED BY <1>4, <3>2, <4>1, <4>2
    <3> QED BY <1>3, <3>3, <3>4, <3>5, Zenon
  <2> QED BY <2>1, <2>2, Zenon
<1> QED BY <1>5, <1>6, Zenon DEF QueueIsTail

\* Inserting a signature that is not in the set keeps the set and the queue equal.
LEMMA InsertKeepsSet ==
  ASSUME WsTypeOK, QueueIsTail, SetIsQueue, NEW s \in Sig, s \notin seen, Insert(s)
  PROVE  SetIsQueue'
<1>1. PICK out \in {0, 1} :
        /\ out = IF Len(order) = DedupSize THEN 1 ELSE 0
        /\ Len(order') = Len(order) + 1 - out
        /\ \A i \in 1..(Len(order) - out) : order'[i] = order[i + out]
        /\ order'[Len(order) + 1 - out] = s
        /\ out = 1 => Len(order) >= 1
  BY QueueAfterInsert, Zenon
<1>2. Len(order) \in Nat
  BY DEF WsTypeOK
<1>3. PICK kept : kept = IF out = 1 THEN seen \ {order[1]} ELSE seen
  BY Zenon
<1>4. seen' = kept \union {s}
  <2>1. out = 1 => Head(order) = order[1]
    OBVIOUS
  <2> QED BY <1>1, <1>3, <2>1, EvictsWhenFull DEF Insert
<1>5. IsFiniteSet(kept) /\ Cardinality(kept) = Len(order) - out
  <2>1. CASE out = 1
    <3>1. order[1] \in seen
      BY <1>1, <1>2, <2>1 DEF SetIsQueue
    <3> QED BY <1>3, <2>1, <3>1, FS_RemoveElement, Zenon DEF SetIsQueue
  <2>2. CASE out = 0
    BY <1>2, <1>3, <2>2 DEF SetIsQueue
  <2> QED BY <2>1, <2>2
<1>6. s \notin kept
  BY <1>3
<1>7. IsFiniteSet(seen') /\ Cardinality(seen') = Len(order')
  <2>1. IsFiniteSet(seen') /\ Cardinality(seen') = Cardinality(kept) + 1
    BY <1>4, <1>5, <1>6, FS_AddElement, Zenon
  <2> QED BY <1>1, <1>2, <1>5, <2>1
<1>8. \A t \in kept : \E i \in 1..(Len(order) - out) : order'[i] = t
  <2> SUFFICES ASSUME NEW t \in kept
               PROVE  \E i \in 1..(Len(order) - out) : order'[i] = t
    OBVIOUS
  <2>1. PICK k \in 1..Len(order) : order[k] = t
    BY <1>3 DEF SetIsQueue
  <2>2. k - out \in 1..(Len(order) - out)
    BY <1>1, <1>2, <1>3, <2>1
  <2>3. order'[k - out] = order[(k - out) + out] /\ (k - out) + out = k
    BY <1>1, <1>2, <2>2
  <2>4. order'[k - out] = t
    BY <2>1, <2>3
  <2> QED BY <2>2, <2>4
<1>9. \A i \in 1..(Len(order) - out) : order'[i] \in kept
  <2> SUFFICES ASSUME NEW i \in 1..(Len(order) - out)
               PROVE  order'[i] \in kept
    OBVIOUS
  <2>1. i + out \in 1..Len(order) /\ order'[i] = order[i + out]
    BY <1>1, <1>2
  <2>2. out = 1 => order[i + out] # order[1]
    BY <1>1, <1>2, <2>1 DEF SetIsQueue
  <2> QED BY <1>3, <2>1, <2>2 DEF SetIsQueue
<1>10. \A t \in seen' : \E i \in 1..Len(order') : order'[i] = t
  BY <1>1, <1>2, <1>4, <1>8
<1>11. \A i \in 1..Len(order') : order'[i] \in seen'
  BY <1>1, <1>2, <1>4, <1>9
<1>12. \A i, k \in 1..Len(order') : order'[i] = order'[k] => i = k
  <2> SUFFICES ASSUME NEW i \in 1..Len(order'), NEW k \in 1..Len(order'),
                      order'[i] = order'[k], i < k
               PROVE  FALSE
    BY <1>1, <1>2
  <2>1. i \in 1..(Len(order) - out) /\ order'[i] = order[i + out] /\ order'[i] # s
    BY <1>1, <1>2, <1>6, <1>9
  <2>2. k # Len(order')
    BY <1>1, <2>1, Zenon
  <2>3. k \in 1..(Len(order) - out)
    BY <1>1, <1>2, <2>2
  <2>4. order'[k] = order[k + out]
    BY <1>1, <2>3
  <2>5. i + out \in 1..Len(order) /\ k + out \in 1..Len(order)
    BY <1>1, <1>2, <2>1, <2>3
  <2>6. i + out = k + out
    BY <2>1, <2>4, <2>5, Zenon DEF SetIsQueue
  <2> QED BY <1>1, <1>2, <2>6
<1> QED BY <1>7, <1>10, <1>11, <1>12, Zenon DEF SetIsQueue

(***************************************************************************)
(* Parsing one more notification                                           *)
(***************************************************************************)

\* A step keeps the notifications parsed before it.
KeepsParsed == \A i \in 1..Parsed : arrived'[i] = arrived[i]

\* A step parses notification n.
ParsesNote(n) == Parsed' = Parsed + 1 /\ KeepsParsed /\ arrived'[Parsed + 1] = n

\* A step that parses nothing and returns nothing keeps ParsedInv.
LEMMA FrameParsedInv ==
  ASSUME WsTypeOK, PendingIsTail, ParsedInv, Parsed' = Parsed, KeepsParsed,
         UNCHANGED <<seen, order, delivered, lastSeen>>
  PROVE  ParsedInv'
<1>1. QueueIsTail' /\ SetIsQueue' /\ NoDuplicateInWindow'
  BY DEF ParsedInv, QueueIsTail, SetIsQueue, NoDuplicateInWindow
<1>2. Parsed \in Nat
  BY DEF WsTypeOK, PendingIsTail, Parsed
<1>3. ParsedAreReturned'
  BY DEF ParsedInv, ParsedAreReturned, ReturnedBefore, KeepsParsed
<1>4. EventsComeInOrder'
  <2> SUFFICES ASSUME NEW k \in 1..Len(delivered)
               PROVE  \E i \in 1..Parsed :
                        /\ SigOf[arrived'[i]] = SigOf[delivered[k]]
                        /\ \A j \in 1..(i - 1) : ReturnedBefore(k, SigOf[arrived'[j]])
    <3>1. \A k, s : ReturnedBefore(k, s)' <=> ReturnedBefore(k, s)
      BY DEF ReturnedBefore
    <3> QED BY <3>1, Zenon DEF EventsComeInOrder
  <2>1. PICK i \in 1..Parsed :
          /\ SigOf[arrived[i]] = SigOf[delivered[k]]
          /\ \A j \in 1..(i - 1) : ReturnedBefore(k, SigOf[arrived[j]])
    BY DEF ParsedInv, EventsComeInOrder
  <2>2. \A j \in 1..(i - 1) : j \in 1..Parsed
    BY <1>2
  <2> QED BY <2>1, <2>2 DEF KeepsParsed
<1>5. CursorIsExact'
  BY DEF ParsedInv, CursorIsExact, KeepsParsed
<1> QED BY <1>1, <1>3, <1>4, <1>5, Zenon DEF ParsedInv

\* Parsing a notification keeps the cursor the largest parsed slot.
LEMMA ParseKeepsCursor ==
  ASSUME WsTypeOK, PendingIsTail, CursorIsExact, NEW n \in Note, ParsesNote(n),
         lastSeen' = Advance(n)
  PROVE  CursorIsExact'
<1>1. Parsed \in Nat /\ lastSeen \in Nat /\ SlotOf[n] \in Nat
  BY NotesAreTyped DEF WsTypeOK, PendingIsTail, Parsed
<1>2. lastSeen <= lastSeen' /\ SlotOf[n] <= lastSeen' /\ lastSeen' \in {lastSeen, SlotOf[n]}
  BY <1>1 DEF Advance
<1>3. /\ Parsed' = Parsed + 1 /\ arrived'[Parsed + 1] = n
      /\ \A i \in 1..Parsed : arrived'[i] = arrived[i]
  BY DEF ParsesNote, KeepsParsed
<1>4. ASSUME NEW i \in 1..Parsed' PROVE SlotOf[arrived'[i]] <= lastSeen'
  <2>1. CASE i = Parsed + 1
    BY <1>2, <1>3, <2>1, Zenon
  <2>2. CASE i # Parsed + 1
    <3>1. i \in 1..Parsed
      BY <1>1, <1>3, <2>2
    <3>2. SlotOf[arrived'[i]] <= lastSeen
      BY <1>3, <3>1 DEF CursorIsExact
    <3>3. arrived[i] \in Note
      BY <3>1 DEF WsTypeOK, PendingIsTail, Parsed
    <3>4. SlotOf[arrived'[i]] \in Nat
      BY <1>3, <3>1, <3>3, NotesAreTyped, Zenon
    <3> QED BY <1>1, <1>2, <3>2, <3>4
  <2> QED BY <2>1, <2>2
<1>5. ASSUME lastSeen' # 0 PROVE \E i \in 1..Parsed' : SlotOf[arrived'[i]] = lastSeen'
  <2>1. CASE lastSeen' = SlotOf[n]
    <3>1. Parsed + 1 \in 1..Parsed'
      BY <1>1, <1>3
    <3> QED BY <1>3, <2>1, <3>1, Zenon
  <2>2. CASE lastSeen' = lastSeen
    <3>1. PICK i \in 1..Parsed : SlotOf[arrived[i]] = lastSeen
      BY <1>5, <2>2, Zenon DEF CursorIsExact
    <3>2. i \in 1..Parsed' /\ SlotOf[arrived'[i]] = lastSeen
      BY <1>1, <1>3, <3>1
    <3> QED BY <2>2, <3>2, Zenon
  <2> QED BY <1>2, <2>1, <2>2, Zenon
<1> QED BY <1>4, <1>5 DEF CursorIsExact

\* A notification that is not new has the signature of a returned event.
LEMMA SeenIsReturned ==
  ASSUME WsTypeOK, QueueIsTail, SetIsQueue, NEW s \in seen
  PROVE  \E k \in 1..Len(delivered) :
           SigOf[delivered[k]] = s /\ k > Len(delivered) - DedupSize
<1>1. PICK i \in 1..Len(order) : order[i] = s
  BY DEF SetIsQueue
<1>2. PICK k : k = Len(delivered) - Len(order) + i
  OBVIOUS
<1>3. SigOf[delivered[k]] = s
  BY <1>1, <1>2, Zenon DEF QueueIsTail
<1>4. /\ Len(order) <= DedupSize /\ Len(order) <= Len(delivered)
      /\ Len(order) \in Nat /\ Len(delivered) \in Nat /\ DedupSize \in Nat
  BY DedupSizeNonZero DEF QueueIsTail, WsTypeOK
<1>5. k \in 1..Len(delivered) /\ k > Len(delivered) - DedupSize
  BY <1>2, <1>4
<1> QED BY <1>3, <1>5, Zenon

\* What parsing a notification does to the returned events.
LEMMA EventsAfterParse ==
  ASSUME WsTypeOK, QueueIsTail, SetIsQueue, NEW n \in Note, Parse(n)
  PROVE  /\ Len(delivered) \in Nat /\ Len(delivered') \in Nat
         /\ Len(delivered') = Len(delivered) + (IF IsNew(n) THEN 1 ELSE 0)
         /\ \A i \in 1..Len(delivered) : delivered'[i] = delivered[i]
         /\ IsNew(n) => delivered'[Len(delivered) + 1] = n
         /\ ReturnedBefore(Len(delivered) + 1, SigOf[n])'
<1>1. delivered \in Seq(Note) /\ Len(delivered) \in Nat
  BY DEF WsTypeOK
<1>2. CASE IsNew(n)
  <2>1. delivered' = Append(delivered, n)
    BY <1>2 DEF Parse
  <2>2. /\ Len(delivered') = Len(delivered) + 1 /\ delivered'[Len(delivered) + 1] = n
        /\ \A i \in 1..Len(delivered) : delivered'[i] = delivered[i]
    BY <1>1, <2>1, AppendProperties, Zenon
  <2>3. Len(delivered) + 1 \in 1..((Len(delivered') + 1) - 1)
    BY <1>1, <2>2
  <2>4. ReturnedBefore(Len(delivered) + 1, SigOf[n])'
    BY <2>2, <2>3 DEF ReturnedBefore
  <2> QED BY <1>1, <1>2, <2>2, <2>4
<1>3. CASE ~IsNew(n)
  <2>1. delivered' = delivered
    BY <1>3 DEF Parse
  <2>2. PICK k \in 1..Len(delivered) : SigOf[delivered[k]] = SigOf[n]
    BY <1>3, SeenIsReturned DEF IsNew
  <2>3. k \in 1..((Len(delivered') + 1) - 1)
    BY <1>1, <2>1
  <2>4. ReturnedBefore(Len(delivered) + 1, SigOf[n])'
    BY <2>1, <2>2, <2>3, Zenon DEF ReturnedBefore
  <2> QED BY <1>1, <1>3, <2>1, <2>4
<1> QED BY <1>2, <1>3

\* Parsing a notification keeps the two clauses on what has been returned.
LEMMA ParseKeepsEvents ==
  ASSUME WsTypeOK, PendingIsTail, QueueIsTail, SetIsQueue, ParsedAreReturned,
         EventsComeInOrder, NEW n \in Note, Parse(n), ParsesNote(n)
  PROVE  ParsedAreReturned' /\ EventsComeInOrder'
<1>1. /\ Len(delivered) \in Nat /\ Len(delivered') \in Nat
      /\ Len(delivered') = Len(delivered) + (IF IsNew(n) THEN 1 ELSE 0)
      /\ \A i \in 1..Len(delivered) : delivered'[i] = delivered[i]
      /\ IsNew(n) => delivered'[Len(delivered) + 1] = n
      /\ ReturnedBefore(Len(delivered) + 1, SigOf[n])'
  BY EventsAfterParse
<1>2. /\ Parsed \in Nat /\ Parsed' = Parsed + 1 /\ arrived'[Parsed + 1] = n
      /\ \A i \in 1..Parsed : arrived'[i] = arrived[i]
  <2>1. Parsed \in Nat
    BY DEF WsTypeOK, PendingIsTail, Parsed
  <2> QED
    BY <2>1, Zenon DEF ParsesNote, KeepsParsed
<1>3. PICK d : d = Len(delivered)
  BY Zenon
<1>4. ASSUME NEW i \in 1..Parsed
      PROVE  \E m \in 1..d : SigOf[delivered'[m]] = SigOf[arrived'[i]]
  <2>1. PICK m \in 1..((d + 1) - 1) : SigOf[delivered[m]] = SigOf[arrived[i]]
    BY <1>3 DEF ParsedAreReturned, ReturnedBefore
  <2>2. m \in 1..d
    BY <1>1, <1>3
  <2> QED BY <1>1, <1>2, <1>3, <2>1, <2>2, Zenon
<1>5. ParsedAreReturned'
  <2> SUFFICES ASSUME NEW i \in 1..Parsed'
               PROVE  ReturnedBefore(Len(delivered) + 1, SigOf[arrived[i]])'
    BY DEF ParsedAreReturned
  <2>1. CASE i = Parsed + 1
    BY <1>1, <1>2, <2>1, Zenon
  <2>2. CASE i # Parsed + 1
    <3>1. i \in 1..Parsed
      BY <1>2, <2>2
    <3>2. PICK m \in 1..d : SigOf[delivered'[m]] = SigOf[arrived'[i]]
      BY <1>4, <3>1, Zenon
    <3>3. m \in 1..((Len(delivered') + 1) - 1)
      BY <1>1, <1>3
    <3> QED BY <3>2, <3>3, Zenon DEF ReturnedBefore
  <2> QED BY <2>1, <2>2
<1>6. EventsComeInOrder'
  <2> SUFFICES ASSUME NEW k \in 1..Len(delivered')
               PROVE  \E i \in 1..Parsed' :
                        /\ SigOf[arrived'[i]] = SigOf[delivered'[k]]
                        /\ \A j \in 1..(i - 1) :
                             \E m \in 1..(k - 1) : SigOf[delivered'[m]] = SigOf[arrived'[j]]
    BY DEF EventsComeInOrder, ReturnedBefore
  <2>1. CASE k \in 1..d
    <3>1. PICK i \in 1..Parsed :
            /\ SigOf[arrived[i]] = SigOf[delivered[k]]
            /\ \A j \in 1..(i - 1) :
                 \E m \in 1..(k - 1) : SigOf[delivered[m]] = SigOf[arrived[j]]
      BY <1>3, <2>1, Zenon DEF EventsComeInOrder, ReturnedBefore
    <3>2. i \in 1..Parsed' /\ SigOf[arrived'[i]] = SigOf[delivered'[k]]
      BY <1>1, <1>2, <1>3, <2>1, <3>1
    <3>3. ASSUME NEW j \in 1..(i - 1)
          PROVE  \E m \in 1..(k - 1) : SigOf[delivered'[m]] = SigOf[arrived'[j]]
      <4>1. PICK m \in 1..(k - 1) : SigOf[delivered[m]] = SigOf[arrived[j]]
        BY <3>1, Zenon
      <4>2. m \in 1..Len(delivered) /\ j \in 1..Parsed
        BY <1>1, <1>2, <1>3, <2>1
      <4> QED BY <1>1, <1>2, <4>1, <4>2, Zenon
    <3> QED BY <3>2, <3>3, Zenon
  <2>2. CASE k \notin 1..d
    <3>1. IsNew(n) /\ k = d + 1 /\ d \in Nat
      BY <1>1, <1>3, <2>2
    <3>2. Parsed + 1 \in 1..Parsed' /\ SigOf[arrived'[Parsed + 1]] = SigOf[delivered'[k]]
      BY <1>1, <1>2, <1>3, <3>1
    <3>3. \A j \in 1..((Parsed + 1) - 1) : j \in 1..Parsed
      BY <1>2
    <3>4. 1..d = 1..(k - 1)
      BY <3>1
    <3> QED BY <1>4, <3>2, <3>3, <3>4, ZenonT(60)
  <2> QED BY <2>1, <2>2, Zenon
<1> QED BY <1>5, <1>6, Zenon

\* A new event keeps the window of NoDuplicateInWindow.
LEMMA ParseKeepsDistance ==
  ASSUME WsTypeOK, QueueIsTail, SetIsQueue, NoDuplicateInWindow, NEW n \in Note, Parse(n)
  PROVE  NoDuplicateInWindow'
<1>1. /\ Len(delivered) \in Nat
      /\ Len(delivered') = Len(delivered) + (IF IsNew(n) THEN 1 ELSE 0)
      /\ \A i \in 1..Len(delivered) : delivered'[i] = delivered[i]
      /\ IsNew(n) => delivered'[Len(delivered) + 1] = n
  BY EventsAfterParse, Zenon
<1>2. DOMAIN delivered = 1..Len(delivered) /\ DOMAIN delivered' = 1..Len(delivered')
  BY ParseType, <1>1, AppendProperties DEF WsTypeOK, Parse
<1> SUFFICES ASSUME NEW i \in 1..Len(delivered'), NEW k \in 1..Len(delivered'),
                    i < k, SigOf[delivered'[i]] = SigOf[delivered'[k]]
             PROVE  k - i > DedupSize
  BY <1>2 DEF NoDuplicateInWindow
<1>3. i \in 1..Len(delivered)
  BY <1>1
<1>4. CASE k \in 1..Len(delivered)
  BY <1>1, <1>2, <1>3, <1>4, Zenon DEF NoDuplicateInWindow
<1>5. CASE k \notin 1..Len(delivered)
  <2>1. IsNew(n) /\ k = Len(delivered) + 1 /\ SigOf[delivered[i]] = SigOf[n]
    BY <1>1, <1>3, <1>5
  <2>2. Len(order) \in Nat /\ DedupSize \in Nat
    BY DedupSizeNonZero DEF WsTypeOK
  <2>3. ASSUME i > Len(delivered) - Len(order) PROVE FALSE
    <3>1. PICK m : m = i - (Len(delivered) - Len(order))
      OBVIOUS
    <3>2. m \in 1..Len(order) /\ Len(delivered) - Len(order) + m = i
      BY <1>1, <1>3, <2>2, <2>3, <3>1
    <3>3. order[m] = SigOf[n]
      BY <2>1, <3>2 DEF QueueIsTail
    <3> QED BY <2>1, <3>2, <3>3, Zenon DEF SetIsQueue, IsNew
  <2>4. Len(order) = DedupSize \/ Len(order) = Len(delivered)
    BY DEF QueueIsTail
  <2> QED BY <1>1, <1>3, <2>1, <2>2, <2>3, <2>4
<1> QED BY <1>4, <1>5, Zenon

\* Parsing one more notification keeps all of ParsedInv.
LEMMA ParseNoteInv ==
  ASSUME WsTypeOK, PendingIsTail, ParsedInv, NEW n \in Note, Parse(n), ParsesNote(n)
  PROVE  ParsedInv'
<1>1. CursorIsExact' /\ ParsedAreReturned' /\ EventsComeInOrder' /\ NoDuplicateInWindow'
  BY ParseKeepsCursor, ParseKeepsEvents, ParseKeepsDistance, Zenon DEF ParsedInv, Parse
<1>2. QueueIsTail' /\ SetIsQueue'
  <2>1. CASE IsNew(n)
    <3>1. Insert(SigOf[n]) /\ delivered' = Append(delivered, n) /\ SigOf[n] \notin seen
      BY <2>1 DEF Parse, IsNew
    <3>2. SigOf[n] \in Sig
      BY NotesAreTyped, Zenon
    <3> QED BY <3>1, <3>2, InsertKeepsTail, InsertKeepsSet, Zenon DEF ParsedInv
  <2>2. CASE ~IsNew(n)
    <3>1. UNCHANGED <<seen, order, delivered>>
      BY <2>2 DEF Parse
    <3> QED BY <3>1 DEF ParsedInv, QueueIsTail, SetIsQueue
  <2> QED BY <2>1, <2>2
<1> QED BY <1>1, <1>2, Zenon DEF ParsedInv

(***************************************************************************)
(* The invariant is inductive                                              *)
(***************************************************************************)

\* WsInv holds before the first connection.
LEMMA WsInitInv == Init => WsInv
<1> SUFFICES ASSUME Init PROVE WsInv
  OBVIOUS
<1> USE DedupSizeNonZero, TimeoutsNonZero, BoundsAreNaturals
<1>1. WsTypeOK
  <2>1. /\ inbox \in Seq(Frame) /\ pending \in Seq(Note) /\ order \in Seq(Sig)
        /\ arrived \in Seq(Note) /\ delivered \in Seq(Note)
    BY EmptySeq DEF Init
  <2>2. /\ connections \in 0..MaxConnections /\ frames \in 0..MaxFrames
        /\ sinceMsg \in 0..PingInterval /\ sincePing \in 0..PongTimeout
        /\ lastSeen \in Nat
    BY DEF Init
  <2> QED BY <2>1, <2>2, Zenon DEF WsTypeOK, Init
<1>2. Len(order) = 0 /\ Len(delivered) = 0 /\ Len(arrived) = 0 /\ Len(pending) = 0
  BY EmptySeq DEF Init
<1>3. PendingIsTail /\ Parsed = 0
  BY <1>2 DEF PendingIsTail, Parsed
<1>4. QueueIsTail
  BY <1>2 DEF QueueIsTail
<1>5. SetIsQueue
  BY <1>2, FS_EmptySet DEF SetIsQueue, Init
<1>6. NoDuplicateInWindow
  BY <1>2 DEF NoDuplicateInWindow, Init
<1>7. ParsedAreReturned /\ EventsComeInOrder /\ CursorIsExact
  BY <1>2, <1>3 DEF ParsedAreReturned, EventsComeInOrder, CursorIsExact, Init
<1> QED BY <1>1, <1>3, <1>4, <1>5, <1>6, <1>7, Zenon DEF WsInv, ParsedInv, TimedOutIsSilent, Init

\* A new stream starts as the first one does.
LEMMA SubscribeInv ==
  ASSUME WsTypeOK', Subscribe
  PROVE  WsInv'
<1>1. /\ Len(order') = 0 /\ Len(delivered') = 0 /\ Len(arrived') = 0 /\ Len(pending') = 0
      /\ delivered' = <<>> /\ seen' = {} /\ lastSeen' = 0 /\ reason' = "none"
  BY EmptySeq DEF Subscribe
<1>2. PendingIsTail' /\ Parsed' = 0
  BY <1>1 DEF PendingIsTail, Parsed
<1>3. QueueIsTail'
  BY <1>1, DedupSizeNonZero DEF QueueIsTail
<1>4. SetIsQueue'
  BY <1>1, FS_EmptySet DEF SetIsQueue
<1>5. NoDuplicateInWindow'
  BY <1>1 DEF NoDuplicateInWindow
<1>6. ParsedAreReturned' /\ EventsComeInOrder' /\ CursorIsExact'
  BY <1>1, <1>2 DEF ParsedAreReturned, EventsComeInOrder, CursorIsExact
<1> QED BY <1>1, <1>2, <1>3, <1>4, <1>5, <1>6, Zenon DEF WsInv, ParsedInv, TimedOutIsSilent

\* A step that reads no notification and returns nothing.
LEMMA QuietInv ==
  ASSUME WsInv, WsTypeOK', TimedOutIsSilent',
         UNCHANGED <<pending, arrived, seen, order, delivered, lastSeen>>
  PROVE  WsInv'
<1>1. Parsed' = Parsed /\ KeepsParsed /\ PendingIsTail'
  BY DEF WsInv, Parsed, KeepsParsed, PendingIsTail
<1> QED BY <1>1, FrameParsedInv DEF WsInv

\* A notification that overtakes the answer is buffered.
LEMMA BufferedInv ==
  ASSUME WsInv, WsTypeOK', TimedOutIsSilent', NEW n \in Note,
         pending' = Append(pending, n), arrived' = Append(arrived, n),
         UNCHANGED <<seen, order, delivered, lastSeen>>
  PROVE  WsInv'
<1>1. /\ pending \in Seq(Note) /\ arrived \in Seq(Note)
      /\ Len(pending) \in Nat /\ Len(arrived) \in Nat /\ Len(pending) <= Len(arrived)
  <2>1. pending \in Seq(Note) /\ arrived \in Seq(Note)
    BY DEF WsInv, WsTypeOK
  <2>2. Len(pending) <= Len(arrived)
    BY DEF WsInv, PendingIsTail
  <2> QED BY <2>1, <2>2
<1>2. /\ Len(pending') = Len(pending) + 1 /\ pending'[Len(pending) + 1] = n
      /\ \A k \in 1..Len(pending) : pending'[k] = pending[k]
      /\ Len(arrived') = Len(arrived) + 1 /\ arrived'[Len(arrived) + 1] = n
      /\ \A k \in 1..Len(arrived) : arrived'[k] = arrived[k]
  BY <1>1, AppendProperties
<1>3. Parsed' = Parsed /\ Parsed = Len(arrived) - Len(pending) /\ KeepsParsed
  <2>1. Parsed = Len(arrived) - Len(pending) /\ Parsed' = Parsed
    BY <1>1, <1>2 DEF Parsed
  <2>2. \A i \in 1..Parsed : i \in 1..Len(arrived)
    BY <1>1, <2>1
  <2> QED BY <1>2, <2>1, <2>2, Zenon DEF KeepsParsed
<1>4. ASSUME NEW k \in 1..Len(pending') PROVE pending'[k] = arrived'[Parsed' + k]
  <2>1. CASE k = Len(pending) + 1
    BY <1>1, <1>2, <1>3, <2>1
  <2>2. CASE k # Len(pending) + 1
    <3>1. k \in 1..Len(pending) /\ Parsed + k \in 1..Len(arrived)
      BY <1>1, <1>2, <1>3, <2>2
    <3> QED BY <1>2, <1>3, <3>1, Zenon DEF WsInv, PendingIsTail
  <2> QED BY <2>1, <2>2, Zenon
<1>5. PendingIsTail'
  <2>1. Len(pending') <= Len(arrived')
    BY <1>1, <1>2
  <2> QED BY <1>4, <2>1, Zenon DEF PendingIsTail
<1> QED BY <1>3, <1>5, FrameParsedInv, Zenon DEF WsInv

\* The oldest buffered notification is parsed.
LEMMA ReplayInv ==
  ASSUME WsInv, WsTypeOK', TimedOutIsSilent', ReplayFrame
  PROVE  WsInv' /\ ParsesNote(Head(pending)) /\ Head(pending) \in Note
         /\ Head(pending) = arrived[Parsed + 1] /\ Parsed < Len(arrived)
<1>1. /\ pending \in Seq(Note) /\ arrived \in Seq(Note) /\ pending # <<>>
      /\ Len(pending) \in Nat \ {0} /\ Len(arrived) \in Nat /\ Len(pending) <= Len(arrived)
      /\ pending' = Tail(pending) /\ arrived' = arrived
  BY EmptySeq DEF WsInv, WsTypeOK, PendingIsTail, ReplayFrame, Replays
<1>2. /\ Head(pending) \in Note /\ Head(pending) = pending[1]
      /\ Len(pending') = Len(pending) - 1
      /\ \A i \in 1..(Len(pending) - 1) : pending'[i] = pending[i + 1]
  BY <1>1, HeadTailProperties
<1>3. Parsed = Len(arrived) - Len(pending) /\ Parsed' = Parsed + 1 /\ Parsed < Len(arrived)
  BY <1>1, <1>2 DEF Parsed
<1>4. Head(pending) = arrived[Parsed + 1]
  BY <1>1, <1>2 DEF WsInv, PendingIsTail
<1>5. ParsesNote(Head(pending))
  BY <1>1, <1>3, <1>4, Zenon DEF ParsesNote, KeepsParsed
<1>6. ASSUME NEW k \in 1..Len(pending') PROVE pending'[k] = arrived'[Parsed' + k]
  <2>1. k \in 1..(Len(pending) - 1) /\ k + 1 \in 1..Len(pending)
    BY <1>1, <1>2
  <2>2. pending'[k] = arrived[Parsed + (k + 1)]
    BY <1>2, <2>1 DEF WsInv, PendingIsTail
  <2>3. Parsed + (k + 1) = Parsed' + k
    BY <1>1, <1>3
  <2> QED BY <1>1, <2>2, <2>3, Zenon
<1>7. PendingIsTail'
  BY <1>1, <1>2, <1>6 DEF PendingIsTail
<1>8. ParsedInv'
  BY <1>2, <1>5, ParseNoteInv, Zenon DEF WsInv, ReplayFrame
<1> QED BY <1>2, <1>3, <1>4, <1>5, <1>7, <1>8, Zenon DEF WsInv

\* A notification is read from the socket and parsed at once.
LEMMA ReadNoteInv ==
  ASSUME WsInv, WsTypeOK', TimedOutIsSilent', NEW n \in Note, pending = <<>>,
         pending' = pending, arrived' = Append(arrived, n), Parse(n)
  PROVE  WsInv' /\ ParsesNote(n) /\ Parsed = Len(arrived)
<1>1. arrived \in Seq(Note) /\ Len(arrived) \in Nat /\ Len(pending) = 0
  BY EmptySeq DEF WsInv, WsTypeOK
<1>2. /\ Len(arrived') = Len(arrived) + 1 /\ arrived'[Len(arrived) + 1] = n
      /\ \A k \in 1..Len(arrived) : arrived'[k] = arrived[k]
  BY <1>1, AppendProperties
<1>3. Parsed = Len(arrived) /\ Parsed' = Parsed + 1 /\ PendingIsTail'
  BY <1>1, <1>2 DEF Parsed, PendingIsTail
<1>4. ParsesNote(n)
  BY <1>2, <1>3 DEF ParsesNote, KeepsParsed
<1>5. ParsedInv'
  BY <1>4, ParseNoteInv DEF WsInv
<1> QED BY <1>3, <1>4, <1>5, Zenon DEF WsInv

\* Only a heartbeat with an empty socket closes the stream for a missing pong, and
\* a closed stream reads nothing.
LEMMA SilentStep ==
  ASSUME WsInv, [Next]_vars
  PROVE  TimedOutIsSilent'
<1> USE DEF WsInv, TimedOutIsSilent
<1>1. CASE Subscribe
  BY <1>1 DEF Subscribe
<1>2. CASE HandshakeFrame
  <2>1. reason # "pongTimeout" /\ reason' \in {reason, "handshake"}
    BY <1>2 DEF HandshakeFrame, Close
  <2> QED BY <2>1
<1>3. CASE HandshakeTimeout \/ CallNext \/ PingFails \/ DropStream \/ Die \/ Tick
  BY <1>3 DEF HandshakeTimeout, CallNext, PingFails, DropStream, Die, Tick, Close
<1>4. CASE ReplayFrame
  BY <1>4, ParseType DEF ReplayFrame
<1>5. CASE ReadFrame
  <2>1. reason # "pongTimeout"
    BY <1>5 DEF ReadFrame
  <2>2. reason' \in {reason, "error", "close"}
    <3>1. CASE Head(inbox) = "close"
      BY <1>5, <3>1 DEF ReadFrame, Close
    <3>2. CASE Head(inbox) # "close"
      BY <1>5, <3>2, ParseType, Zenon DEF ReadFrame
    <3> QED BY <3>1, <3>2, Zenon
  <2> QED BY <2>1, <2>2, Zenon
<1>6. CASE Heartbeat
  BY <1>6 DEF Heartbeat, TimerFires, Close
<1>7. CASE PongFails
  BY <1>7 DEF PongFails, Close
<1>8. CASE (\E f \in Frame : Send(f)) \/ Pong
  BY <1>8 DEF Send, Pong
<1>9. CASE UNCHANGED vars
  BY <1>9 DEF vars
<1> QED BY <1>1, <1>2, <1>3, <1>4, <1>5, <1>6, <1>7, <1>8, <1>9, Zenon DEF Next, ClientStep

\* A frame that is no notification changes neither the events nor the cursor.
LEMMA ParseOther ==
  ASSUME NEW f, f \notin Note, Parse(f)
  PROVE  UNCHANGED <<seen, order, delivered, lastSeen>>
BY DEF Parse

\* WsInv is kept by every step.
LEMMA WsInvStep ==
  ASSUME WsInv, [Next]_vars
  PROVE  WsInv'
<1>1. WsTypeOK' /\ TimedOutIsSilent'
  BY TypeStep, SilentStep, Zenon DEF WsInv
<1>2. CASE Subscribe
  BY <1>1, <1>2, SubscribeInv, Zenon
<1>3. CASE HandshakeFrame
  <2>1. UNCHANGED <<seen, order, lastSeen, delivered>>
    BY <1>3 DEF HandshakeFrame
  <2>2. CASE Head(inbox) \in Note
    <3>1. pending' = Append(pending, Head(inbox)) /\ arrived' = Append(arrived, Head(inbox))
      BY <1>3, <2>2, Zenon DEF HandshakeFrame, IsNotification, Buffer
    <3> QED BY <1>1, <2>1, <2>2, <3>1, BufferedInv, Zenon
  <2>3. CASE Head(inbox) \notin Note
    <3>1. UNCHANGED <<pending, arrived>>
      BY <1>3, <2>3 DEF HandshakeFrame, IsNotification
    <3> QED BY <1>1, <2>1, <3>1, QuietInv, Zenon
  <2> QED BY <2>2, <2>3, Zenon
<1>4. CASE ReplayFrame
  BY <1>1, <1>4, ReplayInv, Zenon
<1>5. CASE ReadFrame
  <2>1. pending = <<>> /\ pending' = pending
    BY <1>5 DEF ReadFrame, Replays
  <2>2. CASE Head(inbox) \in Note
    <3>1. Head(inbox) # "close"
      BY <2>2, FrameKindsDiffer, Zenon DEF Control
    <3>2. arrived' = Append(arrived, Head(inbox)) /\ Parse(Head(inbox))
      BY <1>5, <2>2, <3>1, Zenon DEF ReadFrame
    <3> QED BY <1>1, <2>1, <2>2, <3>2, ReadNoteInv, Zenon
  <2>3. CASE Head(inbox) \notin Note
    <3>1. arrived' = arrived /\ UNCHANGED <<seen, order, delivered, lastSeen>>
      BY <1>5, <2>3, ParseOther, Zenon DEF ReadFrame
    <3> QED BY <1>1, <2>1, <3>1, QuietInv, Zenon
  <2> QED BY <2>2, <2>3
<1>6. CASE HandshakeTimeout \/ CallNext \/ Heartbeat \/ PingFails \/ PongFails \/ DropStream
  <2>1. UNCHANGED <<pending, arrived, seen, order, delivered, lastSeen>>
    BY <1>6, Zenon DEF HandshakeTimeout, CallNext, Heartbeat, PingFails, PongFails, DropStream, history
  <2> QED BY <1>1, <2>1, QuietInv, Zenon
<1>7. CASE (\E f \in Frame : Send(f)) \/ Pong \/ Die \/ Tick \/ UNCHANGED vars
  <2>1. UNCHANGED <<pending, arrived, seen, order, delivered, lastSeen>>
    BY <1>7 DEF Send, Pong, Die, Tick, history, vars
  <2> QED BY <1>1, <2>1, QuietInv, Zenon
<1> QED BY <1>2, <1>3, <1>4, <1>5, <1>6, <1>7, Zenon DEF Next, ClientStep

\* WsInv holds in every reachable state.
LEMMA WsInvariant == Spec => []WsInv
<1>1. Init => WsInv
  BY WsInitInv
<1>2. WsInv /\ [Next]_vars => WsInv'
  BY WsInvStep
<1> QED BY <1>1, <1>2, PTL DEF Spec

(***************************************************************************)
(* The properties                                                          *)
(***************************************************************************)

\* A set of naturals that is not empty has a least element.
LEMMA LeastNatural ==
  ASSUME NEW S, S \subseteq Nat, S # {}
  PROVE  \E m \in S : \A k \in S : m <= k
<1>1. IsWellFoundedOn(OpToRel(<, Nat), Nat)
  BY NatLessThanWellFounded, Zenon
<1>2. PICK m \in S : \A k \in S : ~(<<k, m>> \in OpToRel(<, Nat))
  BY <1>1, WFMin, Zenon
<1>3. \A k \in S : ~(k < m)
  BY <1>2, Zenon DEF OpToRel
<1>4. \A k \in S : m <= k
  BY <1>3
<1> QED BY <1>4

\* FirstIndex finds the first occurrence of what a sequence holds.
LEMMA FirstIndexIsFirst ==
  ASSUME NEW T, NEW q \in Seq(T), NEW k \in 1..Len(q)
  PROVE  /\ FirstIndex(q, q[k]) \in 1..Len(q) /\ FirstIndex(q, q[k]) <= k
         /\ q[FirstIndex(q, q[k])] = q[k]
         /\ \A j \in 1..(FirstIndex(q, q[k]) - 1) : q[j] # q[k]
<1>1. Len(q) \in Nat /\ DOMAIN q = 1..Len(q)
  OBVIOUS
<1>2. PICK S : S = {i \in 1..Len(q) : q[i] = q[k]}
  BY Zenon
<1>3. S \subseteq Nat /\ k \in S
  BY <1>2
<1>4. PICK m \in S : \A i \in S : m <= i
  BY <1>3, LeastNatural, Zenon
<1>5. m \in DOMAIN q /\ q[m] = q[k] /\ \A j \in 1..(m - 1) : q[j] # q[k]
  BY <1>1, <1>2, <1>4
<1>6. \E i \in DOMAIN q : q[i] = q[k] /\ \A j \in 1..(i - 1) : q[j] # q[k]
  BY <1>5, Zenon
<1>7. PICK f : f = FirstIndex(q, q[k])
  OBVIOUS
<1>8. f \in DOMAIN q /\ q[f] = q[k] /\ \A j \in 1..(f - 1) : q[j] # q[k]
  BY <1>6, <1>7, Zenon DEF FirstIndex
<1>9. f <= k
  BY <1>1, <1>8
<1> QED BY <1>1, <1>7, <1>8, <1>9, Zenon

\* The signatures of a sequence of notifications.
LEMMA SigsOf ==
  ASSUME NEW q \in Seq(Note)
  PROVE  /\ Sigs(q) \in Seq(Sig) /\ Len(Sigs(q)) = Len(q)
         /\ \A i \in 1..Len(q) : Sigs(q)[i] = SigOf[q[i]]
         /\ \A s : s \in ToSet(Sigs(q)) <=> \E i \in 1..Len(q) : SigOf[q[i]] = s
<1>1. DOMAIN q = 1..Len(q) /\ Len(q) \in Nat /\ \A i \in 1..Len(q) : q[i] \in Note
  OBVIOUS
<1>2. Sigs(q) = [i \in 1..Len(q) |-> SigOf[q[i]]]
  BY <1>1 DEF Sigs
<1>3. \A i \in 1..Len(q) : SigOf[q[i]] \in Sig
  BY <1>1, NotesAreTyped, Zenon
<1>4. Sigs(q) \in Seq(Sig) /\ Len(Sigs(q)) = Len(q)
  <2>1. Sigs(q) \in [1..Len(q) -> Sig]
    BY <1>2, <1>3, Zenon
  <2> QED BY <1>1, <2>1, SeqDef, LenProperties
<1>5. DOMAIN Sigs(q) = 1..Len(q) /\ \A i \in 1..Len(q) : Sigs(q)[i] = SigOf[q[i]]
  BY <1>2
<1>6. \A s : s \in ToSet(Sigs(q)) <=> \E i \in 1..Len(q) : Sigs(q)[i] = s
  BY <1>5 DEF ToSet
<1> QED BY <1>4, <1>5, <1>6, Zenon

\* Everything that arrived was returned or waits, and nothing else was returned.
LEMMA NothingIsLost ==
  ASSUME WsInv
  PROVE  ToSet(Sigs(arrived)) = ToSet(Sigs(delivered)) \union ToSet(Sigs(pending))
<1>1. /\ arrived \in Seq(Note) /\ delivered \in Seq(Note) /\ pending \in Seq(Note)
      /\ Len(arrived) \in Nat /\ Len(pending) \in Nat /\ Len(delivered) \in Nat
      /\ Len(pending) <= Len(arrived) /\ Parsed = Len(arrived) - Len(pending)
  BY DEF WsInv, WsTypeOK, PendingIsTail, Parsed
<1>2. ASSUME NEW i \in 1..Len(arrived)
      PROVE  SigOf[arrived[i]] \in ToSet(Sigs(delivered)) \union ToSet(Sigs(pending))
  <2>1. CASE i \in 1..Parsed
    <3>1. PICK m \in 1..((Len(delivered) + 1) - 1) : SigOf[delivered[m]] = SigOf[arrived[i]]
      BY <2>1 DEF WsInv, ParsedInv, ParsedAreReturned, ReturnedBefore
    <3>2. m \in 1..Len(delivered)
      BY <1>1
    <3> QED BY <1>1, <3>1, <3>2, SigsOf, Zenon
  <2>2. CASE i \notin 1..Parsed
    <3>1. PICK k \in 1..Len(pending) : i = Parsed + k
      <4>1. i - Parsed \in 1..Len(pending) /\ i = Parsed + (i - Parsed)
        BY <1>1, <2>2
      <4> QED BY <4>1
    <3>2. pending[k] = arrived[i]
      BY <3>1 DEF WsInv, PendingIsTail
    <3> QED BY <1>1, <3>2, SigsOf, Zenon
  <2> QED BY <2>1, <2>2, Zenon
<1>3. ASSUME NEW k \in 1..Len(delivered) PROVE SigOf[delivered[k]] \in ToSet(Sigs(arrived))
  <2>1. PICK i \in 1..Parsed : SigOf[arrived[i]] = SigOf[delivered[k]]
    BY DEF WsInv, ParsedInv, EventsComeInOrder
  <2>2. i \in 1..Len(arrived)
    BY <1>1
  <2> QED BY <1>1, <2>1, <2>2, SigsOf, Zenon
<1>4. ASSUME NEW k \in 1..Len(pending) PROVE SigOf[pending[k]] \in ToSet(Sigs(arrived))
  <2>1. Parsed + k \in 1..Len(arrived)
    BY <1>1
  <2>2. pending[k] = arrived[Parsed + k]
    BY DEF WsInv, PendingIsTail
  <2> QED BY <1>1, <2>1, <2>2, SigsOf, Zenon
<1>5. ASSUME NEW s \in ToSet(Sigs(arrived))
      PROVE  s \in ToSet(Sigs(delivered)) \union ToSet(Sigs(pending))
  <2>1. PICK i \in 1..Len(arrived) : SigOf[arrived[i]] = s
    BY <1>1, SigsOf, Zenon
  <2> QED BY <1>2, <2>1, Zenon
<1>6. ASSUME NEW s \in ToSet(Sigs(delivered)) \union ToSet(Sigs(pending))
      PROVE  s \in ToSet(Sigs(arrived))
  <2>1. CASE s \in ToSet(Sigs(delivered))
    <3>1. PICK k \in 1..Len(delivered) : SigOf[delivered[k]] = s
      BY <1>1, <2>1, SigsOf, Zenon
    <3> QED BY <1>3, <3>1, Zenon
  <2>2. CASE s \in ToSet(Sigs(pending))
    <3>1. PICK k \in 1..Len(pending) : SigOf[pending[k]] = s
      BY <1>1, <2>2, SigsOf, Zenon
    <3> QED BY <1>4, <3>1, Zenon
  <2> QED BY <2>1, <2>2, Zenon
<1> QED BY <1>5, <1>6, Zenon

\* Signatures are first returned in the order in which they first arrived.
LEMMA FirstInFirstOut ==
  ASSUME WsInv, NEW s \in ToSet(Sigs(delivered)), NEW t \in ToSet(Sigs(arrived)),
         FirstIndex(Sigs(arrived), t) < FirstIndex(Sigs(arrived), s)
  PROVE  /\ t \in ToSet(Sigs(delivered))
         /\ FirstIndex(Sigs(delivered), t) < FirstIndex(Sigs(delivered), s)
<1>1. /\ arrived \in Seq(Note) /\ delivered \in Seq(Note)
      /\ Len(arrived) \in Nat /\ Len(delivered) \in Nat /\ Parsed \in 0..Len(arrived)
  BY SMTT(20) DEF WsInv, WsTypeOK, PendingIsTail, Parsed
<1>2. PICK came, gone : came = Sigs(arrived) /\ gone = Sigs(delivered)
  OBVIOUS
<1>3. /\ came \in Seq(Sig) /\ gone \in Seq(Sig)
      /\ Len(came) = Len(arrived) /\ Len(gone) = Len(delivered)
      /\ \A i \in 1..Len(arrived) : came[i] = SigOf[arrived[i]]
      /\ \A i \in 1..Len(delivered) : gone[i] = SigOf[delivered[i]]
  BY <1>1, <1>2, SigsOf, Zenon
<1>4. PICK a \in 1..Len(delivered) : gone[a] = s
  <2>1. \E i \in 1..Len(delivered) : SigOf[delivered[i]] = s
    BY <1>1, SigsOf, Zenon
  <2> QED BY <1>3, <2>1
<1>5. PICK b \in 1..Len(arrived) : came[b] = t
  <2>1. \E i \in 1..Len(arrived) : SigOf[arrived[i]] = t
    BY <1>1, SigsOf
  <2> QED BY <1>3, <2>1, Zenon
<1>6. PICK k : k = FirstIndex(gone, s)
  OBVIOUS
<1>7. k \in 1..Len(delivered) /\ gone[k] = s /\ \A j \in 1..(k - 1) : gone[j] # s
  <2>1. a \in 1..Len(gone)
    BY <1>3, <1>4, Zenon
  <2>2. /\ FirstIndex(gone, gone[a]) \in 1..Len(gone)
        /\ gone[FirstIndex(gone, gone[a])] = gone[a]
        /\ \A j \in 1..(FirstIndex(gone, gone[a]) - 1) : gone[j] # gone[a]
    BY <1>3, <2>1, FirstIndexIsFirst, ZenonT(60)
  <2> QED
    BY <1>3, <1>4, <1>6, <2>2, Zenon
<1>8. PICK i \in 1..Parsed :
        /\ SigOf[arrived[i]] = SigOf[delivered[k]]
        /\ \A j \in 1..(i - 1) : ReturnedBefore(k, SigOf[arrived[j]])
  BY <1>7 DEF WsInv, ParsedInv, EventsComeInOrder
<1>9. i \in 1..Len(arrived) /\ came[i] = s
  BY <1>1, <1>3, <1>7, <1>8, SMTT(30)
<1>10. PICK f : f = FirstIndex(came, s)
  OBVIOUS
<1>11. f \in 1..Len(arrived) /\ f <= i
  BY <1>3, <1>9, <1>10, FirstIndexIsFirst, Zenon
<1>12. PICK g : g = FirstIndex(came, t)
  OBVIOUS
<1>13. g \in 1..Len(arrived) /\ came[g] = t
  <2>1. b \in 1..Len(came)
    BY <1>3, <1>5, Zenon
  <2>2. /\ FirstIndex(came, came[b]) \in 1..Len(came)
        /\ came[FirstIndex(came, came[b])] = came[b]
        /\ \A j \in 1..(FirstIndex(came, came[b]) - 1) : came[j] # came[b]
    BY <1>3, <2>1, FirstIndexIsFirst, ZenonT(60)
  <2> QED
    BY <1>3, <1>5, <1>12, <2>2, Zenon
<1>14. g \in 1..(i - 1)
  BY <1>1, <1>2, <1>10, <1>11, <1>12, <1>13
<1>15. PICK m \in 1..(k - 1) : SigOf[delivered[m]] = SigOf[arrived[g]]
  BY <1>8, <1>14, Zenon DEF ReturnedBefore
<1>16. m \in 1..Len(delivered) /\ gone[m] = t
  BY <1>1, <1>3, <1>7, <1>13, <1>15
<1>17. FirstIndex(gone, t) \in 1..Len(delivered) /\ FirstIndex(gone, t) <= m
  BY <1>3, <1>16, FirstIndexIsFirst, Zenon
<1>18. FirstIndex(gone, t) < k
  BY <1>1, <1>7, <1>16, <1>17
<1>19. t \in ToSet(Sigs(delivered))
  BY <1>1, <1>3, <1>16, SigsOf, Zenon
<1> QED BY <1>2, <1>6, <1>18, <1>19, ZenonT(60)

\* The eviction queue is the end of the signatures of the returned events.
LEMMA QueueIsSuffix ==
  ASSUME WsInv
  PROVE  IsSuffix(order, Sigs(delivered))
<1>1. PICK gone, l, d : gone = Sigs(delivered) /\ l = Len(order) /\ d = Len(gone)
  BY Zenon
<1>2. /\ order \in Seq(Sig) /\ gone \in Seq(Sig) /\ d = Len(delivered)
      /\ \A i \in 1..d : gone[i] = SigOf[delivered[i]]
  BY <1>1, SigsOf, Zenon DEF WsInv, WsTypeOK
<1>3. l \in Nat /\ d \in Nat /\ l <= d
  BY <1>1, <1>2 DEF WsInv, ParsedInv, QueueIsTail
<1>4. ASSUME NEW i \in 1..l PROVE order[(l - i) + 1] = gone[(d - i) + 1]
  <2>1. PICK j \in 1..l : j = (l - i) + 1
    BY <1>3
  <2>2. order[j] = SigOf[delivered[Len(delivered) - Len(order) + j]]
    BY <1>1, Zenon DEF WsInv, ParsedInv, QueueIsTail
  <2>3. Len(delivered) - Len(order) + j = (d - i) + 1 /\ (d - i) + 1 \in 1..d
    BY <1>1, <1>2, <1>3, <2>1
  <2> QED BY <1>2, <2>1, <2>2, <2>3, ZenonT(60)
<1>5. PICK p, q : p = Reverse(order) /\ q = Reverse(gone)
  OBVIOUS
<1>6. /\ p = [i \in 1..l |-> order[(l - i) + 1]]
      /\ q = [i \in 1..d |-> gone[(d - i) + 1]]
  BY <1>1, <1>5, Zenon DEF Reverse
<1>7. p \in [1..l -> Sig] /\ q \in [1..d -> Sig]
  <2>1. \A i \in 1..l : (l - i) + 1 \in 1..Len(order)
    BY <1>1, <1>3
  <2>2. \A i \in 1..d : (d - i) + 1 \in 1..Len(gone)
    BY <1>1, <1>3
  <2> QED BY <1>2, <1>6, <2>1, <2>2
<1>8. p \in Seq(Sig) /\ q \in Seq(Sig) /\ Len(p) = l /\ Len(q) = d
  BY <1>3, <1>7, SeqDef, LenProperties
<1>9. \A i \in 1..l : p[i] = q[i]
  BY <1>3, <1>4, <1>6
<1>10. SubSeq(p, 1, l) = SubSeq(q, 1, l)
  <2>1. /\ SubSeq(p, 1, l) = [i \in 1..l |-> p[i]]
        /\ SubSeq(q, 1, l) = [i \in 1..l |-> q[i]]
    BY <1>3, <1>8
  <2> QED BY <1>9, <2>1, Zenon
<1>11. IsPrefix(p, q)
  BY <1>3, <1>8, <1>10, Zenon DEF IsPrefix
<1> QED BY <1>1, <1>5, <1>11, Zenon DEF IsSuffix

\* The types, for every value of the constants (WsTypeOK).
THEOREM StreamTypes == Spec => []WsTypeOK
BY WsInvariant, PTL DEF WsInv

\* DeduplicationSet is the window it stands for (DedupIsWindow): insert evicts the
\* oldest signature exactly when the set is full, whatever dedup_cache_size is.
THEOREM DedupWindow == Spec => []DedupIsWindow
<1>1. WsInv => DedupIsWindow
  <2> SUFFICES ASSUME WsInv PROVE DedupIsWindow
    OBVIOUS
  <2>1. order \in Seq(Sig) /\ DOMAIN order = 1..Len(order)
    BY DEF WsInv, WsTypeOK
  <2>2. seen = ToSet(order)
    BY <2>1 DEF WsInv, ParsedInv, SetIsQueue, ToSet
  <2>3. IsInjective(order)
    BY <2>1, Zenon DEF WsInv, ParsedInv, SetIsQueue, IsInjective
  <2>4. Len(order) <= DedupSize
    BY Zenon DEF WsInv, ParsedInv, QueueIsTail
  <2> QED BY <2>2, <2>3, <2>4, QueueIsSuffix, Zenon DEF DedupIsWindow
<1> QED BY <1>1, WsInvariant, PTL

\* A signature comes back only after dedup_cache_size other events
\* (NoDuplicateInWindow).
THEOREM NoDuplicates == Spec => []NoDuplicateInWindow
<1>1. WsInv => NoDuplicateInWindow
  BY Zenon DEF WsInv, ParsedInv
<1> QED BY <1>1, WsInvariant, PTL

\* No notification read from the socket is lost or overtaken
\* (ArrivalsAreDelivered).
THEOREM NoArrivalIsLost == Spec => []ArrivalsAreDelivered
<1>1. WsInv => ArrivalsAreDelivered
  BY NothingIsLost, FirstInFirstOut, Zenon DEF ArrivalsAreDelivered
<1> QED BY <1>1, WsInvariant, PTL

\* The cursor from which the next gap is filled is the largest parsed slot
\* (CursorIsLargestParsed).
THEOREM CursorIsLargest == Spec => []CursorIsLargestParsed
<1>1. WsInv => CursorIsLargestParsed
  BY Zenon DEF WsInv, ParsedInv, CursorIsExact, CursorIsLargestParsed
<1> QED BY <1>1, WsInvariant, PTL

\* A stream is dropped for a missing pong only when none can be read
\* (PongTimeoutIsReal).
THEOREM NoPongIsMissed == Spec => []PongTimeoutIsReal
<1>1. WsInv => PongTimeoutIsReal
  <2> SUFFICES ASSUME WsInv, reason = "pongTimeout" PROVE "pong" \notin ToSet(inbox)
    BY DEF PongTimeoutIsReal
  <2>1. inbox = <<>>
    BY DEF WsInv, TimedOutIsSilent
  <2> QED BY <2>1 DEF ToSet
<1> QED BY <1>1, WsInvariant, PTL

(***************************************************************************)
(* The stream implements the feed                                          *)
(***************************************************************************)

\* The hash set is the signatures of the last dedup_cache_size events.
LEMMA SeenIsRecent ==
  ASSUME WsInv
  PROVE  F!Recent = seen
<1>1. /\ delivered \in Seq(Note) /\ DOMAIN delivered = 1..Len(delivered)
      /\ Len(delivered) \in Nat /\ Len(order) \in Nat /\ DedupSize \in Nat
  BY DedupSizeNonZero DEF WsInv, WsTypeOK
<1>2. ASSUME NEW s \in seen PROVE s \in F!Recent
  <2>1. PICK k \in 1..Len(delivered) : SigOf[delivered[k]] = s /\ k > Len(delivered) - DedupSize
    BY SeenIsReturned DEF WsInv, ParsedInv
  <2> QED BY <1>1, <2>1, Zenon DEF F!Recent
<1>3. ASSUME NEW s \in F!Recent PROVE s \in seen
  <2>1. PICK k \in 1..Len(delivered) : SigOf[delivered[k]] = s /\ k > Len(delivered) - DedupSize
    BY <1>1, Zenon DEF F!Recent
  <2>2. Len(order) = DedupSize \/ Len(order) = Len(delivered)
    BY DEF WsInv, ParsedInv, QueueIsTail
  <2>3. PICK i \in 1..Len(order) : k = Len(delivered) - Len(order) + i
    <3>1. /\ k - (Len(delivered) - Len(order)) \in 1..Len(order)
          /\ k = Len(delivered) - Len(order) + (k - (Len(delivered) - Len(order)))
      BY <1>1, <2>1, <2>2
    <3> QED BY <3>1, Zenon
  <2>4. order[i] = s
    BY <2>1, <2>3, Zenon DEF WsInv, ParsedInv, QueueIsTail
  <2> QED BY <2>4, Zenon DEF WsInv, ParsedInv, SetIsQueue
<1> QED BY <1>2, <1>3, Zenon

\* Parsing a notification is Feed's Take.
LEMMA ParseIsTake ==
  ASSUME WsInv, NEW n \in Note, Parse(n), Parsed' = Parsed + 1
  PROVE  F!Take(n)
<1>1. lastSeen' = IF SlotOf[n] > lastSeen THEN SlotOf[n] ELSE lastSeen
  BY DEF Parse, Advance
<1>2. delivered' = IF SigOf[n] \in F!Recent THEN delivered ELSE Append(delivered, n)
  BY SeenIsRecent DEF Parse, IsNew
<1> QED BY <1>1, <1>2, Zenon DEF F!Take

\* Every step of the stream is one of the feed, or none.
LEMMA StepIsFeedStep ==
  ASSUME WsInv, [Next]_vars
  PROVE  [F!FeedNext]_(F!feedVars)
<1> USE DEF F!FeedNext, F!feedVars
<1>1. WsTypeOK' /\ TimedOutIsSilent'
  BY TypeStep, SilentStep DEF WsInv
<1>2. CASE Subscribe
  <2>1. Parsed' = 0
    BY <1>2, EmptySeq DEF Subscribe, Parsed
  <2>2. F!Reconnect
    BY <1>2, <2>1, Zenon DEF Subscribe, F!Reconnect, F!NothingYet
  <2> QED BY <2>2
<1>3. CASE HandshakeFrame
  <2>1. UNCHANGED <<lastSeen, delivered>>
    BY <1>3 DEF HandshakeFrame
  <2>2. CASE Head(inbox) \in Note
    <3>1. pending' = Append(pending, Head(inbox)) /\ arrived' = Append(arrived, Head(inbox))
      BY <1>3, <2>2 DEF HandshakeFrame, IsNotification, Buffer
    <3>2. Parsed' = Parsed
      BY <2>2, <3>1, AppendProperties DEF Parsed, WsInv, WsTypeOK
    <3>3. F!Arrive(Head(inbox))
      BY <2>1, <3>1, <3>2, Zenon DEF F!Arrive
    <3> QED BY <2>2, <3>3, ZenonT(60)
  <2>3. CASE Head(inbox) \notin Note
    BY <1>3, <2>1, <2>3, Zenon DEF HandshakeFrame, IsNotification, Parsed
  <2> QED BY <2>2, <2>3, Zenon
<1>4. CASE ReplayFrame
  <2>1. PICK n \in Note : /\ n = Head(pending) /\ n = arrived[Parsed + 1]
                          /\ ParsesNote(n) /\ Parsed < Len(arrived)
    BY <1>1, <1>4, ReplayInv, Zenon
  <2>2. F!Take(n)
    BY <1>4, <2>1, ParseIsTake, Zenon DEF ReplayFrame, ParsesNote
  <2>3. F!TakeOldest
    BY <1>4, <2>1, <2>2, Zenon DEF ReplayFrame, F!TakeOldest
  <2> QED BY <2>3
<1>5. CASE ReadFrame
  <2>1. pending = <<>> /\ pending' = pending
    BY <1>5 DEF ReadFrame, Replays
  <2>2. CASE Head(inbox) \in Note
    <3>1. Head(inbox) # "close"
      BY <2>2, FrameKindsDiffer DEF Control
    <3>2. arrived' = Append(arrived, Head(inbox)) /\ Parse(Head(inbox))
      BY <1>5, <2>2, <3>1 DEF ReadFrame
    <3>3. ParsesNote(Head(inbox)) /\ Parsed = Len(arrived)
      BY <1>1, <2>1, <2>2, <3>2, ReadNoteInv, Zenon
    <3>4. F!Take(Head(inbox))
      BY <2>2, <3>2, <3>3, ParseIsTake, Zenon DEF ParsesNote
    <3>5. F!ArriveAndTake(Head(inbox))
      BY <3>2, <3>3, <3>4, Zenon DEF F!ArriveAndTake
    <3> QED BY <2>2, <3>5, Zenon
  <2>3. CASE Head(inbox) \notin Note
    <3>1. arrived' = arrived /\ UNCHANGED <<seen, order, delivered, lastSeen>>
      BY <1>5, <2>3, ParseOther DEF ReadFrame
    <3> QED BY <2>1, <3>1, Zenon DEF Parsed
  <2> QED BY <2>2, <2>3
<1>6. CASE HandshakeTimeout \/ CallNext \/ Heartbeat \/ PingFails \/ PongFails \/ DropStream
  <2>1. UNCHANGED <<pending, arrived, delivered, lastSeen>>
    BY <1>6, ZenonT(60) DEF HandshakeTimeout, CallNext, Heartbeat, PingFails, PongFails, DropStream, history
  <2> QED BY <2>1 DEF Parsed
<1>7. CASE (\E f \in Frame : Send(f)) \/ Pong \/ Die \/ Tick \/ UNCHANGED vars
  <2>1. UNCHANGED <<pending, arrived, delivered, lastSeen>>
    BY <1>7 DEF Send, Pong, Die, Tick, history, vars
  <2> QED BY <2>1 DEF Parsed
<1> QED BY <1>2, <1>3, <1>4, <1>5, <1>6, <1>7, Zenon DEF Next, ClientStep

\* The stream implements the feed (ImplementsFeed): its first state is a first
\* state of the feed and each of its steps is a step of the feed or none.
THEOREM StreamIsFeed == Spec => ImplementsFeed
<1>1. Init => F!NothingYet
  BY EmptySeq DEF Init, F!NothingYet, Parsed
<1>2. WsInv /\ [Next]_vars => [F!FeedNext]_(F!feedVars)
  BY StepIsFeedStep
<1> QED BY <1>1, <1>2, WsInvariant, PTL DEF Spec, ImplementsFeed, F!FeedSpec
=============================================================================
