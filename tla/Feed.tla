-------------------------------- MODULE Feed --------------------------------
(***************************************************************************)
(* What the WebSocket stream promises its consumer (pipeline/ws.rs), with  *)
(* no frames, buffers, eviction queue or heartbeat: the notifications of a *)
(* connection are taken one by one in the order in which they arrive, each *)
(* moves the cursor, and each becomes an event unless its signature is     *)
(* that of one of the last Window events.                                  *)
(***************************************************************************)
EXTENDS Integers, Sequences

CONSTANTS Note, SigOf, SlotOf, Window

VARIABLES arrived,    \* the notifications of this connection
          taken,      \* how many of them the stream has looked at
          delivered,  \* the events it has returned
          cursor      \* the largest slot it has looked at; 0 is none

feedVars == <<arrived, taken, delivered, cursor>>

\* The signatures of the last Window events.
Recent ==
  {SigOf[delivered[i]] :
     i \in {k \in DOMAIN delivered : k > Len(delivered) - Window}}

NothingYet == arrived = <<>> /\ taken = 0 /\ delivered = <<>> /\ cursor = 0

Take(n) ==
  /\ taken' = taken + 1
  /\ delivered' = IF SigOf[n] \in Recent THEN delivered ELSE Append(delivered, n)
  /\ cursor' = IF SlotOf[n] > cursor THEN SlotOf[n] ELSE cursor

Arrive(n) == arrived' = Append(arrived, n) /\ UNCHANGED <<taken, delivered, cursor>>

TakeOldest == taken < Len(arrived) /\ Take(arrived[taken + 1]) /\ UNCHANGED arrived

\* The stream waits for a notification and takes it as it arrives.
ArriveAndTake(n) == taken = Len(arrived) /\ arrived' = Append(arrived, n) /\ Take(n)

\* A new connection starts from nothing.
Reconnect == NothingYet'

FeedNext ==
  \/ \E n \in Note : Arrive(n) \/ ArriveAndTake(n)
  \/ TakeOldest
  \/ Reconnect

FeedSpec == NothingYet /\ [][FeedNext]_feedVars
=============================================================================
