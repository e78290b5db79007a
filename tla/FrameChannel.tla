---------------------------- MODULE FrameChannel ----------------------------
(***************************************************************************)
(* What the receiving direction of the tunnel promises, without bytes: the  *)
(* payloads of the gateway arrive whole and in order.  Those that were sent *)
(* with the reply to the tunnel request may be missed, at the beginning and *)
(* all at once; from then on nothing is, until the channel ends.            *)
(* PacketStream implements it.                                             *)
(***************************************************************************)
EXTENDS Naturals, Sequences

CONSTANT Payloads

VARIABLES
  pending,   \* sent and not received yet
  received,  \* received, in order
  state      \* "opening", "open", "ended"

vars == <<pending, received, state>>

Init == pending = <<>> /\ received = <<>> /\ state = "opening"

Send ==
  /\ \E p \in Payloads : pending' = Append(pending, p)
  /\ UNCHANGED <<received, state>>

\* The channel opens, without the first payloads.
Open ==
  /\ state = "opening"
  /\ \E n \in 0 .. Len(pending) : pending' = SubSeq(pending, n + 1, Len(pending))
  /\ state' = "open"
  /\ UNCHANGED received

Deliver ==
  /\ state = "open"
  /\ pending # <<>>
  /\ received' = Append(received, Head(pending))
  /\ pending' = Tail(pending)
  /\ UNCHANGED state

End ==
  /\ state # "ended"
  /\ state' = "ended"
  /\ UNCHANGED <<pending, received>>

Next == Send \/ Open \/ Deliver \/ End

Spec == Init /\ [][Next]_vars
=============================================================================
