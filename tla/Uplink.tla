------------------------------- MODULE Uplink -------------------------------
(***************************************************************************)
(* What the sending direction of a VPN session promises, without threads,  *)
(* contexts or sockets: a bounded FIFO that loses a packet only because    *)
(* the queue is full or because the session is ending, never sends one     *)
(* twice or out of order, and sends nothing after it has failed.           *)
(* DataLoop implements it.                                                 *)
(***************************************************************************)
EXTENDS Naturals, Sequences

CONSTANT Cap      \* packets the queue holds

VARIABLES
  offered,  \* packets 1..offered have been accepted or refused
  intake,   \* packets are still being taken in
  queue,    \* accepted and waiting
  hand,     \* being transmitted; 0 for none
  sent,     \* transmitted, in order
  up        \* the transmitter is running

vars == <<offered, intake, queue, hand, sent, up>>

Init ==
  /\ offered = 0 /\ intake = TRUE
  /\ queue = <<>> /\ hand = 0 /\ sent = <<>> /\ up = TRUE

Accept ==
  /\ intake
  /\ Len(queue) < Cap
  /\ offered' = offered + 1
  /\ queue' = Append(queue, offered + 1)
  /\ UNCHANGED <<intake, hand, sent, up>>

Drop ==
  /\ intake
  /\ Len(queue) = Cap
  /\ offered' = offered + 1
  /\ UNCHANGED <<intake, queue, hand, sent, up>>

\* The intake ends; the packet that was being offered is lost with it.
StopIntake ==
  /\ intake
  /\ intake' = FALSE
  /\ offered' \in {offered, offered + 1}
  /\ UNCHANGED <<queue, hand, sent, up>>

Take ==
  /\ up /\ hand = 0 /\ queue # <<>>
  /\ hand' = Head(queue)
  /\ queue' = Tail(queue)
  /\ UNCHANGED <<offered, intake, sent, up>>

Transmit ==
  /\ up /\ hand # 0
  /\ sent' = Append(sent, hand)
  /\ hand' = 0
  /\ UNCHANGED <<offered, intake, queue, up>>

\* The transmitter ends; the packet it was holding is lost with it.
Fail ==
  /\ up
  /\ up' = FALSE
  /\ hand' = 0
  /\ UNCHANGED <<offered, intake, queue, sent>>

Next == Accept \/ Drop \/ StopIntake \/ Take \/ Transmit \/ Fail

Spec == Init /\ [][Next]_vars
=============================================================================
