--------------------------- MODULE WholeMessages ---------------------------
(***************************************************************************)
(* What send_helper and recv_helper make of the byte stream of a TCP       *)
(* connection, in one direction: messages that cross it whole.  The steps  *)
(* Take, Send, Receive, CutOff and End are those of the S and the R thread *)
(* in module MySocket (STake, SSend, RReceive, SCutOff and RStop).         *)
(***************************************************************************)
EXTENDS Naturals, Sequences

CONSTANTS Msg          \* the messages

VARIABLES hand,        \* the message the sender is sending: none or one
          wire,        \* the messages sent and not received yet
          returned,    \* the messages the receiver has got, in order
          sending,     \* the sender still goes on
          receiving    \* the receiver still goes on

vars == <<hand, wire, returned, sending, receiving>>

Init ==
  /\ hand = <<>> /\ wire = <<>> /\ returned = <<>>
  /\ sending = TRUE /\ receiving = TRUE

Take(m) ==
  /\ sending /\ hand = <<>>
  /\ hand' = <<m>>
  /\ UNCHANGED <<wire, returned, sending, receiving>>

\* A message sent to a receiver that has left is gone.
Send ==
  /\ sending /\ hand # <<>>
  /\ wire' = IF receiving THEN wire \o hand ELSE wire
  /\ hand' = <<>>
  /\ UNCHANGED <<returned, sending, receiving>>

Receive ==
  /\ receiving /\ wire # <<>>
  /\ returned' = Append(returned, Head(wire))
  /\ wire' = Tail(wire)
  /\ UNCHANGED <<hand, sending, receiving>>

\* The sender stops, by a cancellation, a close or the end of its process.
\* It leaves the message in hand incomplete; a reset takes more with it.
CutOff ==
  /\ sending' = FALSE /\ hand' = <<>>
  /\ \E n \in 0 .. Len(wire) : wire' = SubSeq(wire, 1, n)
  /\ UNCHANGED <<returned, receiving>>

\* The receiver has read to the end of what was sent, or leaves.
End ==
  /\ receiving' = FALSE /\ wire' = <<>>
  /\ UNCHANGED <<hand, returned, sending>>

Next ==
  (\E m \in Msg : Take(m)) \/ Send \/ Receive \/ CutOff \/ End

Spec == Init /\ [][Next]_vars
=============================================================================
