----------------------------- MODULE MsgChannel -----------------------------
(***************************************************************************)
(* What a pair of MyTCP sockets promises to the two programs that use it.  *)
(* In each direction the messages are received whole, in the order they    *)
(* were sent, each at most once.  While neither end is closing none is     *)
(* lost.  Once one is, messages still under way may be lost, but only the  *)
(* youngest ones: what is received is always a prefix of what was sent.    *)
(*                                                                         *)
(* A direction is named by its sending end.                                *)
(***************************************************************************)
EXTENDS Naturals, Sequences

CONSTANTS End,        \* the ends of connections
          Peer,       \* Peer[p] is the other end of p's connection
          Msg         \* the messages

VARIABLES sent,       \* sent[p]: the messages p's program sent, a history
          chan,       \* chan[p]: those that are still under way
          delivered,  \* delivered[p]: those that the peer's program received
          open        \* open[p]: neither end of p's connection is closing

vars == <<sent, chan, delivered, open>>

Prefixes(s) == {SubSeq(s, 1, n) : n \in 0 .. Len(s)}

Init ==
  /\ sent = [p \in End |-> <<>>]
  /\ chan = [p \in End |-> <<>>]
  /\ delivered = [p \in End |-> <<>>]
  /\ open = [p \in End |-> TRUE]

\* A message sent once an end is closing may go nowhere.
Send(p, m) ==
  /\ sent' = [sent EXCEPT ![p] = Append(@, m)]
  /\ chan' = IF open[p] THEN [chan EXCEPT ![p] = Append(@, m)] ELSE chan
  /\ UNCHANGED <<delivered, open>>

Receive(p) ==
  /\ chan[p] # <<>>
  /\ delivered' = [delivered EXCEPT ![p] = Append(@, Head(chan[p]))]
  /\ chan' = [chan EXCEPT ![p] = Tail(@)]
  /\ UNCHANGED <<sent, open>>

\* End p starts to close: it receives nothing any more, and of what it has
\* sent a prefix remains under way.
Close(p) ==
  /\ open' = [open EXCEPT ![p] = FALSE, ![Peer[p]] = FALSE]
  /\ \E s \in Prefixes(chan[p]) :
       chan' = [chan EXCEPT ![p] = s, ![Peer[p]] = <<>>]
  /\ UNCHANGED <<sent, delivered>>

Lose(p) ==
  /\ ~open[p]
  /\ \E s \in Prefixes(chan[p]) : chan' = [chan EXCEPT ![p] = s]
  /\ UNCHANGED <<sent, delivered, open>>

Next ==
  \E p \in End :
    (\E m \in Msg : Send(p, m)) \/ Receive(p) \/ Close(p) \/ Lose(p)

Spec == Init /\ [][Next]_vars
=============================================================================
