---------------------------- MODULE BoundedFifo ----------------------------
(***************************************************************************)
(* What a message table promises its users: a first-in first-out queue of  *)
(* at most Capacity messages.  A put into a full queue is ignored, so is a *)
(* removal from an empty one, and a look at the front changes nothing but  *)
(* the value handed out.  The circular queue of mysocket.c implements it   *)
(* (module CQueue).                                                        *)
(***************************************************************************)
EXTENDS Naturals, Sequences

CONSTANTS Msg,       \* the messages
          Capacity,  \* how many the queue holds
          Null       \* the answer of a look at an empty queue

VARIABLES items,     \* the messages in the queue, oldest first
          answer     \* what the last look at the front returned

vars == <<items, answer>>

Init == items = <<>> /\ answer = Null

Put(m) ==
  /\ items' = IF Len(items) < Capacity THEN Append(items, m) ELSE items
  /\ UNCHANGED answer

Remove ==
  /\ items' = IF items = <<>> THEN items ELSE Tail(items)
  /\ UNCHANGED answer

Look ==
  /\ answer' = IF items = <<>> THEN Null ELSE Head(items)
  /\ UNCHANGED items

Clear == items' = <<>> /\ UNCHANGED answer

Next == (\E m \in Msg : Put(m)) \/ Remove \/ Look \/ Clear

Spec == Init /\ [][Next]_vars
=============================================================================
