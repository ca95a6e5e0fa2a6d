------------------------------- MODULE CQueue -------------------------------
(***************************************************************************)
(* The circular queue of mysocket.c ("struct _cqueue"), the data structure *)
(* of both message tables: an array of MAX_MSG + 1 slots with an index st  *)
(* of the oldest message and an index end of the next free slot.           *)
(*                                                                         *)
(* A slot holds the message it owns, or Null for the NULL pointer.  push   *)
(* and front copy the message they are given or find, so a slot never      *)
(* shares a message with its caller and the copy is not modelled.          *)
(***************************************************************************)
EXTENDS Integers, Sequences

CONSTANTS MAX_MSG,   \* the number of messages a table holds
          Msg,       \* the messages
          Null       \* the NULL pointer

ASSUME QueueAssumption == MAX_MSG \in Nat \ {0} /\ Null \notin Msg

Slot == 0 .. MAX_MSG

\* Mutant: the index never wraps.
Succ_noWrap(i) == i + 1

Succ(i) == (i + 1) % (MAX_MSG + 1)

QueueType == [cqueue : [Slot -> Msg \union {Null}], st : Slot, end : Slot]

-----------------------------------------------------------------------------
(***************************************************************************)
(* The functions of mysocket.c on a queue.                                 *)
(***************************************************************************)
initqueue == [cqueue |-> [i \in Slot |-> Null], st |-> 0, end |-> 0]

isempty(Q) == Q.st = Q.end

isfull(Q) == Succ(Q.end) = Q.st

\* Mutant: end moves on before the message is stored.
push_afterStep(Q, msg) ==
  IF isfull(Q)
  THEN Q
  ELSE [cqueue |-> [Q.cqueue EXCEPT ![Succ(Q.end)] = msg],
        st     |-> Q.st,
        end    |-> Succ(Q.end)]

push(Q, msg) ==
  IF isfull(Q)
  THEN Q
  ELSE [cqueue |-> [Q.cqueue EXCEPT ![Q.end] = msg, ![Succ(Q.end)] = Null],
        st     |-> Q.st,
        end    |-> Succ(Q.end)]

\* Mutant: the slot keeps the pointer to the message deleted.
pop_dangling(Q) ==
  IF isempty(Q) THEN Q ELSE [Q EXCEPT !.st = Succ(Q.st)]

pop(Q) ==
  IF isempty(Q)
  THEN Q
  ELSE [cqueue |-> [Q.cqueue EXCEPT ![Q.st] = Null],
        st     |-> Succ(Q.st),
        end    |-> Q.end]

front(Q) == IF isempty(Q) THEN Null ELSE Q.cqueue[Q.st]

\* The slots whose message freeCQ hands to deletemsg.
freeCQ(Q) == {i \in Slot : Q.cqueue[i] # Null}

-----------------------------------------------------------------------------
(***************************************************************************)
(* One table driven by any sequence of calls.                              *)
(***************************************************************************)
VARIABLES table,     \* the queue
          result     \* what the last call of front returned

vars == <<table, result>>

Init == table = initqueue /\ result = Null

Push(msg) == table' = push(table, msg) /\ UNCHANGED result

Pop == table' = pop(table) /\ UNCHANGED result

Front == result' = front(table) /\ UNCHANGED table

\* my_close frees the table's messages; the init_connection of the next
\* connection allocates a table and initialises it.
Renew == table' = initqueue /\ UNCHANGED result

Next == (\E msg \in Msg : Push(msg)) \/ Pop \/ Front \/ Renew

Spec == Init /\ [][Next]_vars

-----------------------------------------------------------------------------
Size(Q) == IF Q.st <= Q.end THEN Q.end - Q.st ELSE Q.end + MAX_MSG + 1 - Q.st

\* The slot of the k-th oldest message, k counted from 1.
Nth(Q, k) ==
  IF Q.st + k - 1 <= MAX_MSG THEN Q.st + k - 1 ELSE Q.st + k - 2 - MAX_MSG

\* The slots between st and end.
Window(Q) ==
  IF Q.st <= Q.end THEN Q.st .. (Q.end - 1)
                   ELSE (Q.st .. MAX_MSG) \union (0 .. (Q.end - 1))

Contents(Q) == [k \in 1 .. Size(Q) |-> Q.cqueue[Nth(Q, k)]]

(***************************************************************************)
(* Type correctness: the indices stay inside the array.                    *)
(***************************************************************************)
TypeOK == table \in QueueType /\ result \in Msg \union {Null}

(***************************************************************************)
(* A slot holds a message exactly when it lies between st and end, however *)
(* often the indices have wrapped.  freeCQ walks over all the slots and    *)
(* deletes what is not NULL: this is what makes it release every queued    *)
(* message, and none that pop has deleted already.                         *)
(***************************************************************************)
FreesExactlyTheQueued == freeCQ(table) = Window(table)

IInv == TypeOK /\ FreesExactlyTheQueued

(***************************************************************************)
(* The queue implements the bounded first-in first-out queue: contents in  *)
(* order between st and end, nothing lost, reordered or repeated when the  *)
(* indices wrap.                                                           *)
(***************************************************************************)
Fifo == INSTANCE BoundedFifo
          WITH items <- Contents(table), answer <- result, Capacity <- MAX_MSG

ImplementsFifo == Fifo!Spec
=============================================================================
