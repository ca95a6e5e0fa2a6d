---------------------------- MODULE CQueueProofs ----------------------------
(***************************************************************************)
(* For every capacity MAX_MSG and every set of messages: the circular      *)
(* queue of mysocket.c keeps its indices inside the array, owns exactly    *)
(* the messages between st and end, and implements a bounded first-in      *)
(* first-out queue.                                                        *)
(***************************************************************************)
EXTENDS CQueue, SequenceTheorems, TLAPS

USE QueueAssumption

\* The successor of a slot, without the modulo.
LEMMA SuccCases ==
  ASSUME NEW i \in Slot
  PROVE  Succ(i) = IF i = MAX_MSG THEN 0 ELSE i + 1
<1>1. CASE i = MAX_MSG
  <2>1. i + 1 = MAX_MSG + 1
    BY <1>1
  <2>2. (MAX_MSG + 1) % (MAX_MSG + 1) = 0
    BY SMT
  <2> QED
    BY <1>1, <2>1, <2>2 DEF Succ
<1>2. CASE i # MAX_MSG
  <2>1. i + 1 \in 0 .. MAX_MSG
    BY <1>2 DEF Slot
  <2>2. (i + 1) % (MAX_MSG + 1) = i + 1
    BY <2>1, SMT
  <2> QED
    BY <1>2, <2>2 DEF Succ
<1> QED
  BY <1>1, <1>2

LEMMA SuccType == \A i \in Slot : Succ(i) \in Slot /\ Succ(i) # i
BY SuccCases DEF Slot

-----------------------------------------------------------------------------
(***************************************************************************)
(* What each function of mysocket.c does to a well formed queue.           *)
(***************************************************************************)
WellFormed(Q) == Q \in QueueType /\ freeCQ(Q) = Window(Q)

LEMMA InitWellFormed ==
  /\ WellFormed(initqueue)
  /\ Contents(initqueue) = <<>>
BY DEF WellFormed, initqueue, QueueType, Slot, freeCQ, Window, Contents, Size

LEMMA SizeType ==
  ASSUME NEW Q \in QueueType
  PROVE  /\ Size(Q) \in 0 .. MAX_MSG
         /\ isempty(Q) <=> Size(Q) = 0
         /\ isfull(Q) <=> Size(Q) = MAX_MSG
         /\ \A k \in 1 .. Size(Q) : Nth(Q, k) \in Window(Q) /\ Nth(Q, k) \in Slot
<1>1. Q.st \in Slot /\ Q.end \in Slot
  BY DEF QueueType
<1>2. Succ(Q.end) = IF Q.end = MAX_MSG THEN 0 ELSE Q.end + 1
  BY <1>1, SuccCases
<1>3. Size(Q) \in 0 .. MAX_MSG /\ (isempty(Q) <=> Size(Q) = 0)
  BY <1>1 DEF Size, isempty, Slot
<1>4. isfull(Q) <=> Size(Q) = MAX_MSG
  BY <1>1, <1>2 DEF Size, isfull, Slot
<1>5. ASSUME NEW k \in 1 .. Size(Q)
      PROVE  Nth(Q, k) \in Window(Q) /\ Nth(Q, k) \in Slot
  <2>1. CASE Q.st <= Q.end
    BY <1>1, <2>1 DEF Size, Nth, Window, Slot
  <2>2. CASE ~(Q.st <= Q.end)
    BY <1>1, <2>2 DEF Size, Nth, Window, Slot
  <2> QED
    BY <2>1, <2>2
<1> QED
  BY <1>3, <1>4, <1>5

LEMMA ContentsType ==
  ASSUME NEW Q, WellFormed(Q)
  PROVE  /\ Contents(Q) \in Seq(Msg)
         /\ Len(Contents(Q)) = Size(Q)
         /\ \A k \in 1 .. Size(Q) : Contents(Q)[k] = Q.cqueue[Nth(Q, k)]
<1>1. Q \in QueueType /\ freeCQ(Q) = Window(Q)
  BY DEF WellFormed
<1>2. \A k \in 1 .. Size(Q) : Q.cqueue[Nth(Q, k)] \in Msg
  <2> SUFFICES ASSUME NEW k \in 1 .. Size(Q)
               PROVE  Q.cqueue[Nth(Q, k)] \in Msg
    OBVIOUS
  <2>1. Nth(Q, k) \in freeCQ(Q) /\ Nth(Q, k) \in Slot
    BY <1>1, SizeType
  <2> QED
    BY <1>1, <2>1 DEF freeCQ, QueueType
<1>3. Size(Q) \in Nat
  BY <1>1, SizeType
<1> QED
  BY <1>2, <1>3 DEF Contents

LEMMA FrontIsHead ==
  ASSUME NEW Q, WellFormed(Q)
  PROVE  front(Q) = IF Contents(Q) = <<>> THEN Null ELSE Head(Contents(Q))
<1>1. Q \in QueueType
  BY DEF WellFormed
<1>2. Q.st \in Slot
  BY <1>1 DEF QueueType
<1>3. CASE isempty(Q)
  BY <1>1, <1>3, SizeType, ContentsType, EmptySeq DEF front
<1>4. CASE ~isempty(Q)
  <2>1. 1 \in 1 .. Size(Q) /\ Size(Q) \in Nat
    BY <1>1, <1>4, SizeType
  <2>2. Nth(Q, 1) = Q.st
    BY <1>2 DEF Nth, Slot
  <2>3. Contents(Q)[1] = Q.cqueue[Q.st] /\ Contents(Q) # <<>>
    BY <2>1, <2>2, ContentsType
  <2> QED
    BY <1>4, <2>3, ContentsType DEF front
<1> QED
  BY <1>3, <1>4

LEMMA PushAppends ==
  ASSUME NEW Q, WellFormed(Q), NEW msg \in Msg
  PROVE  /\ WellFormed(push(Q, msg))
         /\ Contents(push(Q, msg)) =
              IF Len(Contents(Q)) < MAX_MSG THEN Append(Contents(Q), msg)
                                            ELSE Contents(Q)
<1> DEFINE R == push(Q, msg)
<1>1. /\ Q \in QueueType /\ freeCQ(Q) = Window(Q)
      /\ Q.st \in Slot /\ Q.end \in Slot
      /\ Q.cqueue \in [Slot -> Msg \union {Null}]
  BY DEF WellFormed, QueueType
<1>2. Succ(Q.end) = IF Q.end = MAX_MSG THEN 0 ELSE Q.end + 1
  BY <1>1, SuccCases
<1>3. CASE isfull(Q)
  BY <1>1, <1>3, SizeType, ContentsType DEF push
<1>4. CASE ~isfull(Q)
  <2>1. /\ R.cqueue = [Q.cqueue EXCEPT ![Q.end] = msg, ![Succ(Q.end)] = Null]
        /\ R.st = Q.st /\ R.end = Succ(Q.end)
        /\ R \in QueueType
    BY <1>1, <1>4, SuccType DEF push, QueueType
  <2>2. /\ R.cqueue[Q.end] = msg
        /\ R.cqueue[Succ(Q.end)] = Null
        /\ \A i \in Slot \ {Q.end, Succ(Q.end)} : R.cqueue[i] = Q.cqueue[i]
    BY <1>1, <2>1, SuccType
  <2>3. Window(R) = Window(Q) \union {Q.end} /\ Succ(Q.end) \notin Window(Q)
    BY <1>1, <1>2, <1>4, <2>1 DEF Window, Slot, isfull
  <2>4. freeCQ(R) = freeCQ(Q) \union {Q.end}
    BY <1>1, <2>2, <2>3, SuccType DEF freeCQ
  <2>5. Size(R) = Size(Q) + 1 /\ Nth(R, Size(R)) = Q.end
    BY <1>1, <1>2, <1>4, <2>1 DEF Size, Nth, Slot, isfull
  <2>6. \A k \in 1 .. Size(Q) : Nth(R, k) = Nth(Q, k)
    BY <2>1 DEF Nth
  <2>7. WellFormed(R)
    BY <1>1, <2>1, <2>3, <2>4 DEF WellFormed
  <2>8. \A k \in 1 .. Size(Q) : R.cqueue[Nth(R, k)] = Q.cqueue[Nth(Q, k)]
    <3> SUFFICES ASSUME NEW k \in 1 .. Size(Q)
                 PROVE  R.cqueue[Nth(Q, k)] = Q.cqueue[Nth(Q, k)]
      BY <2>6
    <3>1. Nth(Q, k) \in Window(Q) /\ Nth(Q, k) \in Slot
      BY <1>1, SizeType
    <3>2. Q.end \notin Window(Q)
      BY <1>1 DEF Window, Slot
    <3> QED
      BY <2>2, <2>3, <3>1, <3>2
  <2>9. Contents(R) = Append(Contents(Q), msg)
    <3> DEFINE c == Append(Contents(Q), msg)
    <3>1. c \in Seq(Msg) /\ Len(c) = Size(Q) + 1 /\ Size(Q) \in Nat
      BY <1>1, ContentsType, SizeType
    <3>2. Contents(R) \in Seq(Msg) /\ Len(Contents(R)) = Size(R)
      BY <2>7, ContentsType
    <3>3. \A k \in 1 .. Size(R) : Contents(R)[k] = c[k]
      <4> SUFFICES ASSUME NEW k \in 1 .. Size(R)
                   PROVE  Contents(R)[k] = c[k]
        OBVIOUS
      <4>1. CASE k = Size(R)
        <5>1. Contents(R)[k] = R.cqueue[Nth(R, k)]
          BY <2>7, ContentsType
        <5>2. R.cqueue[Nth(R, k)] = msg
          BY <2>2, <2>5, <4>1
        <5>3. k = Len(Contents(Q)) + 1
          BY <1>1, <2>5, <4>1, ContentsType
        <5>4. c[k] = msg
          BY <5>3, ContentsType, AppendProperties
        <5> QED
          BY <5>1, <5>2, <5>4
      <4>2. CASE k # Size(R)
        <5>1. k \in 1 .. Size(Q)
          BY <2>5, <3>1, <4>2
        <5> QED
          BY <2>7, <2>8, <3>1, <5>1, ContentsType
      <4> QED
        BY <4>1, <4>2
    <3> QED
      BY <2>5, <3>1, <3>2, <3>3, SeqEqual
  <2>10. Len(Contents(Q)) < MAX_MSG
    BY <1>1, <1>4, SizeType, ContentsType
  <2> QED
    BY <2>7, <2>9, <2>10
<1> QED
  BY <1>3, <1>4

LEMMA PopTails ==
  ASSUME NEW Q, WellFormed(Q)
  PROVE  /\ WellFormed(pop(Q))
         /\ Contents(pop(Q)) =
              IF Contents(Q) = <<>> THEN Contents(Q) ELSE Tail(Contents(Q))
<1> DEFINE R == pop(Q)
<1>1. /\ Q \in QueueType /\ freeCQ(Q) = Window(Q)
      /\ Q.st \in Slot /\ Q.end \in Slot
      /\ Q.cqueue \in [Slot -> Msg \union {Null}]
  BY DEF WellFormed, QueueType
<1>2. Succ(Q.st) = IF Q.st = MAX_MSG THEN 0 ELSE Q.st + 1
  BY <1>1, SuccCases
<1>3. CASE isempty(Q)
  BY <1>1, <1>3, SizeType, ContentsType, EmptySeq DEF pop
<1>4. CASE ~isempty(Q)
  <2>1. /\ R.cqueue = [Q.cqueue EXCEPT ![Q.st] = Null]
        /\ R.st = Succ(Q.st) /\ R.end = Q.end
        /\ R \in QueueType
    BY <1>1, <1>4, SuccType DEF pop, QueueType
  <2>2. /\ R.cqueue[Q.st] = Null
        /\ \A i \in Slot \ {Q.st} : R.cqueue[i] = Q.cqueue[i]
    BY <1>1, <2>1
  <2>3. Window(R) = Window(Q) \ {Q.st}
    BY <1>1, <1>2, <1>4, <2>1 DEF Window, Slot, isempty
  <2>4. freeCQ(R) = freeCQ(Q) \ {Q.st}
    BY <1>1, <2>2 DEF freeCQ
  <2>5. Size(R) = Size(Q) - 1 /\ Size(Q) \in Nat \ {0}
    <3>1. /\ Q.st \in 0 .. MAX_MSG /\ Q.end \in 0 .. MAX_MSG /\ Q.st # Q.end
          /\ R.st = IF Q.st = MAX_MSG THEN 0 ELSE Q.st + 1
          /\ R.end = Q.end
      BY <1>1, <1>2, <1>4, <2>1 DEF Slot, isempty
    <3> HIDE DEF R
    <3>2. CASE Q.st = MAX_MSG
      BY <3>1, <3>2 DEF Size
    <3>3. CASE Q.st # MAX_MSG
      BY <3>1, <3>3 DEF Size
    <3> QED
      BY <3>2, <3>3
  <2>6. \A k \in 1 .. Size(R) : Nth(R, k) = Nth(Q, k + 1)
    <3>1. /\ Q.st \in 0 .. MAX_MSG
          /\ R.st = IF Q.st = MAX_MSG THEN 0 ELSE Q.st + 1
          /\ Size(R) \in Int
          /\ \A k \in 1 .. Size(R) : k <= MAX_MSG
      BY <1>1, <1>2, <2>1, <2>5, SizeType DEF Slot
    <3> HIDE DEF R
    <3> SUFFICES ASSUME NEW k \in 1 .. Size(R)
                 PROVE  Nth(R, k) = Nth(Q, k + 1)
      OBVIOUS
    <3>2. CASE Q.st = MAX_MSG
      BY <3>1, <3>2 DEF Nth
    <3>3. CASE Q.st # MAX_MSG
      BY <3>1, <3>3 DEF Nth
    <3> QED
      BY <3>2, <3>3
  <2>7. WellFormed(R)
    BY <1>1, <2>1, <2>3, <2>4 DEF WellFormed
  <2>8. Contents(R) = Tail(Contents(Q))
    <3> DEFINE c == Tail(Contents(Q))
    <3>1. Contents(Q) \in Seq(Msg) /\ Len(Contents(Q)) = Size(Q)
      BY ContentsType
    <3>2. c \in Seq(Msg) /\ Len(c) = Size(R)
      BY <2>5, <3>1, HeadTailProperties, EmptySeq
    <3>3. Contents(R) \in Seq(Msg) /\ Len(Contents(R)) = Size(R)
      BY <2>7, ContentsType
    <3>4. \A k \in 1 .. Size(R) : Contents(R)[k] = c[k]
      <4> SUFFICES ASSUME NEW k \in 1 .. Size(R)
                   PROVE  Contents(R)[k] = c[k]
        OBVIOUS
      <4>1. Contents(R)[k] = R.cqueue[Nth(Q, k + 1)]
        BY <2>6, <2>7, ContentsType
      <4>2. Nth(Q, k + 1) # Q.st /\ Nth(Q, k + 1) \in Slot
        <5>1. Nth(R, k) \in Window(R) /\ Nth(R, k) \in Slot
          BY <2>1, SizeType
        <5> QED
          BY <2>3, <2>6, <5>1
      <4>3. k + 1 \in 1 .. Size(Q)
        BY <2>5
      <4>4. Contents(Q)[k + 1] = Q.cqueue[Nth(Q, k + 1)]
        BY <4>3, ContentsType
      <4>5. c[k] = Contents(Q)[k + 1]
        BY <2>5, <3>1, <3>2, HeadTailProperties, EmptySeq
      <4> QED
        BY <2>2, <4>1, <4>2, <4>4, <4>5
    <3> QED
      BY <3>2, <3>3, <3>4, SeqEqual
  <2>9. Contents(Q) # <<>>
    BY <2>5, ContentsType, EmptySeq
  <2> QED
    BY <2>7, <2>8, <2>9
<1> QED
  BY <1>3, <1>4

-----------------------------------------------------------------------------
(***************************************************************************)
(* The invariant is inductive as it stands: every call takes a well formed *)
(* table to a well formed one.                                             *)
(***************************************************************************)
LEMMA StepKeepsIInv == IInv /\ [Next]_vars => IInv'
<1> SUFFICES ASSUME IInv, [Next]_vars PROVE IInv'
  OBVIOUS
<1>1. WellFormed(table) /\ result \in Msg \union {Null}
  BY DEF IInv, TypeOK, FreesExactlyTheQueued, WellFormed
<1>2. ASSUME WellFormed(table'), result' \in Msg \union {Null}
      PROVE  IInv'
  BY <1>2 DEF IInv, TypeOK, FreesExactlyTheQueued, WellFormed
<1>3. ASSUME NEW msg \in Msg, Push(msg) PROVE IInv'
  BY <1>1, <1>2, <1>3, PushAppends DEF Push
<1>4. CASE Pop
  BY <1>1, <1>2, <1>4, PopTails DEF Pop
<1>5. CASE Front
  <2>1. front(table) \in Msg \union {Null}
    BY <1>1, FrontIsHead, ContentsType, HeadTailProperties
  <2> QED
    BY <1>1, <1>2, <1>5, <2>1 DEF Front
<1>6. CASE Renew
  BY <1>1, <1>2, <1>6, InitWellFormed DEF Renew
<1>7. CASE UNCHANGED vars
  BY <1>1, <1>2, <1>7 DEF vars
<1> QED
  BY <1>3, <1>4, <1>5, <1>6, <1>7 DEF Next

LEMMA InitHasIInv == Init => IInv
BY InitWellFormed DEF Init, IInv, TypeOK, FreesExactlyTheQueued, WellFormed

(***************************************************************************)
(* The indices st and end never leave the array and a slot holds a message *)
(* or NULL, whatever the order of push, pop and front calls.               *)
(***************************************************************************)
THEOREM QueueTypeCorrect == Spec => []TypeOK
<1>1. IInv => TypeOK
  BY DEF IInv
<1> QED
  BY <1>1, InitHasIInv, StepKeepsIInv, PTL DEF Spec

(***************************************************************************)
(* freeCQ releases every queued message once and nothing else: no message  *)
(* leaks from a closed table and none that pop deleted is deleted again.   *)
(***************************************************************************)
THEOREM FreeReleasesTheQueued == Spec => []FreesExactlyTheQueued
<1>1. IInv => FreesExactlyTheQueued
  BY DEF IInv
<1> QED
  BY <1>1, InitHasIInv, StepKeepsIInv, PTL DEF Spec

(***************************************************************************)
(* The circular queue implements the bounded first-in first-out queue.     *)
(***************************************************************************)
THEOREM QueueIsFifo == Spec => ImplementsFifo
<1>1. Init => Fifo!Init
  BY InitWellFormed DEF Init, Fifo!Init
<1>2. IInv /\ [Next]_vars => [Fifo!Next]_(Fifo!vars)
  <2> SUFFICES ASSUME IInv, [Next]_vars
               PROVE  Fifo!Next \/ UNCHANGED Fifo!vars
    OBVIOUS
  <2>1. WellFormed(table)
    BY DEF IInv, TypeOK, FreesExactlyTheQueued, WellFormed
  <2>2. ASSUME NEW msg \in Msg, Push(msg) PROVE Fifo!Put(msg)
    BY <2>1, <2>2, PushAppends DEF Push, Fifo!Put
  <2>3. CASE Pop
    BY <2>1, <2>3, PopTails DEF Pop, Fifo!Remove, Fifo!Next
  <2>4. CASE Front
    BY <2>1, <2>4, FrontIsHead DEF Front, Fifo!Look, Fifo!Next
  <2>5. CASE Renew
    BY <2>5, InitWellFormed DEF Renew, Fifo!Clear, Fifo!Next
  <2>6. CASE UNCHANGED vars
    BY <2>6 DEF vars, Fifo!vars, Contents, Size, Nth
  <2> QED
    BY <2>2, <2>3, <2>4, <2>5, <2>6 DEF Next, Fifo!Next
<1> QED
  BY <1>1, <1>2, InitHasIInv, StepKeepsIInv, PTL
     DEF Spec, ImplementsFifo, Fifo!Spec
=============================================================================
