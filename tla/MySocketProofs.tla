--------------------------- MODULE MySocketProofs ---------------------------
(***************************************************************************)
(* Proofs of the safety properties of module MySocket, for every program,  *)
(* any number of connections and any size of the tables and the buffers,   *)
(* and that the two ends of a connection implement the message channels of *)
(* module MsgChannel.                                                      *)
(***************************************************************************)
EXTENDS MySocket, SequenceTheorems, TLAPS

PCType == [End -> [Thread -> PC]]
MutexType == [End -> [Table -> Thread \union {"none"}]]
TableType == [End -> [Table -> Seq(Msg)]]

-----------------------------------------------------------------------------
(***************************************************************************)
(* The building blocks of the actions.                                     *)
(***************************************************************************)
\* A program makes calls of the library only, my_close the last.
LEMMA CallOf ==
  ASSUME NEW p \in End, ip[p] \in Nat \ {0}, ~Finished(p)
  PROVE  /\ ip[p] \in 1 .. Len(Program[p])
         /\ Program[p][ip[p]] \in Call
         /\ InCall(p, "my_send") => Program[p][ip[p]].msg \in Msg
         /\ InCall(p, "my_close") <=> ip[p] = Len(Program[p])
<1>1. Program[p] \in Seq(Call) BY SocketAssumption
<1>2. Len(Program[p]) \in Nat BY <1>1
<1>3. ip[p] \in 1 .. Len(Program[p]) BY <1>2 DEF Finished
<1>4. Program[p][ip[p]] \in Call BY <1>1, <1>3
<1>5. InCall(p, "my_close") <=> ip[p] = Len(Program[p])
  BY <1>3, SocketAssumption DEF InCall, Finished
<1>6. InCall(p, "my_send") => Program[p][ip[p]].msg \in Msg
  BY <1>4 DEF InCall, Call
<1> QED BY <1>3, <1>4, <1>5, <1>6

\* A thread that moves leaves the other threads where they are.
LEMMA MoveFacts ==
  ASSUME pc \in PCType, NEW p \in End, NEW t \in Thread, NEW from, NEW to \in PC,
         Move(p, t, from, to)
  PROVE  /\ pc' \in PCType
         /\ pc[p][t] = from
         /\ pc'[p][t] = to
         /\ \A q \in End, u \in Thread :
              (q # p \/ u # t) => pc'[q][u] = pc[q][u]
  BY DEF Move, PCType

\* A thread that moves and signals leaves the third one where it is, and its
\* partner out of pthread_cond_wait.
LEMMA SignalFacts ==
  ASSUME pc \in PCType, NEW p \in End, NEW t \in Thread, NEW x \in Table,
         NEW from, NEW to \in PC, MoveAndSignal(p, t, x, from, to),
         Producer(t, x) \/ Consumer(t, x)
  PROVE  /\ pc' \in PCType
         /\ pc[p][t] = from
         /\ pc'[p][t] = to
         /\ pc'[p][Partner(t, x)] = IF Waits(p, Partner(t, x), x) THEN "start"
                                    ELSE pc[p][Partner(t, x)]
         /\ \A q \in End, u \in Thread :
              (q # p \/ u \notin {t, Partner(t, x)}) => pc'[q][u] = pc[q][u]
<1> DEFINE u == Partner(t, x)
           v == IF Waits(p, u, x) THEN "start" ELSE pc[p][u]
<1>1. u \in Thread /\ u # t BY DEF Partner, Thread, Producer, Consumer
<1>2. v \in PC BY <1>1 DEF PC, PCType
<1>3. pc[p][t] = from /\ pc' = [pc EXCEPT ![p][t] = to, ![p][u] = v]
  BY DEF MoveAndSignal
<1> HIDE DEF u, v
<1>4. pc' = [[pc EXCEPT ![p][t] = to] EXCEPT ![p][u] = v] BY <1>3
<1>5. /\ pc' \in PCType
      /\ pc'[p][t] = to
      /\ pc'[p][u] = v
      /\ \A q \in End, w \in Thread :
           (q # p \/ w \notin {t, u}) => pc'[q][w] = pc[q][w]
  BY <1>1, <1>2, <1>4 DEF PCType
<1> QED BY <1>3, <1>5 DEF u, v

\* Locking and unlocking one mutex leaves the others alone.
LEMMA MutexFacts ==
  ASSUME mutex \in MutexType, NEW p \in End, NEW x \in Table,
         NEW v \in Thread \union {"none"}, mutex' = [mutex EXCEPT ![p][x] = v]
  PROVE  /\ mutex' \in MutexType
         /\ mutex'[p][x] = v
         /\ \A q \in End, y \in Table :
              (q # p \/ y # x) => mutex'[q][y] = mutex[q][y]
  BY DEF MutexType

\* A change of one table leaves the others alone.
LEMMA TableFacts ==
  ASSUME table \in TableType, NEW p \in End, NEW x \in Table,
         NEW v \in Seq(Msg), table' = [table EXCEPT ![p][x] = v]
  PROVE  /\ table' \in TableType
         /\ table'[p][x] = v
         /\ \A q \in End, y \in Table :
              (q # p \/ y # x) => table'[q][y] = table[q][y]
  BY DEF TableType

-----------------------------------------------------------------------------
(***************************************************************************)
(* A step of one process leaves the invariant of the others as it is.      *)
(***************************************************************************)
Untouched(q) ==
  /\ ip'[q] = ip[q] /\ pc'[q] = pc[q] /\ mutex'[q] = mutex[q]
  /\ table'[q] = table[q] /\ smsg'[q] = smsg[q] /\ rmsg'[q] = rmsg[q]
  /\ cancel'[q] = cancel[q] /\ alive'[q] = alive[q]

LEMMA Frame ==
  ASSUME NEW q \in End, LocalInv(q), Untouched(q)
  PROVE  LocalInv(q)'
<1> USE DEF Untouched, Uses, InCall, Finished, MustWait, isfull, isempty
<1>1. HolderInv(q)' BY DEF LocalInv, HolderInv, Holds
<1>2. TestInv(q)' BY DEF LocalInv, TestInv
<1>3. WokenInTime(q)' BY DEF LocalInv, WokenInTime, Waits
<1>4. HandInv(q)' BY DEF LocalInv, HandInv
<1>5. CloseInv(q)' BY DEF LocalInv, CloseInv, Closing
<1> QED BY <1>1, <1>2, <1>3, <1>4, <1>5 DEF LocalInv

LEMMA Others ==
  ASSUME IInv, NEW p \in End,
         pc' \in PCType, mutex' \in MutexType, table' \in TableType,
         \A q \in End, u \in Thread : q # p => pc'[q][u] = pc[q][u],
         \A q \in End, y \in Table : q # p =>
           mutex'[q][y] = mutex[q][y] /\ table'[q][y] = table[q][y],
         \A q \in End : q # p =>
           /\ ip'[q] = ip[q] /\ smsg'[q] = smsg[q] /\ rmsg'[q] = rmsg[q]
           /\ cancel'[q] = cancel[q] /\ alive'[q] = alive[q]
  PROVE  \A q \in End : q # p => LocalInv(q)'
<1> SUFFICES ASSUME NEW q \in End, q # p PROVE LocalInv(q)' OBVIOUS
<1> USE DEF PCType, MutexType, TableType
<1>1. TypeOK BY DEF IInv
<1>2. pc'[q] = pc[q] BY <1>1 DEF TypeOK
<1>3. mutex'[q] = mutex[q] BY <1>1 DEF TypeOK
<1>4. table'[q] = table[q] BY <1>1 DEF TypeOK
<1>5. Untouched(q) BY <1>2, <1>3, <1>4 DEF Untouched
<1> QED BY <1>5, Frame DEF IInv

\* A step that changes nothing of the connection keeps what is known of it.
LEMMA NetFrame ==
  ASSUME NetInv, UNCHANGED <<fdOpen, reset, alive>>,
         \A p \in End : cancel[p] => cancel'[p]
  PROVE  NetInv'
  BY DEF NetInv, Gone

-----------------------------------------------------------------------------
(***************************************************************************)
(* The loop that takes a mutex and waits.                                  *)
(***************************************************************************)
LEMMA LoopStep ==
  ASSUME IInv, NEW p \in End, alive[p], NEW t \in Thread, NEW x \in Table,
         WaitLoop(p, t, x) \/ Wakeup(p, t, x)
  PROVE  IInv'
<1> USE DEF PCType, MutexType
<1>1. TypeOK /\ pc \in PCType /\ mutex \in MutexType BY DEF IInv, TypeOK
<1>2. /\ UNCHANGED <<ip, table, smsg, rmsg, cancel, wire, fdOpen, reset, alive,
                    sent, delivered>>
      /\ Uses(p, t, x)
  BY DEF WaitLoop, Wakeup, netVars, histVars
<1>4. /\ pc' \in PCType /\ mutex' \in MutexType
      /\ \A q \in End, u \in Thread : (q # p \/ u # t) => pc'[q][u] = pc[q][u]
      /\ \A q \in End, y \in Table : (q # p \/ y # x) => mutex'[q][y] = mutex[q][y]
      /\ \/ /\ pc[p][t] = "start" /\ pc'[p][t] = "test"
            /\ mutex[p][x] = "none" /\ mutex'[p][x] = t
         \/ /\ pc[p][t] = "test" /\ mutex'[p][x] = mutex[p][x]
            /\ pc'[p][t] = IF MustWait(p, t, x) THEN "park" ELSE "go"
         \/ /\ pc[p][t] = "park" /\ pc'[p][t] = "wait"
            /\ mutex'[p][x] = "none"
         \/ /\ pc[p][t] = "wait" /\ pc'[p][t] = "start"
            /\ mutex'[p][x] = mutex[p][x]
         \/ /\ pc[p][t] \in {"park", "go"} /\ pc'[p][t] = "dead"
            /\ mutex'[p][x] = mutex[p][x] /\ cancel[p] /\ t # "app"
  <2>1. CASE Acquire(p, t, x)
    BY <2>1, <1>1, MoveFacts, MutexFacts DEF Acquire, PC
  <2>2. CASE Test(p, t, x)
    BY <2>2, <1>1, MoveFacts DEF Test, PC
  <2>3. CASE Park(p, t, x)
    BY <2>3, <1>1, MoveFacts, MutexFacts DEF Park, Unlock, PC
  <2>4. CASE TestCancel(p, t)
    BY <2>4, <1>1 DEF TestCancel, Cancelled, PC
  <2>5. CASE Unpark(p, t, x)
    BY <2>5, <1>1, MoveFacts DEF Unpark, PC
  <2> QED BY <2>1, <2>2, <2>3, <2>4, <2>5 DEF WaitLoop, Wakeup
<1>5. TypeOK' BY <1>1, <1>2, <1>4 DEF TypeOK
<1>6. \A q \in End : q # p => LocalInv(q)'
  BY <1>1, <1>2, <1>4, Others DEF TypeOK, TableType
<1>7. LocalInv(p)
  BY DEF IInv
<1> USE DEF Uses, Producer, Consumer, InCall, Finished
<1>8. HolderInv(p)'
  BY <1>2, <1>4, <1>7 DEF LocalInv, HolderInv, Holds
<1>9. TestInv(p)'
  BY <1>2, <1>4, <1>7 DEF LocalInv, TestInv, MustWait, isfull, isempty
<1>10. WokenInTime(p)'
  <2> SUFFICES ASSUME NEW y \in Table, NEW u \in Thread,
                      alive'[p], Waits(p, u, y)', ~MustWait(p, u, y)'
               PROVE  Uses(p, Partner(u, y), y)' /\ pc'[p][Partner(u, y)] = "signal"
    BY DEF WokenInTime
  <2>1. Uses(p, u, y) /\ ~MustWait(p, u, y) /\ pc'[p][u] = "wait"
    BY <1>2 DEF Waits, MustWait, isfull, isempty
  <2>2. pc[p][u] = "wait"
    BY <2>1, <1>2, <1>4, <1>7 DEF LocalInv, TestInv, Thread, Table
  <2>3. Uses(p, Partner(u, y), y) /\ pc[p][Partner(u, y)] = "signal"
    BY <2>1, <2>2, <1>2, <1>7 DEF LocalInv, WokenInTime, Waits
  <2>4. Partner(u, y) \in Thread BY DEF Partner, Thread
  <2> QED BY <1>2, <2>3, <2>4, <1>4
<1>11. HandInv(p)'
  BY <1>2, <1>4, <1>7 DEF LocalInv, HandInv, Thread
<1>12. CloseInv(p)'
  <2>1. CloseInv(p) BY <1>7 DEF LocalInv
  <2>2. ~Finished(p)
    BY <2>1, <1>2, <1>4 DEF CloseInv
  <2>3. t = "app" => ~InCall(p, "my_close")
    BY <1>2
  <2>4. pc'[p]["app"] # pc[p]["app"] =>
          /\ ~InCall(p, "my_close")
          /\ pc'[p]["app"] \in {"start", "test", "park", "go", "wait"}
    BY <2>3, <1>4 DEF Thread
  <2>5. /\ pc[p]["S"] # "dead" /\ pc'[p]["S"] = "dead" => cancel[p]
        /\ pc[p]["R"] # "dead" /\ pc'[p]["R"] = "dead" => cancel[p]
        /\ pc[p]["S"] = "dead" => pc'[p]["S"] = "dead"
        /\ pc[p]["R"] \in {"dead", "returned"} => pc'[p]["R"] = pc[p]["R"]
    BY <1>4 DEF Thread
  <2> QED BY <2>1, <2>2, <2>3, <2>4, <2>5, <1>2 DEF CloseInv, Closing
<1>13. NetInv' BY <1>2, NetFrame DEF IInv
<1> QED
  BY <1>5, <1>6, <1>8, <1>9, <1>10, <1>11, <1>12, <1>13 DEF IInv, LocalInv

-----------------------------------------------------------------------------
(***************************************************************************)
(* The steps that move a message into a table, or out of one.              *)
(***************************************************************************)
LEMMA SendPutStep ==
  ASSUME IInv, NEW p \in End, alive[p], SendPut(p)
  PROVE  IInv'
<1> DEFINE m == Program[p][ip[p]].msg
<1> USE DEF PCType, MutexType, TableType
<1>1. /\ TypeOK /\ LocalInv(p) /\ pc \in PCType
      /\ mutex \in MutexType /\ table \in TableType
  BY DEF IInv, TypeOK
<1>2. /\ UNCHANGED <<smsg, rmsg, cancel, wire, fdOpen, reset, alive, delivered>>
      /\ InCall(p, "my_send")
      /\ ip' = [ip EXCEPT ![p] = @ + 1]
      /\ sent' = [sent EXCEPT ![p] = Append(@, m)]
  BY DEF SendPut, netVars, Return
<1>3. m \in Msg /\ ~Finished(p) BY CallOf, <1>1, <1>2 DEF InCall, TypeOK
<1>4. /\ pc' \in PCType /\ pc[p]["app"] = "go" /\ pc'[p]["app"] = "start"
      /\ pc'[p]["S"] = IF pc[p]["S"] = "wait" THEN "start" ELSE pc[p]["S"]
      /\ \A q \in End, u \in Thread :
           (q # p \/ u \notin {"app", "S"}) => pc'[q][u] = pc[q][u]
  <2>1. MoveAndSignal(p, "app", "send", "go", "start") BY DEF SendPut
  <2>2. /\ Partner("app", "send") = "S" /\ Producer("app", "send")
        /\ "app" \in Thread /\ "send" \in Table /\ "start" \in PC
        /\ Waits(p, "S", "send") <=> pc[p]["S"] = "wait"
    BY DEF Partner, Producer, Consumer, Thread, Table, PC, Waits, Uses
  <2> QED BY <2>1, <2>2, <1>1, SignalFacts
<1>5. /\ mutex' \in MutexType /\ mutex'[p]["send"] = "none"
      /\ \A q \in End, y \in Table :
           (q # p \/ y # "send") => mutex'[q][y] = mutex[q][y]
  BY <1>1, MutexFacts DEF SendPut, Unlock, Table
<1>6. Len(table[p]["send"]) \in Nat /\ Len(table[p]["send"]) < MAX_MSG
  <2>1. ~MustWait(p, "app", "send") /\ table[p]["send"] \in Seq(Msg)
    BY <1>1, <1>2, <1>4 DEF LocalInv, TestInv, Uses, Producer, Thread, Table
  <2>2. Len(table[p]["send"]) # MAX_MSG /\ Len(table[p]["send"]) <= MAX_MSG
    BY <2>1, <1>1 DEF MustWait, Producer, isfull, TypeOK, Table
  <2> QED BY <2>1, <2>2, SocketAssumption
<1>7. /\ table' \in TableType
      /\ table'[p]["send"] = Append(table[p]["send"], m)
      /\ \A q \in End, y \in Table :
           (q # p \/ y # "send") => table'[q][y] = table[q][y]
  <2>1. table[p]["send"] \in Seq(Msg) BY <1>1 DEF Table
  <2>2. table' = [table EXCEPT ![p]["send"] = Append(table[p]["send"], m)]
    <3>1. table' = [table EXCEPT ![p]["send"] = push(table[p]["send"], m)]
      BY DEF SendPut
    <3>2. push(table[p]["send"], m) = Append(table[p]["send"], m)
      BY <1>6, SocketAssumption DEF push, isfull
    <3> QED BY <3>1, <3>2
  <2>3. Append(table[p]["send"], m) \in Seq(Msg) BY <2>1, <1>3
  <2> QED BY <2>2, <2>3, <1>1, TableFacts DEF Table
<1>8. TypeOK'
  <2>1. \A q \in End, y \in Table : Len(table'[q][y]) <= MAX_MSG
    <3>1. Len(table'[p]["send"]) = Len(table[p]["send"]) + 1
      BY <1>1, <1>3, <1>7 DEF Table
    <3>2. \A q \in End, y \in Table :
            (q # p \/ y # "send") => Len(table'[q][y]) <= MAX_MSG
      BY <1>1, <1>7 DEF TypeOK
    <3> QED BY <3>1, <3>2, <1>6, SocketAssumption
  <2>2. ip' \in [End -> Nat \ {0}] /\ sent' \in [End -> Seq(Msg)]
    BY <1>1, <1>2, <1>3 DEF TypeOK
  <2> QED BY <2>1, <2>2, <1>1, <1>2, <1>4, <1>5, <1>7 DEF TypeOK
<1>9. \A q \in End : q # p => LocalInv(q)'
  <2>1. \A q \in End : q # p => ip'[q] = ip[q] BY <1>1, <1>2 DEF TypeOK
  <2>2. \A q \in End, u \in Thread : q # p => pc'[q][u] = pc[q][u] BY <1>4
  <2> QED BY <2>1, <2>2, <1>2, <1>4, <1>5, <1>7, Others
<1>10. ip[p] \in Nat /\ ip'[p] = ip[p] + 1 BY <1>1, <1>2 DEF TypeOK
<1> USE DEF Uses, Producer, Consumer
<1>11. HolderInv(p)'
  BY <1>1, <1>2, <1>4, <1>5 DEF LocalInv, HolderInv, Holds, Thread, Table
<1>12. TestInv(p)'
  BY <1>1, <1>2, <1>4, <1>5, <1>7
  DEF LocalInv, TestInv, HolderInv, Holds, MustWait, isfull, isempty, Thread, Table
<1>13. WokenInTime(p)'
  BY <1>1, <1>2, <1>4, <1>5, <1>7
  DEF LocalInv, WokenInTime, Waits, MustWait, isfull, isempty, Thread, Table, Partner
<1>14. HandInv(p)'
  BY <1>1, <1>2, <1>4 DEF LocalInv, HandInv, Thread
<1>15. CloseInv(p)'
  <2>1. ~cancel[p] /\ ip[p] # Len(Program[p])
    BY <1>1, <1>2, <1>3, CallOf DEF LocalInv, CloseInv, Closing, InCall, TypeOK
  <2>2. ~Finished(p)'
    BY <2>1, <1>1, <1>3, <1>10, CallOf DEF Finished, TypeOK
  <2> QED BY <2>1, <2>2, <1>1, <1>2, <1>4 DEF LocalInv, CloseInv, Closing, Thread
<1>16. NetInv' BY <1>2, NetFrame DEF IInv
<1> QED
  BY <1>8, <1>9, <1>11, <1>12, <1>13, <1>14, <1>15, <1>16 DEF IInv, LocalInv

LEMMA RecvGetStep ==
  ASSUME IInv, NEW p \in End, alive[p], RecvGet(p)
  PROVE  IInv'
<1> USE DEF PCType, MutexType, TableType
<1>1. /\ TypeOK /\ LocalInv(p) /\ pc \in PCType
      /\ mutex \in MutexType /\ table \in TableType
  BY DEF IInv, TypeOK
<1>2. /\ UNCHANGED <<ip, smsg, rmsg, cancel, wire, fdOpen, reset, alive, sent>>
      /\ InCall(p, "my_recv") /\ ~Finished(p)
      /\ delivered' =
           [delivered EXCEPT ![Peer[p]] = Append(@, Head(table[p]["recv"]))]
  BY DEF RecvGet, netVars, InCall
<1>4. /\ pc' \in PCType /\ pc[p]["app"] = "go" /\ pc'[p]["app"] = "signal"
      /\ \A q \in End, u \in Thread :
           (q # p \/ u # "app") => pc'[q][u] = pc[q][u]
  BY <1>1, MoveFacts DEF RecvGet, Thread, PC
<1>5. /\ mutex' \in MutexType /\ mutex'[p]["recv"] = "none"
      /\ \A q \in End, y \in Table :
           (q # p \/ y # "recv") => mutex'[q][y] = mutex[q][y]
  BY <1>1, MutexFacts DEF RecvGet, Unlock, Table
<1>6. table[p]["recv"] \in Seq(Msg) /\ table[p]["recv"] # <<>>
  BY <1>1, <1>2, <1>4
  DEF LocalInv, TestInv, Uses, Producer, Consumer, MustWait, isempty, Thread, Table
<1>7. /\ table' \in TableType
      /\ table'[p]["recv"] = Tail(table[p]["recv"])
      /\ \A q \in End, y \in Table :
           (q # p \/ y # "recv") => table'[q][y] = table[q][y]
  BY <1>1, <1>6, TableFacts DEF RecvGet, Table
<1>8. TypeOK'
  <2>1. \A q \in End, y \in Table : Len(table'[q][y]) <= MAX_MSG
    <3>1. Len(table'[p]["recv"]) <= Len(table[p]["recv"])
      BY <1>6, <1>7
    <3>2. \A q \in End, y \in Table :
            (q # p \/ y # "recv") => Len(table'[q][y]) <= MAX_MSG
      BY <1>1, <1>7 DEF TypeOK
    <3>3. Len(table[p]["recv"]) <= MAX_MSG /\ Len(table[p]["recv"]) \in Nat
          /\ Len(table'[p]["recv"]) \in Nat
      BY <1>1, <1>6, <1>7 DEF TypeOK, Table
    <3> QED BY <3>1, <3>2, <3>3, SocketAssumption
  <2>2. delivered' \in [End -> Seq(Msg)]
    <3>1. Head(table[p]["recv"]) \in Msg /\ Peer[p] \in End
      BY <1>6, SocketAssumption
    <3>2. delivered[Peer[p]] \in Seq(Msg) BY <3>1, <1>1 DEF TypeOK
    <3>3. Append(delivered[Peer[p]], Head(table[p]["recv"])) \in Seq(Msg)
      BY <3>1, <3>2
    <3> QED BY <3>1, <3>3, <1>1, <1>2 DEF TypeOK
  <2> QED BY <2>1, <2>2, <1>1, <1>2, <1>4, <1>5, <1>7 DEF TypeOK
<1>9. \A q \in End : q # p => LocalInv(q)'
  BY <1>1, <1>2, <1>4, <1>5, <1>7, Others DEF TypeOK
<1> USE DEF Uses, Producer, Consumer, InCall, Finished
<1>11. HolderInv(p)'
  BY <1>1, <1>2, <1>4, <1>5 DEF LocalInv, HolderInv, Holds, Thread, Table
<1>12. TestInv(p)'
  BY <1>1, <1>2, <1>4, <1>5, <1>7
  DEF LocalInv, TestInv, HolderInv, Holds, MustWait, isfull, isempty, Thread, Table
<1>13. WokenInTime(p)'
  BY <1>1, <1>2, <1>4, <1>5, <1>7
  DEF LocalInv, WokenInTime, Waits, MustWait, isfull, isempty, Thread, Table, Partner
<1>14. HandInv(p)'
  BY <1>1, <1>2, <1>4 DEF LocalInv, HandInv, Thread
<1>15. CloseInv(p)'
  BY <1>1, <1>2, <1>4 DEF LocalInv, CloseInv, Closing, Thread
<1>16. NetInv' BY <1>2, NetFrame DEF IInv
<1> QED
  BY <1>8, <1>9, <1>11, <1>12, <1>13, <1>14, <1>15, <1>16 DEF IInv, LocalInv

LEMMA STakeStep ==
  ASSUME IInv, NEW p \in End, alive[p], STake(p)
  PROVE  IInv'
<1> USE DEF PCType, MutexType, TableType
<1>1. /\ TypeOK /\ LocalInv(p) /\ pc \in PCType
      /\ mutex \in MutexType /\ table \in TableType
  BY DEF IInv, TypeOK
<1>2. /\ UNCHANGED <<ip, rmsg, cancel, wire, fdOpen, reset, alive, sent, delivered>>
      /\ ~cancel[p]
      /\ smsg' = [smsg EXCEPT ![p] = <<Head(table[p]["send"])>>]
  BY DEF STake, netVars, histVars
<1>4. /\ pc' \in PCType /\ pc[p]["S"] = "go" /\ pc'[p]["S"] = "signal"
      /\ \A q \in End, u \in Thread :
           (q # p \/ u # "S") => pc'[q][u] = pc[q][u]
  BY <1>1, MoveFacts DEF STake, Thread, PC
<1>5. /\ mutex' \in MutexType /\ mutex'[p]["send"] = "none"
      /\ \A q \in End, y \in Table :
           (q # p \/ y # "send") => mutex'[q][y] = mutex[q][y]
  BY <1>1, MutexFacts DEF STake, Unlock, Table
<1>6. table[p]["send"] \in Seq(Msg) /\ table[p]["send"] # <<>>
  BY <1>1, <1>4
  DEF LocalInv, TestInv, Uses, Producer, Consumer, MustWait, isempty, Thread, Table
<1>7. /\ table' \in TableType
      /\ table'[p]["send"] = Tail(table[p]["send"])
      /\ \A q \in End, y \in Table :
           (q # p \/ y # "send") => table'[q][y] = table[q][y]
  BY <1>1, <1>6, TableFacts DEF STake, Table
<1>8. TypeOK'
  <2>1. \A q \in End, y \in Table : Len(table'[q][y]) <= MAX_MSG
    <3>1. Len(table'[p]["send"]) <= Len(table[p]["send"])
      BY <1>6, <1>7
    <3>2. \A q \in End, y \in Table :
            (q # p \/ y # "send") => Len(table'[q][y]) <= MAX_MSG
      BY <1>1, <1>7 DEF TypeOK
    <3>3. Len(table[p]["send"]) <= MAX_MSG /\ Len(table[p]["send"]) \in Nat
          /\ Len(table'[p]["send"]) \in Nat
      BY <1>1, <1>6, <1>7 DEF TypeOK, Table
    <3> QED BY <3>1, <3>2, <3>3, SocketAssumption
  <2>2. smsg' \in [End -> AtMostOne]
    <3>1. <<Head(table[p]["send"])>> \in AtMostOne
      BY <1>6 DEF AtMostOne
    <3> QED BY <3>1, <1>1, <1>2 DEF TypeOK
  <2> QED BY <2>1, <2>2, <1>1, <1>2, <1>4, <1>5, <1>7 DEF TypeOK
<1>9. \A q \in End : q # p => LocalInv(q)'
  BY <1>1, <1>2, <1>4, <1>5, <1>7, Others DEF TypeOK
<1> USE DEF Uses, Producer, Consumer, InCall, Finished
<1>11. HolderInv(p)'
  BY <1>1, <1>2, <1>4, <1>5 DEF LocalInv, HolderInv, Holds, Thread, Table
<1>12. TestInv(p)'
  BY <1>1, <1>2, <1>4, <1>5, <1>7
  DEF LocalInv, TestInv, HolderInv, Holds, MustWait, isfull, isempty, Thread, Table
<1>13. WokenInTime(p)'
  BY <1>1, <1>2, <1>4, <1>5, <1>7
  DEF LocalInv, WokenInTime, Waits, MustWait, isfull, isempty, Thread, Table, Partner
<1>14. HandInv(p)'
  <2>1. smsg'[p] # <<>> BY <1>1, <1>2 DEF TypeOK
  <2> QED BY <2>1, <1>1, <1>2, <1>4 DEF LocalInv, HandInv, Thread
<1>15. CloseInv(p)'
  BY <1>1, <1>2, <1>4 DEF LocalInv, CloseInv, Closing, Thread
<1>16. NetInv' BY <1>2, NetFrame DEF IInv
<1> QED
  BY <1>8, <1>9, <1>11, <1>12, <1>13, <1>14, <1>15, <1>16 DEF IInv, LocalInv

LEMMA RPutStep ==
  ASSUME IInv, NEW p \in End, alive[p], RPut(p)
  PROVE  IInv'
<1> USE DEF PCType, MutexType, TableType
<1>1. /\ TypeOK /\ LocalInv(p) /\ pc \in PCType
      /\ mutex \in MutexType /\ table \in TableType
  BY DEF IInv, TypeOK
<1>2. /\ UNCHANGED <<ip, smsg, cancel, wire, fdOpen, reset, alive, sent, delivered>>
      /\ ~cancel[p]
      /\ rmsg' = [rmsg EXCEPT ![p] = <<>>]
  BY DEF RPut, netVars, histVars
<1>4. /\ pc' \in PCType /\ pc[p]["R"] = "go" /\ pc'[p]["R"] = "signal"
      /\ \A q \in End, u \in Thread :
           (q # p \/ u # "R") => pc'[q][u] = pc[q][u]
  BY <1>1, MoveFacts DEF RPut, Thread, PC
<1>3. rmsg[p] \in Seq(Msg) /\ rmsg[p] # <<>> /\ Head(rmsg[p]) \in Msg
  BY <1>1, <1>4 DEF LocalInv, HandInv, TypeOK, AtMostOne
<1>5. /\ mutex' \in MutexType /\ mutex'[p]["recv"] = "none"
      /\ \A q \in End, y \in Table :
           (q # p \/ y # "recv") => mutex'[q][y] = mutex[q][y]
  BY <1>1, MutexFacts DEF RPut, Unlock, Table
<1>6. Len(table[p]["recv"]) \in Nat /\ Len(table[p]["recv"]) < MAX_MSG
  <2>1. ~MustWait(p, "R", "recv") /\ table[p]["recv"] \in Seq(Msg)
    BY <1>1, <1>2, <1>4 DEF LocalInv, TestInv, Uses, Producer, Thread, Table
  <2>2. Len(table[p]["recv"]) # MAX_MSG /\ Len(table[p]["recv"]) <= MAX_MSG
    BY <2>1, <1>1 DEF MustWait, Producer, isfull, TypeOK, Table
  <2> QED BY <2>1, <2>2, SocketAssumption
<1>7. /\ table' \in TableType
      /\ table'[p]["recv"] = Append(table[p]["recv"], Head(rmsg[p]))
      /\ \A q \in End, y \in Table :
           (q # p \/ y # "recv") => table'[q][y] = table[q][y]
  <2>1. table[p]["recv"] \in Seq(Msg) BY <1>1 DEF Table
  <2>2. table' = [table EXCEPT ![p]["recv"] = Append(table[p]["recv"], Head(rmsg[p]))]
    <3>1. table' = [table EXCEPT ![p]["recv"] = push(table[p]["recv"], Head(rmsg[p]))]
      BY DEF RPut
    <3>2. push(table[p]["recv"], Head(rmsg[p])) = Append(table[p]["recv"], Head(rmsg[p]))
      BY <1>6, SocketAssumption DEF push, isfull
    <3> QED BY <3>1, <3>2
  <2>3. Append(table[p]["recv"], Head(rmsg[p])) \in Seq(Msg) BY <2>1, <1>3
  <2> QED BY <2>2, <2>3, <1>1, TableFacts DEF Table
<1>8. TypeOK'
  <2>1. \A q \in End, y \in Table : Len(table'[q][y]) <= MAX_MSG
    <3>1. Len(table'[p]["recv"]) = Len(table[p]["recv"]) + 1
      BY <1>1, <1>3, <1>7 DEF Table
    <3>2. \A q \in End, y \in Table :
            (q # p \/ y # "recv") => Len(table'[q][y]) <= MAX_MSG
      BY <1>1, <1>7 DEF TypeOK
    <3> QED BY <3>1, <3>2, <1>6, SocketAssumption
  <2>2. rmsg' \in [End -> AtMostOne]
    <3>1. <<>> \in AtMostOne BY DEF AtMostOne
    <3> QED BY <3>1, <1>1, <1>2 DEF TypeOK
  <2> QED BY <2>1, <2>2, <1>1, <1>2, <1>4, <1>5, <1>7 DEF TypeOK
<1>9. \A q \in End : q # p => LocalInv(q)'
  BY <1>1, <1>2, <1>4, <1>5, <1>7, Others DEF TypeOK
<1> USE DEF Uses, Producer, Consumer, InCall, Finished
<1>11. HolderInv(p)'
  BY <1>1, <1>2, <1>4, <1>5 DEF LocalInv, HolderInv, Holds, Thread, Table
<1>12. TestInv(p)'
  BY <1>1, <1>2, <1>4, <1>5, <1>7
  DEF LocalInv, TestInv, HolderInv, Holds, MustWait, isfull, isempty, Thread, Table
<1>13. WokenInTime(p)'
  BY <1>1, <1>2, <1>4, <1>5, <1>7
  DEF LocalInv, WokenInTime, Waits, MustWait, isfull, isempty, Thread, Table, Partner
<1>14. HandInv(p)'
  <2>1. rmsg'[p] = <<>> BY <1>1, <1>2 DEF TypeOK
  <2> QED BY <2>1, <1>1, <1>2, <1>4 DEF LocalInv, HandInv, Thread
<1>15. CloseInv(p)'
  BY <1>1, <1>2, <1>4 DEF LocalInv, CloseInv, Closing, Thread
<1>16. NetInv' BY <1>2, NetFrame DEF IInv
<1> QED
  BY <1>8, <1>9, <1>11, <1>12, <1>13, <1>14, <1>15, <1>16 DEF IInv, LocalInv

-----------------------------------------------------------------------------
(***************************************************************************)
(* The steps that only signal.                                             *)
(***************************************************************************)
LEMMA RecvSignalStep ==
  ASSUME IInv, NEW p \in End, alive[p], RecvSignal(p)
  PROVE  IInv'
<1> USE DEF PCType, MutexType, TableType
<1>1. /\ TypeOK /\ LocalInv(p) /\ pc \in PCType
      /\ mutex \in MutexType /\ table \in TableType
  BY DEF IInv, TypeOK
<1>2. /\ UNCHANGED <<mutex, table, smsg, rmsg, cancel, wire, fdOpen, reset,
                    alive, sent, delivered>>
      /\ InCall(p, "my_recv") /\ ~Finished(p)
      /\ ip' = [ip EXCEPT ![p] = @ + 1]
  BY DEF RecvSignal, netVars, histVars, Return, InCall
<1>4. /\ pc' \in PCType /\ pc[p]["app"] = "signal" /\ pc'[p]["app"] = "start"
      /\ pc'[p]["R"] = IF Waits(p, "R", "recv") THEN "start" ELSE pc[p]["R"]
      /\ \A q \in End, v \in Thread :
           (q # p \/ v \notin {"app", "R"}) => pc'[q][v] = pc[q][v]
  <2>1. MoveAndSignal(p, "app", "recv", "signal", "start") BY DEF RecvSignal
  <2>2. /\ Partner("app", "recv") = "R"
        /\ Producer("app", "recv") \/ Consumer("app", "recv")
        /\ "app" \in Thread /\ "recv" \in Table /\ "start" \in PC
    BY DEF Partner, Producer, Consumer, Thread, Table, PC
  <2> QED BY <2>1, <2>2, <1>1, SignalFacts
<1>8. TypeOK'
  <2>1. ip' \in [End -> Nat \ {0}] BY <1>1, <1>2 DEF TypeOK
  <2> QED BY <2>1, <1>1, <1>2, <1>4 DEF TypeOK
<1>9. \A q \in End : q # p => LocalInv(q)'
  <2>1. \A q \in End : q # p => ip'[q] = ip[q] BY <1>1, <1>2 DEF TypeOK
  <2>2. \A q \in End, v \in Thread : q # p => pc'[q][v] = pc[q][v] BY <1>4
  <2> QED BY <2>1, <2>2, <1>1, <1>2, <1>4, Others
<1>10. ip[p] \in Nat /\ ip'[p] = ip[p] + 1 BY <1>1, <1>2 DEF TypeOK
<1> USE DEF Uses, Producer, Consumer
<1>11. HolderInv(p)'
  BY <1>1, <1>2, <1>4 DEF LocalInv, HolderInv, Holds, Waits, Thread, Table
<1>12. TestInv(p)'
  BY <1>1, <1>2, <1>4
  DEF LocalInv, TestInv, Waits, MustWait, isfull, isempty, Thread, Table
<1>13. WokenInTime(p)'
  <2>1. ~InCall(p, "my_send") BY <1>2 DEF InCall
  <2>2. pc[p]["S"] = "wait" => MustWait(p, "S", "send")
    BY <2>1, <1>1 DEF LocalInv, WokenInTime, Waits, Thread, Table, Partner
  <2>3. pc'[p]["app"] # "wait" /\ pc'[p]["R"] # "wait" /\ pc'[p]["S"] = pc[p]["S"]
    BY <1>4 DEF Waits, Thread
  <2> QED
    BY <1>2, <2>2, <2>3
    DEF WokenInTime, Waits, MustWait, isfull, isempty, Thread, Table
<1>14. HandInv(p)'
  BY <1>1, <1>2, <1>4 DEF LocalInv, HandInv, Waits, Thread
<1>15. CloseInv(p)'
  <2>1. ~cancel[p] /\ ip[p] # Len(Program[p])
    BY <1>1, <1>2, CallOf DEF LocalInv, CloseInv, Closing, InCall, TypeOK
  <2>2. ~Finished(p)'
    BY <2>1, <1>1, <1>2, <1>10, CallOf DEF Finished, TypeOK
  <2> QED BY <2>1, <2>2, <1>1, <1>2, <1>4 DEF LocalInv, CloseInv, Closing, Waits, Thread
<1>16. NetInv' BY <1>2, NetFrame DEF IInv
<1> QED
  BY <1>8, <1>9, <1>11, <1>12, <1>13, <1>14, <1>15, <1>16 DEF IInv, LocalInv

LEMMA SSignalStep ==
  ASSUME IInv, NEW p \in End, alive[p], SSignal(p)
  PROVE  IInv'
<1> USE DEF PCType, MutexType, TableType
<1>1. /\ TypeOK /\ LocalInv(p) /\ pc \in PCType
      /\ mutex \in MutexType /\ table \in TableType
  BY DEF IInv, TypeOK
<1>2. UNCHANGED <<ip, mutex, table, smsg, rmsg, cancel, wire, fdOpen, reset,
                 alive, sent, delivered>>
  BY DEF SSignal, netVars, histVars
<1>4. /\ pc' \in PCType /\ pc[p]["S"] = "signal" /\ pc'[p]["S"] = "send"
      /\ pc'[p]["app"] = IF Waits(p, "app", "send") THEN "start" ELSE pc[p]["app"]
      /\ \A q \in End, v \in Thread :
           (q # p \/ v \notin {"S", "app"}) => pc'[q][v] = pc[q][v]
  <2>1. MoveAndSignal(p, "S", "send", "signal", "send") BY DEF SSignal
  <2>2. /\ Partner("S", "send") = "app"
        /\ Producer("S", "send") \/ Consumer("S", "send")
        /\ "S" \in Thread /\ "send" \in Table /\ "send" \in PC
    BY DEF Partner, Producer, Consumer, Thread, Table, PC
  <2> QED BY <2>1, <2>2, <1>1, SignalFacts
<1>8. TypeOK'
  BY <1>1, <1>2, <1>4 DEF TypeOK
<1>9. \A q \in End : q # p => LocalInv(q)'
  <2>1. \A q \in End : q # p => ip'[q] = ip[q] BY <1>1, <1>2 DEF TypeOK
  <2>2. \A q \in End, v \in Thread : q # p => pc'[q][v] = pc[q][v] BY <1>4
  <2> QED BY <2>1, <2>2, <1>1, <1>2, <1>4, Others
<1> USE DEF Uses, Producer, Consumer, InCall, Finished
<1>11. HolderInv(p)'
  BY <1>1, <1>2, <1>4 DEF LocalInv, HolderInv, Holds, Waits, Thread, Table
<1>12. TestInv(p)'
  BY <1>1, <1>2, <1>4
  DEF LocalInv, TestInv, Waits, MustWait, isfull, isempty, Thread, Table
<1>13. WokenInTime(p)'
  BY <1>1, <1>2, <1>4
  DEF LocalInv, WokenInTime, Waits, MustWait, isfull, isempty, Thread, Table, Partner
<1>14. HandInv(p)'
  BY <1>1, <1>2, <1>4 DEF LocalInv, HandInv, Waits, Thread
<1>15. CloseInv(p)'
  BY <1>1, <1>2, <1>4 DEF LocalInv, CloseInv, Closing, Waits, Thread
<1>16. NetInv' BY <1>2, NetFrame DEF IInv
<1> QED
  BY <1>8, <1>9, <1>11, <1>12, <1>13, <1>14, <1>15, <1>16 DEF IInv, LocalInv

LEMMA RSignalStep ==
  ASSUME IInv, NEW p \in End, alive[p], RSignal(p)
  PROVE  IInv'
<1> USE DEF PCType, MutexType, TableType
<1>1. /\ TypeOK /\ LocalInv(p) /\ pc \in PCType
      /\ mutex \in MutexType /\ table \in TableType
  BY DEF IInv, TypeOK
<1>2. UNCHANGED <<ip, mutex, table, smsg, rmsg, cancel, wire, fdOpen, reset,
                 alive, sent, delivered>>
  BY DEF RSignal, netVars, histVars
<1>4. /\ pc' \in PCType /\ pc[p]["R"] = "signal" /\ pc'[p]["R"] = "recv"
      /\ pc'[p]["app"] = IF Waits(p, "app", "recv") THEN "start" ELSE pc[p]["app"]
      /\ \A q \in End, v \in Thread :
           (q # p \/ v \notin {"R", "app"}) => pc'[q][v] = pc[q][v]
  <2>1. MoveAndSignal(p, "R", "recv", "signal", "recv") BY DEF RSignal
  <2>2. /\ Partner("R", "recv") = "app"
        /\ Producer("R", "recv") \/ Consumer("R", "recv")
        /\ "R" \in Thread /\ "recv" \in Table /\ "recv" \in PC
    BY DEF Partner, Producer, Consumer, Thread, Table, PC
  <2> QED BY <2>1, <2>2, <1>1, SignalFacts
<1>8. TypeOK'
  BY <1>1, <1>2, <1>4 DEF TypeOK
<1>9. \A q \in End : q # p => LocalInv(q)'
  <2>1. \A q \in End : q # p => ip'[q] = ip[q] BY <1>1, <1>2 DEF TypeOK
  <2>2. \A q \in End, v \in Thread : q # p => pc'[q][v] = pc[q][v] BY <1>4
  <2> QED BY <2>1, <2>2, <1>1, <1>2, <1>4, Others
<1> USE DEF Uses, Producer, Consumer, InCall, Finished
<1>11. HolderInv(p)'
  BY <1>1, <1>2, <1>4 DEF LocalInv, HolderInv, Holds, Waits, Thread, Table
<1>12. TestInv(p)'
  BY <1>1, <1>2, <1>4
  DEF LocalInv, TestInv, Waits, MustWait, isfull, isempty, Thread, Table
<1>13. WokenInTime(p)'
  BY <1>1, <1>2, <1>4
  DEF LocalInv, WokenInTime, Waits, MustWait, isfull, isempty, Thread, Table, Partner
<1>14. HandInv(p)'
  BY <1>1, <1>2, <1>4 DEF LocalInv, HandInv, Waits, Thread
<1>15. CloseInv(p)'
  BY <1>1, <1>2, <1>4 DEF LocalInv, CloseInv, Closing, Waits, Thread
<1>16. NetInv' BY <1>2, NetFrame DEF IInv
<1> QED
  BY <1>8, <1>9, <1>11, <1>12, <1>13, <1>14, <1>15, <1>16 DEF IInv, LocalInv

-----------------------------------------------------------------------------
(***************************************************************************)
(* The steps outside the loops: on the connection and in my_close.         *)
(***************************************************************************)
\* A thread that moves there changes nothing for those that lock and wait.
LEMMA Outside ==
  ASSUME IInv, NEW p \in End, NEW t \in Thread,
         UNCHANGED <<ip, mutex, table, alive>>, pc' \in PCType,
         \A q \in End, u \in Thread : (q # p \/ u # t) => pc'[q][u] = pc[q][u],
         pc[p][t] # "signal", pc'[p][t] \notin {"test", "park", "go", "wait"}
  PROVE  HolderInv(p)' /\ TestInv(p)' /\ WokenInTime(p)'
<1>1. LocalInv(p) BY DEF IInv
<1> USE DEF Uses, Producer, Consumer, InCall, Finished
<1>2. HolderInv(p)' BY <1>1 DEF LocalInv, HolderInv, Holds
<1>3. TestInv(p)' BY <1>1 DEF LocalInv, TestInv, MustWait, isfull, isempty
<1>4. WokenInTime(p)'
  BY <1>1
  DEF LocalInv, WokenInTime, Waits, MustWait, isfull, isempty, Partner, Thread
<1> QED BY <1>2, <1>3, <1>4

LEMMA SSendStep ==
  ASSUME IInv, NEW p \in End, alive[p], SSend(p) \/ SCutOff(p)
  PROVE  IInv'
<1> USE DEF PCType, MutexType, TableType
<1>1. TypeOK /\ LocalInv(p) /\ pc \in PCType BY DEF IInv, TypeOK
<1>2. /\ UNCHANGED <<ip, mutex, table, rmsg, cancel, fdOpen, alive, sent, delivered>>
      /\ smsg' = [smsg EXCEPT ![p] = <<>>]
  BY DEF SSend, SCutOff, netVars, histVars
<1>3. /\ pc' \in PCType /\ pc[p]["S"] = "send"
      /\ pc'[p]["S"] = "start" \/ (pc'[p]["S"] = "dead" /\ cancel[p])
      /\ \A q \in End, u \in Thread : (q # p \/ u # "S") => pc'[q][u] = pc[q][u]
  BY <1>1, MoveFacts DEF SSend, SCutOff, Thread, PC
<1>4. TypeOK'
  <2>1. smsg[p] \in Seq(Msg) BY <1>1 DEF TypeOK, AtMostOne
  <2>2. wire[p] \o smsg[p] \in Seq(Msg) BY <2>1, <1>1 DEF TypeOK
  <2>3. wire' \in [End -> Seq(Msg)]
    BY <2>2, <1>1 DEF TypeOK, SSend, SCutOff, netVars
  <2>4. reset' \in [End -> BOOLEAN] BY <1>1 DEF TypeOK, SSend, SCutOff, netVars
  <2>5. <<>> \in AtMostOne BY DEF AtMostOne
  <2>6. smsg' \in [End -> AtMostOne] BY <2>5, <1>1, <1>2 DEF TypeOK
  <2> QED BY <2>3, <2>4, <2>6, <1>1, <1>2, <1>3 DEF TypeOK
<1>5. \A q \in End : q # p => LocalInv(q)'
  <2>1. \A q \in End : q # p => smsg'[q] = smsg[q] BY <1>1, <1>2 DEF TypeOK
  <2>2. \A q \in End, u \in Thread : q # p => pc'[q][u] = pc[q][u] BY <1>3
  <2>3. mutex' \in MutexType /\ table' \in TableType
    BY <1>1, <1>2 DEF TypeOK
  <2> QED BY <2>1, <2>2, <2>3, <1>2, <1>3, Others
<1>6. HolderInv(p)' /\ TestInv(p)' /\ WokenInTime(p)'
  BY <1>2, <1>3, Outside DEF Thread
<1>7. HandInv(p)'
  <2>1. smsg'[p] = <<>> BY <1>1, <1>2 DEF TypeOK
  <2> QED BY <2>1, <1>1, <1>2, <1>3 DEF LocalInv, HandInv, Thread
<1>8. CloseInv(p)'
  BY <1>1, <1>2, <1>3 DEF LocalInv, CloseInv, Closing, InCall, Finished, Thread
<1>9. NetInv'
  <2>1. \A q \in End : reset'[q] => reset[q] \/ ~fdOpen[Peer[q]]
    BY <1>1 DEF TypeOK, SSend, SCutOff, netVars
  <2> QED BY <2>1, <1>2 DEF IInv, NetInv, Gone
<1> QED BY <1>4, <1>5, <1>6, <1>7, <1>8, <1>9 DEF IInv, LocalInv

LEMMA RReceiveStep ==
  ASSUME IInv, NEW p \in End, alive[p], RReceive(p)
  PROVE  IInv'
<1> USE DEF PCType, MutexType, TableType
<1> DEFINE q0 == Peer[p]
<1>1. TypeOK /\ LocalInv(p) /\ pc \in PCType /\ q0 \in End
  BY SocketAssumption DEF IInv, TypeOK
<1>2. /\ UNCHANGED <<ip, mutex, table, smsg, cancel, fdOpen, reset, alive, sent,
                    delivered>>
      /\ wire[q0] # <<>>
      /\ rmsg' = [rmsg EXCEPT ![p] = <<Head(wire[q0])>>]
      /\ wire' = [wire EXCEPT ![q0] = Tail(@)]
  BY DEF RReceive, histVars
<1>3. /\ pc' \in PCType /\ pc[p]["R"] = "recv" /\ pc'[p]["R"] = "start"
      /\ \A q \in End, u \in Thread : (q # p \/ u # "R") => pc'[q][u] = pc[q][u]
  BY <1>1, MoveFacts DEF RReceive, Thread, PC
<1>4. TypeOK'
  <2>1. wire[q0] \in Seq(Msg) BY <1>1 DEF TypeOK
  <2>2. Tail(wire[q0]) \in Seq(Msg) /\ <<Head(wire[q0])>> \in AtMostOne
    BY <2>1, <1>2 DEF AtMostOne
  <2>3. wire' \in [End -> Seq(Msg)] /\ rmsg' \in [End -> AtMostOne]
    BY <2>2, <1>1, <1>2 DEF TypeOK
  <2> QED BY <2>3, <1>1, <1>2, <1>3 DEF TypeOK
<1>5. \A q \in End : q # p => LocalInv(q)'
  <2>1. \A q \in End : q # p => rmsg'[q] = rmsg[q] BY <1>1, <1>2 DEF TypeOK
  <2>2. \A q \in End, u \in Thread : q # p => pc'[q][u] = pc[q][u] BY <1>3
  <2>3. mutex' \in MutexType /\ table' \in TableType
    BY <1>1, <1>2 DEF TypeOK
  <2> QED BY <2>1, <2>2, <2>3, <1>2, <1>3, Others
<1>6. HolderInv(p)' /\ TestInv(p)' /\ WokenInTime(p)'
  BY <1>2, <1>3, Outside DEF Thread
<1>7. HandInv(p)'
  <2>1. rmsg'[p] # <<>> BY <1>1, <1>2 DEF TypeOK
  <2> QED BY <2>1, <1>1, <1>2, <1>3 DEF LocalInv, HandInv, Thread
<1>8. CloseInv(p)'
  BY <1>1, <1>2, <1>3 DEF LocalInv, CloseInv, Closing, InCall, Finished, Thread
<1>9. NetInv' BY <1>2, NetFrame DEF IInv
<1> QED BY <1>4, <1>5, <1>6, <1>7, <1>8, <1>9 DEF IInv, LocalInv

LEMMA RStopStep ==
  ASSUME IInv, NEW p \in End, alive[p], RStop(p)
  PROVE  IInv'
<1> USE DEF PCType, MutexType, TableType
<1>1. TypeOK /\ LocalInv(p) /\ pc \in PCType BY DEF IInv, TypeOK
<1>2. UNCHANGED <<ip, mutex, table, smsg, rmsg, cancel, wire, fdOpen, reset,
                 alive, sent, delivered>>
  BY DEF RStop, histVars, netVars
<1>3. /\ pc' \in PCType /\ pc[p]["R"] = "recv"
      /\ pc'[p]["R"] = "returned" \/ (pc'[p]["R"] = "dead" /\ cancel[p])
      /\ \A q \in End, u \in Thread : (q # p \/ u # "R") => pc'[q][u] = pc[q][u]
  BY <1>1, MoveFacts DEF RStop, Thread, PC
<1>4. TypeOK' BY <1>1, <1>2, <1>3 DEF TypeOK
<1>5. \A q \in End : q # p => LocalInv(q)'
  BY <1>1, <1>2, <1>3, Others DEF TypeOK
<1>6. HolderInv(p)' /\ TestInv(p)' /\ WokenInTime(p)'
  BY <1>2, <1>3, Outside DEF Thread
<1>7. HandInv(p)'
  BY <1>1, <1>2, <1>3 DEF LocalInv, HandInv, Thread
<1>8. CloseInv(p)'
  BY <1>1, <1>2, <1>3 DEF LocalInv, CloseInv, Closing, InCall, Finished, Thread
<1>9. NetInv' BY <1>2, NetFrame DEF IInv
<1> QED BY <1>4, <1>5, <1>6, <1>7, <1>8, <1>9 DEF IInv, LocalInv

\* my_close up to the release of the tables.
LEMMA CloseStep ==
  ASSUME IInv, NEW p \in End, alive[p], InCall(p, "my_close"),
         Sleep(p) \/ Cancel(p) \/ JoinSend(p) \/ JoinRecv(p),
         UNCHANGED <<ip, mutex, table, smsg, rmsg, netVars, alive, histVars>>
  PROVE  IInv'
<1> USE DEF PCType, MutexType, TableType
<1>1. TypeOK /\ LocalInv(p) /\ pc \in PCType BY DEF IInv, TypeOK
<1>2. /\ UNCHANGED <<ip, mutex, table, smsg, rmsg, wire, fdOpen, reset, alive,
                    sent, delivered>>
      /\ ~Finished(p)
  BY DEF histVars, netVars, InCall
<1>3. /\ pc' \in PCType
      /\ \A q \in End, u \in Thread : (q # p \/ u # "app") => pc'[q][u] = pc[q][u]
      /\ \/ /\ pc[p]["app"] = "start" /\ pc'[p]["app"] = "sleep"
            /\ cancel' = cancel
         \/ /\ pc[p]["app"] = "sleep" /\ pc'[p]["app"] = "join_send"
            /\ cancel' = [cancel EXCEPT ![p] = TRUE]
         \/ /\ pc[p]["app"] = "join_send" /\ pc'[p]["app"] = "join_recv"
            /\ cancel' = cancel /\ pc[p]["S"] = "dead"
         \/ /\ pc[p]["app"] = "join_recv" /\ pc'[p]["app"] = "free"
            /\ cancel' = cancel /\ pc[p]["R"] \in {"dead", "returned"}
  <2>1. CASE Sleep(p) BY <2>1, <1>1, MoveFacts DEF Sleep, Thread, PC
  <2>2. CASE Cancel(p) BY <2>2, <1>1, MoveFacts DEF Cancel, Thread, PC
  <2>3. CASE JoinSend(p) BY <2>3, <1>1, MoveFacts DEF JoinSend, Thread, PC
  <2>4. CASE JoinRecv(p) BY <2>4, <1>1, MoveFacts DEF JoinRecv, Thread, PC
  <2> QED BY <2>1, <2>2, <2>3, <2>4
<1>4. /\ cancel' \in [End -> BOOLEAN]
      /\ \A q \in End : q # p => cancel'[q] = cancel[q]
      /\ \A q \in End : cancel[q] => cancel'[q]
      /\ cancel'[p] <=> pc'[p]["app"] # "sleep"
  BY <1>1, <1>2, <1>3 DEF TypeOK, LocalInv, CloseInv, Closing
<1>5. TypeOK' BY <1>1, <1>2, <1>3, <1>4 DEF TypeOK
<1>6. \A q \in End : q # p => LocalInv(q)'
  <2>1. \A q \in End, u \in Thread : q # p => pc'[q][u] = pc[q][u] BY <1>3
  <2>2. mutex' \in MutexType /\ table' \in TableType
    BY <1>1, <1>2 DEF TypeOK
  <2> QED BY <2>1, <2>2, <1>2, <1>3, <1>4, Others
<1>7. HolderInv(p)' /\ TestInv(p)' /\ WokenInTime(p)'
  BY <1>2, <1>3, Outside DEF Thread
<1>8. HandInv(p)'
  BY <1>1, <1>2, <1>3 DEF LocalInv, HandInv, Thread
<1>9. CloseInv(p)'
  BY <1>1, <1>2, <1>3, <1>4 DEF LocalInv, CloseInv, Closing, InCall, Finished, Thread
<1>10. NetInv' BY <1>2, <1>4, NetFrame DEF IInv
<1> QED BY <1>5, <1>6, <1>7, <1>8, <1>9, <1>10 DEF IInv, LocalInv

\* The end of a descriptor shortens what is on the wire, and resets at most
\* the peer's connection.
LEMMA CloseSocketFacts ==
  ASSUME TypeOK, NEW p \in End, CloseSocket(p)
  PROVE  /\ wire' \in [End -> Seq(Msg)]
         /\ fdOpen' \in [End -> BOOLEAN] /\ reset' \in [End -> BOOLEAN]
         /\ fdOpen'[p] = FALSE
         /\ \A q \in End : q # p => fdOpen'[q] = fdOpen[q]
         /\ \A q \in End : q # Peer[p] => reset'[q] = reset[q]
         /\ \A q \in End : q \notin {p, Peer[p]} => wire'[q] = wire[q]
         /\ wire'[Peer[p]] = <<>>
         /\ \E n \in 0 .. Len(wire[p]) : wire'[p] = SubSeq(wire[p], 1, n)
<1> DEFINE q0 == Peer[p]
<1>1. q0 \in End /\ q0 # p BY SocketAssumption
<1>2. PICK n \in 0 .. Len(wire[p]) :
        wire' = [wire EXCEPT ![p] = SubSeq(@, 1, n), ![q0] = <<>>]
  BY DEF CloseSocket
<1>3. wire[p] \in Seq(Msg) /\ Len(wire[p]) \in Nat BY DEF TypeOK
<1>4. SubSeq(wire[p], 1, n) \in Seq(Msg) BY <1>2, <1>3
<1> DEFINE w == [wire EXCEPT ![p] = SubSeq(wire[p], 1, n)]
<1>5. /\ w \in [End -> Seq(Msg)] /\ w[p] = SubSeq(wire[p], 1, n)
      /\ \A q \in End : q # p => w[q] = wire[q]
      /\ wire' = [w EXCEPT ![q0] = <<>>]
  BY <1>2, <1>4 DEF TypeOK
<1> HIDE DEF q0, w
<1>6. /\ wire' \in [End -> Seq(Msg)]
      /\ wire'[q0] = <<>> /\ wire'[p] = SubSeq(wire[p], 1, n)
      /\ \A q \in End : q \notin {p, q0} => wire'[q] = wire[q]
  BY <1>1, <1>5
<1>7. /\ fdOpen' = [fdOpen EXCEPT ![p] = FALSE]
      /\ reset' = [reset EXCEPT ![q0] = @ \/ wire[q0] # <<>>]
  BY DEF CloseSocket, q0
<1>8. /\ fdOpen' \in [End -> BOOLEAN] /\ fdOpen'[p] = FALSE
      /\ \A q \in End : q # p => fdOpen'[q] = fdOpen[q]
  BY <1>7 DEF TypeOK
<1>9. /\ reset' \in [End -> BOOLEAN]
      /\ \A q \in End : q # q0 => reset'[q] = reset[q]
  BY <1>1, <1>7 DEF TypeOK
<1> QED BY <1>2, <1>6, <1>8, <1>9 DEF q0

LEMMA FreeStep ==
  ASSUME IInv, NEW p \in End, alive[p], Free(p)
  PROVE  IInv'
<1> USE DEF PCType, MutexType, TableType
<1>1. /\ TypeOK /\ LocalInv(p) /\ pc \in PCType
      /\ mutex \in MutexType /\ table \in TableType
  BY DEF IInv, TypeOK
<1>2. /\ UNCHANGED <<smsg, rmsg, cancel, alive, sent, delivered>>
      /\ InCall(p, "my_close") /\ ~Finished(p)
      /\ ip' = [ip EXCEPT ![p] = @ + 1]
  BY DEF Free, histVars, Return, InCall
<1>3. /\ pc' \in PCType /\ pc[p]["app"] = "free" /\ pc'[p]["app"] = "start"
      /\ \A q \in End, u \in Thread : (q # p \/ u # "app") => pc'[q][u] = pc[q][u]
  BY <1>1, MoveFacts DEF Free, Thread, PC
<1>4. /\ mutex' \in MutexType /\ mutex'[p] = [x \in Table |-> "none"]
      /\ \A q \in End : q # p => mutex'[q] = mutex[q]
  BY <1>1 DEF Free
<1>5. /\ table' \in TableType /\ table'[p] = [x \in Table |-> <<>>]
      /\ \A q \in End : q # p => table'[q] = table[q]
  BY <1>1 DEF Free
<1>6. pc'[p]["S"] = "dead" /\ pc'[p]["R"] \in {"dead", "returned"} /\ cancel[p]
  BY <1>1, <1>2, <1>3 DEF LocalInv, CloseInv, Closing, Thread
<1>7. CloseSocket(p) BY DEF Free
<1>8. TypeOK'
  <2>1. \A q \in End, y \in Table : Len(table'[q][y]) <= MAX_MSG
    <3>1. \A y \in Table : Len(table'[p][y]) = 0 BY <1>5
    <3>2. \A q \in End : q # p => \A y \in Table : Len(table'[q][y]) <= MAX_MSG
      BY <1>1, <1>5 DEF TypeOK
    <3> QED BY <3>1, <3>2, SocketAssumption
  <2>2. ip' \in [End -> Nat \ {0}] BY <1>1, <1>2 DEF TypeOK
  <2> QED BY <2>1, <2>2, <1>1, <1>2, <1>3, <1>4, <1>5, <1>7, CloseSocketFacts DEF TypeOK
<1>9. \A q \in End : q # p => LocalInv(q)'
  <2>1. \A q \in End, u \in Thread : q # p => pc'[q][u] = pc[q][u] BY <1>3
  <2>2. \A q \in End : q # p => ip'[q] = ip[q] BY <1>1, <1>2 DEF TypeOK
  <2> QED BY <2>1, <2>2, <1>2, <1>3, <1>4, <1>5, Others
<1>10. /\ pc'[p]["app"] = "start" /\ pc'[p]["S"] = "dead"
       /\ pc'[p]["R"] \in {"dead", "returned"}
  BY <1>3, <1>6
<1>11. HolderInv(p)' /\ TestInv(p)' /\ WokenInTime(p)'
  BY <1>10 DEF HolderInv, Holds, TestInv, WokenInTime, Waits, Thread
<1>12. HandInv(p)'
  BY <1>1, <1>2, <1>3, <1>6 DEF LocalInv, HandInv, Thread
<1>13. CloseInv(p)'
  <2>1. Finished(p)'
    <3>1. ip[p] = Len(Program[p]) /\ ip[p] \in Nat
      BY <1>1, <1>2, CallOf DEF TypeOK
    <3>2. ip'[p] = ip[p] + 1 BY <1>1, <1>2 DEF TypeOK
    <3> QED BY <3>1, <3>2 DEF Finished
  <2> QED BY <2>1, <1>2, <1>4, <1>6, <1>10 DEF CloseInv
<1>14. NetInv'
  <2> SUFFICES ASSUME NEW q \in End
               PROVE  /\ ~fdOpen'[q] => Gone(q)'
                      /\ reset'[q] => ~fdOpen'[Peer[q]]
    BY DEF NetInv
  <2>1. ~fdOpen'[q] => Gone(q)'
    BY <1>1, <1>2, <1>6, <1>7, CloseSocketFacts DEF IInv, NetInv, Gone
  <2>2. reset'[q] => ~fdOpen'[Peer[q]]
    <3>1. Peer[q] \in End /\ (q = Peer[p] => Peer[q] = p) BY SocketAssumption
    <3> QED BY <3>1, <1>1, <1>7, CloseSocketFacts DEF IInv, NetInv
  <2> QED BY <2>1, <2>2
<1> QED BY <1>8, <1>9, <1>11, <1>12, <1>13, <1>14 DEF IInv, LocalInv

LEMMA ExitStep ==
  ASSUME IInv, NEW p \in End, Exit(p)
  PROVE  IInv'
<1> USE DEF PCType, MutexType, TableType
<1>1. TypeOK /\ LocalInv(p) BY DEF IInv
<1>2. /\ UNCHANGED <<ip, pc, mutex, table, smsg, rmsg, cancel, sent, delivered>>
      /\ CloseSocket(p)
      /\ alive' \in [End -> BOOLEAN] /\ ~alive'[p]
      /\ \A q \in End : q # p => alive'[q] = alive[q]
  BY <1>1 DEF Exit, histVars, TypeOK
<1>3. TypeOK' BY <1>1, <1>2, CloseSocketFacts DEF TypeOK
<1>4. \A q \in End : q # p => LocalInv(q)'
  BY <1>1, <1>2, Others DEF TypeOK
<1>5. LocalInv(p)'
  <2> USE DEF Uses, InCall, Finished, MustWait, isfull, isempty
  <2>1. HolderInv(p)' BY <1>1, <1>2 DEF LocalInv, HolderInv, Holds
  <2>2. TestInv(p)' BY <1>1, <1>2 DEF LocalInv, TestInv
  <2>3. WokenInTime(p)' BY <1>2 DEF WokenInTime
  <2>4. HandInv(p)' BY <1>1, <1>2 DEF LocalInv, HandInv
  <2>5. CloseInv(p)' BY <1>1, <1>2 DEF LocalInv, CloseInv, Closing
  <2> QED BY <2>1, <2>2, <2>3, <2>4, <2>5 DEF LocalInv
<1>6. NetInv'
  <2> SUFFICES ASSUME NEW q \in End
               PROVE  /\ ~fdOpen'[q] => Gone(q)'
                      /\ reset'[q] => ~fdOpen'[Peer[q]]
    BY DEF NetInv
  <2>1. ~fdOpen'[q] => Gone(q)'
    BY <1>1, <1>2, CloseSocketFacts DEF IInv, NetInv, Gone
  <2>2. reset'[q] => ~fdOpen'[Peer[q]]
    <3>1. Peer[q] \in End /\ (q = Peer[p] => Peer[q] = p) BY SocketAssumption
    <3> QED BY <3>1, <1>1, <1>2, CloseSocketFacts DEF IInv, NetInv
  <2> QED BY <2>1, <2>2
<1> QED BY <1>3, <1>4, <1>5, <1>6 DEF IInv

-----------------------------------------------------------------------------
(***************************************************************************)
(* The theorems.                                                           *)
(***************************************************************************)
LEMMA IInvInit == Init => IInv
<1> SUFFICES ASSUME Init PROVE IInv OBVIOUS
<1>1. TypeOK
  <2>1. <<>> \in AtMostOne BY DEF AtMostOne
  <2>2. \A p \in End, x \in Table : Len(table[p][x]) <= MAX_MSG
    BY SocketAssumption DEF Init
  <2> QED BY <2>1, <2>2, SocketAssumption DEF Init, TypeOK, Thread, Table, PC
<1>2. NetInv BY DEF Init, NetInv
<1>3. ASSUME NEW p \in End PROVE LocalInv(p)
  <2>1. /\ pc[p] = [t \in Thread |-> IF t = "R" THEN "recv" ELSE "start"]
        /\ smsg[p] = <<>> /\ rmsg[p] = <<>> /\ ~cancel[p] /\ ip[p] = 1
    BY DEF Init
  <2>2. /\ pc[p]["app"] = "start" /\ pc[p]["S"] = "start" /\ pc[p]["R"] = "recv"
        /\ \A t \in Thread : pc[p][t] \in {"start", "recv"}
    BY <2>1 DEF Thread
  <2>3. ~Finished(p)
    <3>1. Program[p] \in Seq(Call) /\ Program[p] # <<>> BY SocketAssumption
    <3>2. Len(Program[p]) \in Nat /\ Len(Program[p]) # 0 BY <3>1
    <3> QED BY <2>1, <3>2 DEF Finished
  <2>4. HolderInv(p) /\ TestInv(p) /\ WokenInTime(p)
    BY <2>2 DEF HolderInv, Holds, TestInv, WokenInTime, Waits
  <2>5. HandInv(p) BY <2>1, <2>2 DEF HandInv
  <2>6. CloseInv(p) BY <2>1, <2>2, <2>3 DEF CloseInv, Closing
  <2> QED BY <2>4, <2>5, <2>6 DEF LocalInv
<1> QED BY <1>1, <1>2, <1>3 DEF IInv

LEMMA IInvStep == IInv /\ [Next]_vars => IInv'
<1> SUFFICES ASSUME IInv, [Next]_vars PROVE IInv' OBVIOUS
<1>1. CASE UNCHANGED vars
  <2>1. TypeOK' BY <1>1 DEF IInv, TypeOK, vars, netVars, histVars
  <2>2. NetInv' BY <1>1, NetFrame DEF IInv, vars, netVars
  <2>3. \A p \in End : LocalInv(p)'
    BY <1>1, Frame DEF IInv, Untouched, vars
  <2> QED BY <2>1, <2>2, <2>3 DEF IInv
<1>2. ASSUME NEW p \in End, alive[p], Step(p) PROVE IInv'
  <2> USE <1>2
  <2>1. CASE \E t \in Thread, x \in Table : WaitLoop(p, t, x) \/ Wakeup(p, t, x)
    BY <2>1, LoopStep
  <2>2. CASE SendPut(p) BY <2>2, SendPutStep
  <2>3. CASE RecvGet(p) BY <2>3, RecvGetStep
  <2>4. CASE RecvSignal(p) BY <2>4, RecvSignalStep
  <2>5. CASE /\ InCall(p, "my_close")
             /\ Sleep(p) \/ Cancel(p) \/ JoinSend(p) \/ JoinRecv(p)
             /\ UNCHANGED <<ip, mutex, table, smsg, rmsg, netVars, alive, histVars>>
    BY <2>5, CloseStep
  <2>6. CASE Free(p) BY <2>6, FreeStep
  <2>7. CASE STake(p) BY <2>7, STakeStep
  <2>8. CASE SSignal(p) BY <2>8, SSignalStep
  <2>9. CASE SSend(p) \/ SCutOff(p) BY <2>9, SSendStep
  <2>10. CASE SFail(p) \/ RFail(p) BY <2>10, ExitStep DEF SFail, RFail
  <2>11. CASE RReceive(p) BY <2>11, RReceiveStep
  <2>12. CASE RStop(p) BY <2>12, RStopStep
  <2>13. CASE RPut(p) BY <2>13, RPutStep
  <2>14. CASE RSignal(p) BY <2>14, RSignalStep
  <2>15. app(p) \/ sendThreadFunc(p) \/ recvThreadFunc(p)
           \/ \E t \in Thread, x \in Table : Wakeup(p, t, x)
    BY DEF Step
  <2>16. "app" \in Thread /\ "S" \in Thread /\ "R" \in Thread
         /\ "send" \in Table /\ "recv" \in Table
    BY DEF Thread, Table
  <2> QED
    BY <2>1, <2>2, <2>3, <2>4, <2>5, <2>6, <2>7, <2>8, <2>9, <2>10, <2>11, <2>12,
       <2>13, <2>14, <2>15, <2>16
    DEF app, my_send, my_recv, my_close, sendThreadFunc, recvThreadFunc
<1> QED BY <1>1, <1>2 DEF Next, Terminated

LEMMA Invariance == Spec => []IInv
  BY IInvInit, IInvStep, PTL DEF Spec

\* Type correctness: a table never holds more than MAX_MSG messages, S and R
\* never more than one.
THEOREM SocketTypeCorrect == Spec => []TypeOK
<1>1. IInv => TypeOK BY DEF IInv
<1> QED BY <1>1, Invariance, PTL

\* Two threads are never both between taking a table's mutex and leaving it.
THEOREM TablesExclusive == Spec => []MutualExclusion
<1>1. IInv => MutualExclusion
  BY DEF IInv, LocalInv, HolderInv, MutualExclusion
<1> QED BY <1>1, Invariance, PTL

\* push never drops a message for want of room, front never finds none: what
\* a thread has tested holds until it acts.
THEOREM TestsStillHold == Spec => []TestStillHolds
<1>1. IInv => TestStillHolds
  BY DEF IInv, LocalInv, TestInv, TestStillHolds
<1> QED BY <1>1, Invariance, PTL

\* No thread stays in pthread_cond_wait when its table lets it go on, unless
\* the signal is about to come.
THEOREM WakeupsNotLost == Spec => []NoLostWakeup
<1>1. IInv => NoLostWakeup BY DEF IInv, LocalInv, NoLostWakeup
<1> QED BY <1>1, Invariance, PTL

\* A mutex whose holder was cancelled is not asked for again.
THEOREM DeadHoldersHarmless == Spec => []DeadHoldNothingWanted
<1>1. IInv => DeadHoldNothingWanted
  <2> SUFFICES ASSUME IInv, NEW p \in End, NEW x \in Table, NEW u \in {"S", "R"},
                      mutex[p][x] = u, pc[p][u] = "dead"
               PROVE  Closing(p)
    BY DEF DeadHoldNothingWanted, Closing
  <2>1. CloseInv(p) BY DEF IInv, LocalInv
  <2>2. cancel[p] BY <2>1 DEF CloseInv
  <2>3. ~Finished(p) BY <2>1 DEF CloseInv
  <2> QED BY <2>1, <2>2, <2>3 DEF CloseInv
<1> QED BY <1>1, Invariance, PTL

-----------------------------------------------------------------------------
(***************************************************************************)
(* The refinement: every step of MySocket is, under the mapping of Chan    *)
(* and Open, a step of the channels or changes nothing they show.          *)
(***************************************************************************)
(***************************************************************************)
(* Facts about sequences.                                                  *)
(***************************************************************************)
LEMMA ConcatFacts ==
  ASSUME NEW S, NEW s \in Seq(S), NEW t \in Seq(S), NEW u \in Seq(S)
  PROVE  /\ s \o t \in Seq(S)
         /\ (s \o t) \o u = s \o (t \o u)
         /\ s \o <<>> = s
         /\ <<>> \o s = s
  BY ConcatAssociative, ConcatEmptySeq, ConcatProperties

LEMMA HeadAndTail ==
  ASSUME NEW S, NEW s \in Seq(S), s # <<>>
  PROVE  /\ Tail(s) \in Seq(S) /\ <<Head(s)>> \in Seq(S)
         /\ <<Head(s)>> \o Tail(s) = s
  OBVIOUS

LEMMA HeadPassesOn ==
  ASSUME NEW S, NEW s \in Seq(S), NEW t \in Seq(S), t # <<>>
  PROVE  (s \o <<Head(t)>>) \o Tail(t) = (s \o <<>>) \o t
<1>1. (s \o <<Head(t)>>) \o Tail(t) = s \o (<<Head(t)>> \o Tail(t))
  BY HeadAndTail, ConcatFacts
<1>2. s \o <<>> = s BY ConcatFacts
<1> QED BY <1>1, <1>2, HeadAndTail

LEMMA AllPassesOn ==
  ASSUME NEW s \in Seq(Msg), NEW t \in Seq(Msg), NEW u \in Seq(Msg)
  PROVE  (s \o (t \o u)) \o <<>> = (s \o t) \o u
<1>1. t \o u \in Seq(Msg) /\ s \o (t \o u) \in Seq(Msg) BY ConcatProperties
<1>2. (s \o (t \o u)) \o <<>> = s \o (t \o u) BY <1>1, ConcatEmptySeq
<1> QED BY <1>2, ConcatAssociative

\* Concatenation as a name the provers do not look behind.
Cat(s, t) == s \o t

LEMMA CatFacts ==
  ASSUME NEW s \in Seq(Msg), NEW t \in Seq(Msg), NEW u \in Seq(Msg)
  PROVE  /\ Cat(s, t) \in Seq(Msg)
         /\ Cat(Cat(s, t), u) = Cat(s, Cat(t, u))
<1>1. s \o t \in Seq(Msg) BY ConcatProperties
<1>2. (s \o t) \o u = s \o (t \o u) BY ConcatAssociative
<1> QED BY <1>1, <1>2 DEF Cat

LEMMA FiveParts ==
  ASSUME NEW a \in Seq(Msg), NEW b \in Seq(Msg), NEW c \in Seq(Msg),
         NEW d \in Seq(Msg), NEW e \in Seq(Msg)
  PROVE  Cat(Cat(Cat(Cat(a, b), c), d), e) = Cat(a, Cat(Cat(Cat(b, c), d), e))
<1>1. Cat(b, c) \in Seq(Msg) /\ Cat(Cat(b, c), d) \in Seq(Msg) BY CatFacts
<1>2. Cat(Cat(a, b), c) = Cat(a, Cat(b, c)) BY CatFacts
<1>3. Cat(Cat(a, Cat(b, c)), d) = Cat(a, Cat(Cat(b, c), d)) BY <1>1, CatFacts
<1>4. Cat(Cat(a, Cat(Cat(b, c), d)), e) = Cat(a, Cat(Cat(Cat(b, c), d), e))
  BY <1>1, CatFacts
<1> QED BY <1>1, <1>2, <1>3, <1>4

LEMMA AppendToConcat ==
  ASSUME NEW S, NEW s \in Seq(S), NEW t \in Seq(S), NEW x \in S
  PROVE  /\ Append(s, x) = s \o <<x>>
         /\ s \o Append(t, x) = Append(s \o t, x)
  OBVIOUS

LEMMA HeadTailOfConcat ==
  ASSUME NEW S, NEW s \in Seq(S), NEW t \in Seq(S), s # <<>>
  PROVE  /\ s \o t # <<>>
         /\ Head(s \o t) = Head(s)
         /\ Tail(s \o t) = Tail(s) \o t
  OBVIOUS

LEMMA PrefixOfConcat ==
  ASSUME NEW S, NEW s \in Seq(S), NEW t \in Seq(S), NEW n \in 0 .. Len(t)
  PROVE  s \o SubSeq(t, 1, n) \in Channel!Prefixes(s \o t)
<1>1. Len(s) + n \in 0 .. Len(s \o t) OBVIOUS
<1>2. SubSeq(s \o t, 1, Len(s) + n) = s \o SubSeq(t, 1, n) OBVIOUS
<1> QED BY <1>1, <1>2 DEF Channel!Prefixes

LEMMA PrefixesHold ==
  ASSUME NEW S, NEW s \in Seq(S), NEW t \in Seq(S)
  PROVE  s \in Channel!Prefixes(s \o t) /\ s \in Channel!Prefixes(s)
<1>1. /\ Len(s) \in 0 .. Len(s \o t) /\ SubSeq(s \o t, 1, Len(s)) = s
      /\ Len(s) \in 0 .. Len(s) /\ SubSeq(s, 1, Len(s)) = s
  OBVIOUS
<1> QED BY <1>1 DEF Channel!Prefixes

LEMMA EmptyPrefix == <<>> \in Channel!Prefixes(<<>>)
<1>1. 0 \in 0 .. Len(<<>>) /\ SubSeq(<<>>, 1, 0) = <<>> OBVIOUS
<1> QED BY <1>1 DEF Channel!Prefixes

-----------------------------------------------------------------------------
(***************************************************************************)
(* The mapping.                                                            *)
(***************************************************************************)
\* What a message passes on its way from p is sequences of messages.
LEMMA PartsAreSeqs ==
  ASSUME TypeOK, NEW p \in End
  PROVE  /\ table[p]["send"] \in Seq(Msg) /\ table[p]["recv"] \in Seq(Msg)
         /\ smsg[p] \in Seq(Msg) /\ rmsg[p] \in Seq(Msg) /\ wire[p] \in Seq(Msg)
         /\ Peer[p] \in End /\ Peer[p] # p /\ Peer[Peer[p]] = p
  BY SocketAssumption DEF TypeOK, AtMostOne, Table

LEMMA AheadIsSeq ==
  ASSUME TypeOK, NEW p \in End
  PROVE  Ahead(p) \in Seq(Msg) /\ Queued(p) \in Seq(Msg) /\ UnderWay(p) \in Seq(Msg)
<1> DEFINE q == Peer[p]
<1>1. /\ table[q]["recv"] \in Seq(Msg) /\ rmsg[q] \in Seq(Msg)
      /\ wire[p] \in Seq(Msg) /\ smsg[p] \in Seq(Msg) /\ table[p]["send"] \in Seq(Msg)
  BY PartsAreSeqs
<1>2. table[q]["recv"] \o rmsg[q] \in Seq(Msg) BY <1>1, ConcatProperties
<1>3. table[q]["recv"] \o rmsg[q] \o wire[p] \in Seq(Msg)
  BY <1>1, <1>2, ConcatProperties
<1>4. Ahead(p) \in Seq(Msg) BY <1>1, <1>3, ConcatProperties DEF Ahead
<1>5. Queued(p) \in Seq(Msg) BY <1>1 DEF Queued
<1>6. Ahead(p) \o Queued(p) \in Seq(Msg) BY <1>4, <1>5, ConcatProperties
<1> QED BY <1>4, <1>5, <1>6 DEF UnderWay

\* A direction shows a change only if one of its parts changes.
Kept(p) ==
  /\ Gone(Peer[p])' = Gone(Peer[p]) /\ Gone(p)' = Gone(p)
  /\ Gone(Peer[p]) \/ /\ table'[Peer[p]]["recv"] = table[Peer[p]]["recv"]
                      /\ rmsg'[Peer[p]] = rmsg[Peer[p]]
                      /\ wire'[p] = wire[p] /\ smsg'[p] = smsg[p]
                      /\ Gone(p) \/ table'[p]["send"] = table[p]["send"]

LEMMA KeptStays ==
  ASSUME NEW p \in End, Kept(p) PROVE UnderWay(p)' = UnderWay(p)
  BY DEF Kept, UnderWay, Ahead, Queued, Gone

\* A step that nothing of can be seen.
LEMMA Stutter ==
  ASSUME \A p \in End : UnderWay(p)' = UnderWay(p),
         \A p \in End : Gone(p)' = Gone(p),
         UNCHANGED histVars
  PROVE  UNCHANGED Channel!vars
<1>1. Chan' = Chan BY DEF Chan
<1>2. Open' = Open BY SocketAssumption DEF Open
<1> QED BY <1>1, <1>2 DEF Channel!vars, histVars

\* A step that changes no message, no thread's end and no process's end.
LEMMA Invisible ==
  ASSUME UNCHANGED <<table, smsg, rmsg, cancel, wire, alive, histVars>>
  PROVE  UNCHANGED Channel!vars
  BY DEF Channel!vars, Chan, Open, UnderWay, Ahead, Queued, Gone, histVars

-----------------------------------------------------------------------------
(***************************************************************************)
(* A message that goes from one part of its way to the next is under way   *)
(* as before.                                                              *)
(***************************************************************************)
LEMMA STakeInvisible ==
  ASSUME IInv, NEW p \in End, alive[p], STake(p)
  PROVE  UNCHANGED Channel!vars
<1> DEFINE tab == table[p]["send"]
           x == table[Peer[p]]["recv"] \o rmsg[Peer[p]] \o wire[p]
<1>1. TypeOK /\ LocalInv(p) BY DEF IInv
<1>2. /\ UNCHANGED <<rmsg, cancel, wire, alive, histVars>>
      /\ pc[p]["S"] = "go" /\ ~cancel[p]
      /\ smsg' = [smsg EXCEPT ![p] = <<Head(tab)>>]
      /\ table' = [table EXCEPT ![p]["send"] = Tail(tab)]
  BY DEF STake, netVars, Move
<1>3. tab \in Seq(Msg) /\ tab # <<>> /\ smsg[p] = <<>>
  BY <1>1, <1>2, PartsAreSeqs
  DEF LocalInv, TestInv, HandInv, Uses, Producer, Consumer, MustWait, isempty,
      Thread, Table
<1>4. /\ smsg'[p] = <<Head(tab)>> /\ table'[p]["send"] = Tail(tab)
      /\ \A r \in End : r # p => smsg'[r] = smsg[r] /\ table'[r] = table[r]
      /\ \A r \in End : table'[r]["recv"] = table[r]["recv"]
  BY <1>1, <1>2 DEF TypeOK, Table
<1>5. UnderWay(p)' = UnderWay(p)
  <2>1. x \in Seq(Msg) BY <1>1, PartsAreSeqs, ConcatProperties
  <2>2. (x \o <<Head(tab)>>) \o Tail(tab) = (x \o <<>>) \o tab
    BY <1>3, <2>1, HeadPassesOn
  <2>3. Ahead(p) = x \o <<>> /\ Ahead(p)' = x \o <<Head(tab)>>
    BY <1>1, <1>2, <1>3, <1>4, PartsAreSeqs DEF Ahead
  <2>4. Queued(p) = tab /\ Queued(p)' = Tail(tab)
    BY <1>2, <1>4 DEF Queued, Gone
  <2> QED BY <2>2, <2>3, <2>4, <1>2 DEF UnderWay, Gone
<1>6. \A r \in End : r # p => UnderWay(r)' = UnderWay(r)
  BY <1>1, <1>2, <1>4, KeptStays, PartsAreSeqs DEF Kept, Gone
<1> QED BY <1>2, <1>5, <1>6, Stutter DEF Gone

LEMMA SSendInvisible ==
  ASSUME IInv, NEW p \in End, alive[p], SSend(p)
  PROVE  UNCHANGED Channel!vars
<1> DEFINE x == table[Peer[p]]["recv"] \o rmsg[Peer[p]]
<1>1. TypeOK /\ NetInv BY DEF IInv
<1>2. /\ UNCHANGED <<rmsg, table, cancel, alive, histVars>>
      /\ smsg' = [smsg EXCEPT ![p] = <<>>]
      /\ Gone(Peer[p]) \/ wire' = [wire EXCEPT ![p] = @ \o smsg[p]]
      /\ \A r \in End : r # p => wire'[r] = wire[r]
  BY <1>1, PartsAreSeqs DEF SSend, NetInv, TypeOK
<1>3. /\ smsg'[p] = <<>>
      /\ Gone(Peer[p]) \/ wire'[p] = wire[p] \o smsg[p]
      /\ \A r \in End : r # p => smsg'[r] = smsg[r]
  BY <1>1, <1>2 DEF TypeOK
<1>4. UnderWay(p)' = UnderWay(p)
  <2>1. x \in Seq(Msg) /\ wire[p] \in Seq(Msg) /\ smsg[p] \in Seq(Msg)
    BY <1>1, PartsAreSeqs, ConcatProperties
  <2> HIDE DEF x
  <2>2. x \o (wire[p] \o smsg[p]) \o <<>> = x \o wire[p] \o smsg[p]
    BY <2>1, AllPassesOn
  <2> USE DEF x
  <2>3. ~Gone(Peer[p]) => Ahead(p)' = Ahead(p)
    BY <1>1, <1>2, <1>3, <2>2, PartsAreSeqs DEF Ahead
  <2> QED BY <2>3, <1>2 DEF UnderWay, Queued, Gone
<1>5. \A r \in End : r # p => UnderWay(r)' = UnderWay(r)
  BY <1>1, <1>2, <1>3, KeptStays, PartsAreSeqs DEF Kept, Gone
<1> QED BY <1>2, <1>4, <1>5, Stutter DEF Gone

LEMMA RReceiveInvisible ==
  ASSUME IInv, NEW p \in End, alive[p], RReceive(p)
  PROVE  UNCHANGED Channel!vars
<1> DEFINE q == Peer[p]
<1>1. /\ TypeOK /\ LocalInv(p) /\ q \in End /\ q # p /\ Peer[q] = p
      /\ table[p]["recv"] \in Seq(Msg) /\ wire[q] \in Seq(Msg)
      /\ smsg[q] \in Seq(Msg)
  BY PartsAreSeqs DEF IInv
<1>2. /\ UNCHANGED <<smsg, table, cancel, alive, histVars>>
      /\ pc[p]["R"] = "recv" /\ wire[q] # <<>>
      /\ rmsg' = [rmsg EXCEPT ![p] = <<Head(wire[q])>>]
      /\ wire' = [wire EXCEPT ![q] = Tail(@)]
  BY DEF RReceive, Move
<1>3. /\ rmsg[p] = <<>> /\ rmsg'[p] = <<Head(wire[q])>> /\ wire'[q] = Tail(wire[q])
      /\ \A r \in End : r # p => rmsg'[r] = rmsg[r]
      /\ \A r \in End : r # q => wire'[r] = wire[r]
  BY <1>1, <1>2 DEF TypeOK, LocalInv, HandInv
<1>4. UnderWay(q)' = UnderWay(q)
  <2>1. table[p]["recv"] \o <<Head(wire[q])>> \o Tail(wire[q])
          = table[p]["recv"] \o <<>> \o wire[q]
    BY <1>1, <1>2, HeadPassesOn
  <2>2. Ahead(q)' = Ahead(q)
    BY <2>1, <1>1, <1>2, <1>3 DEF Ahead
  <2> QED BY <2>2, <1>2 DEF UnderWay, Queued, Gone
<1>5. \A r \in End : r # q => UnderWay(r)' = UnderWay(r)
  <2>1. \A r \in End : r # q => Peer[r] # p BY <1>1, SocketAssumption
  <2> QED BY <2>1, <1>1, <1>2, <1>3, KeptStays, PartsAreSeqs DEF Kept, Gone
<1> QED BY <1>2, <1>4, <1>5, Stutter DEF Gone

LEMMA RPutInvisible ==
  ASSUME IInv, NEW p \in End, alive[p], RPut(p)
  PROVE  UNCHANGED Channel!vars
<1> DEFINE q == Peer[p]
           tab == table[p]["recv"]
<1>1. /\ TypeOK /\ LocalInv(p) /\ q \in End /\ q # p /\ Peer[q] = p
      /\ tab \in Seq(Msg) /\ rmsg[p] \in Seq(Msg)
  BY PartsAreSeqs DEF IInv
<1>2. /\ UNCHANGED <<smsg, wire, cancel, alive, histVars>>
      /\ pc[p]["R"] = "go" /\ ~cancel[p]
      /\ rmsg' = [rmsg EXCEPT ![p] = <<>>]
      /\ table' = [table EXCEPT ![p]["recv"] = push(tab, Head(rmsg[p]))]
  BY DEF RPut, Move, netVars
<1>3. rmsg[p] = <<Head(rmsg[p])>> /\ Head(rmsg[p]) \in Msg
  <2>1. rmsg[p] # <<>> /\ Len(rmsg[p]) <= 1
    BY <1>1, <1>2 DEF LocalInv, HandInv, TypeOK, AtMostOne
  <2> QED BY <2>1, <1>1
<1>4. push(tab, Head(rmsg[p])) = Append(tab, Head(rmsg[p]))
  BY <1>1, <1>2
  DEF LocalInv, TestInv, Uses, Producer, Consumer, MustWait, push, Thread, Table
<1>5. /\ rmsg'[p] = <<>> /\ table'[p]["recv"] = tab \o rmsg[p]
      /\ \A r \in End : r # p => rmsg'[r] = rmsg[r] /\ table'[r] = table[r]
      /\ \A r \in End : table'[r]["send"] = table[r]["send"]
  <2>1. Append(tab, Head(rmsg[p])) = tab \o <<Head(rmsg[p])>>
    BY <1>1, <1>3, AppendToConcat
  <2> QED BY <2>1, <1>1, <1>2, <1>3, <1>4 DEF TypeOK, Table
<1>6. UnderWay(q)' = UnderWay(q)
  <2>1. (tab \o rmsg[p]) \o <<>> = tab \o rmsg[p]
    BY <1>1, ConcatFacts
  <2>2. Ahead(q)' = Ahead(q)
    BY <2>1, <1>1, <1>2, <1>5 DEF Ahead
  <2>3. table'[q]["send"] = table[q]["send"] BY <1>1, <1>5
  <2> QED BY <2>2, <2>3, <1>2 DEF UnderWay, Queued, Gone
<1>7. \A r \in End : r # q => UnderWay(r)' = UnderWay(r)
  <2>1. \A r \in End : r # q => Peer[r] # p BY <1>1, SocketAssumption
  <2> QED BY <2>1, <1>1, <1>2, <1>5, KeptStays, PartsAreSeqs DEF Kept, Gone
<1> QED BY <1>2, <1>6, <1>7, Stutter DEF Gone

-----------------------------------------------------------------------------
(***************************************************************************)
(* The steps that the channels show.                                       *)
(***************************************************************************)
LEMMA SendPutSends ==
  ASSUME IInv, NEW p \in End, alive[p], SendPut(p)
  PROVE  \E m \in Msg : Channel!Send(p, m)
<1> DEFINE m == Program[p][ip[p]].msg
           tab == table[p]["send"]
<1>1. TypeOK /\ LocalInv(p) /\ tab \in Seq(Msg)
  BY PartsAreSeqs DEF IInv
<1>2. /\ UNCHANGED <<smsg, rmsg, wire, cancel, alive, delivered>>
      /\ InCall(p, "my_send") /\ pc[p]["app"] = "go"
      /\ sent' = [sent EXCEPT ![p] = Append(@, m)]
      /\ table' = [table EXCEPT ![p]["send"] = push(tab, m)]
  BY DEF SendPut, MoveAndSignal, netVars
<1>3. m \in Msg BY CallOf, <1>1, <1>2 DEF InCall, TypeOK
<1>4. ~Gone(p)
  BY <1>1, <1>2 DEF LocalInv, CloseInv, Closing, InCall, Gone
<1>5. push(tab, m) = Append(tab, m)
  BY <1>1, <1>2
  DEF LocalInv, TestInv, Uses, Producer, Consumer, MustWait, push, Thread, Table
<1>6. /\ table'[p]["send"] = Append(tab, m)
      /\ \A r \in End : r # p => table'[r] = table[r]
      /\ \A r \in End : table'[r]["recv"] = table[r]["recv"]
  BY <1>1, <1>2, <1>5 DEF TypeOK, Table
<1>7. UnderWay(p)' = IF Open[p] THEN Append(UnderWay(p), m) ELSE UnderWay(p)
  <2>1. Ahead(p) \o Append(tab, m) = Append(Ahead(p) \o tab, m)
    BY <1>1, <1>3, AheadIsSeq, AppendToConcat
  <2>2. Ahead(p)' = Ahead(p) BY <1>1, <1>2, <1>6, PartsAreSeqs DEF Ahead
  <2>3. Queued(p) = tab /\ Queued(p)' = Append(tab, m)
    BY <1>2, <1>4, <1>6 DEF Queued, Gone
  <2>4. Open[p] <=> ~Gone(Peer[p]) BY <1>4 DEF Open
  <2>5. Gone(Peer[p])' = Gone(Peer[p]) BY <1>2 DEF Gone
  <2> QED BY <2>1, <2>2, <2>3, <2>4, <2>5 DEF UnderWay
<1>8. \A r \in End : r # p => UnderWay(r)' = UnderWay(r)
  BY <1>1, <1>2, <1>6, KeptStays, PartsAreSeqs DEF Kept, Gone
<1>9. Chan' = IF Open[p] THEN [Chan EXCEPT ![p] = Append(@, m)] ELSE Chan
  BY <1>7, <1>8 DEF Chan
<1>10. Open' = Open BY <1>2 DEF Open, Gone
<1> QED BY <1>2, <1>3, <1>9, <1>10 DEF Channel!Send

LEMMA RecvGetReceives ==
  ASSUME IInv, NEW p \in End, alive[p], RecvGet(p)
  PROVE  Channel!Receive(Peer[p])
<1> DEFINE q == Peer[p]
           tab == table[p]["recv"]
           rest == Cat(Cat(Cat(rmsg[p], wire[q]), smsg[q]), Queued(q))
<1>1. /\ TypeOK /\ LocalInv(p) /\ q \in End /\ q # p /\ Peer[q] = p
      /\ tab \in Seq(Msg)
  BY PartsAreSeqs DEF IInv
<1>2. /\ UNCHANGED <<smsg, rmsg, wire, cancel, alive, sent>>
      /\ InCall(p, "my_recv") /\ pc[p]["app"] = "go"
      /\ delivered' = [delivered EXCEPT ![q] = Append(@, Head(tab))]
      /\ table' = [table EXCEPT ![p]["recv"] = Tail(@)]
  BY DEF RecvGet, Move, netVars
<1>3. ~Gone(p)
  BY <1>1, <1>2 DEF LocalInv, CloseInv, Closing, InCall, Gone
<1>4. tab # <<>>
  BY <1>1, <1>2
  DEF LocalInv, TestInv, Uses, Producer, Consumer, MustWait, isempty, Thread, Table
<1>5. /\ table'[p]["recv"] = Tail(tab)
      /\ \A r \in End : r # p => table'[r] = table[r]
      /\ \A r \in End : table'[r]["send"] = table[r]["send"]
  BY <1>1, <1>2 DEF TypeOK, Table
<1>6. /\ UnderWay(q) # <<>>
      /\ Head(UnderWay(q)) = Head(tab)
      /\ UnderWay(q)' = Tail(UnderWay(q))
  <2>1. /\ rmsg[p] \in Seq(Msg) /\ wire[q] \in Seq(Msg) /\ smsg[q] \in Seq(Msg)
        /\ Queued(q) \in Seq(Msg) /\ Tail(tab) \in Seq(Msg)
    BY <1>1, <1>4, PartsAreSeqs, AheadIsSeq
  <2>2. UnderWay(q) = Cat(Cat(Cat(Cat(tab, rmsg[p]), wire[q]), smsg[q]), Queued(q))
    BY <1>1, <1>3 DEF UnderWay, Ahead, Cat
  <2>3. Queued(q)' = Queued(q) /\ ~Gone(p)'
    BY <1>1, <1>2, <1>3, <1>5 DEF Queued, Gone
  <2>4. UnderWay(q)'
          = Cat(Cat(Cat(Cat(Tail(tab), rmsg[p]), wire[q]), smsg[q]), Queued(q))
    BY <1>1, <1>2, <1>5, <2>3 DEF UnderWay, Ahead, Cat
  <2> DEFINE a == rmsg[p]
             b == wire[q]
             c == smsg[q]
             d == Queued(q)
             later == Tail(tab)
  <2>5. /\ a \in Seq(Msg) /\ b \in Seq(Msg) /\ c \in Seq(Msg) /\ d \in Seq(Msg)
        /\ tab \in Seq(Msg) /\ later \in Seq(Msg)
    BY <1>1, <2>1
  <2>6. rest \in Seq(Msg)
    <3> HIDE DEF a, b, c, d
    <3>1. Cat(a, b) \in Seq(Msg) BY <2>5, CatFacts
    <3>2. Cat(Cat(a, b), c) \in Seq(Msg) BY <2>5, <3>1, CatFacts
    <3>3. Cat(Cat(Cat(a, b), c), d) \in Seq(Msg) BY <2>5, <3>2, CatFacts
    <3> QED BY <3>3 DEF a, b, c, d
  <2>7. UnderWay(q) = Cat(tab, rest) /\ UnderWay(q)' = Cat(later, rest)
    <3> HIDE DEF a, b, c, d, tab, later
    <3>1. /\ Cat(Cat(Cat(Cat(tab, a), b), c), d) = Cat(tab, Cat(Cat(Cat(a, b), c), d))
          /\ Cat(Cat(Cat(Cat(later, a), b), c), d)
               = Cat(later, Cat(Cat(Cat(a, b), c), d))
      BY <2>5, FiveParts
    <3> QED BY <2>2, <2>4, <3>1 DEF a, b, c, d, tab, later
  <2> HIDE DEF rest
  <2>8. /\ tab \o rest # <<>> /\ Head(tab \o rest) = Head(tab)
        /\ Tail(tab \o rest) = Tail(tab) \o rest
    BY <1>4, <2>5, <2>6, HeadTailOfConcat
  <2> QED BY <2>7, <2>8 DEF Cat
<1>7. \A r \in End : r # q => UnderWay(r)' = UnderWay(r)
  <2>1. \A r \in End : r # q => Peer[r] # p BY <1>1, SocketAssumption
  <2> QED BY <2>1, <1>1, <1>2, <1>5, KeptStays, PartsAreSeqs DEF Kept, Gone
<1>8. Chan' = [Chan EXCEPT ![q] = Tail(@)] /\ Chan[q] = UnderWay(q)
  BY <1>1, <1>6, <1>7 DEF Chan
<1>9. Open' = Open BY <1>2 DEF Open, Gone
<1> QED BY <1>2, <1>6, <1>8, <1>9 DEF Channel!Receive

\* An end of which a thread is cut off, or that loses what is on the wire,
\* once it is closing.
LEMMA Loses ==
  ASSUME TypeOK, NEW p \in End, UNCHANGED <<alive, cancel, histVars>>,
         Gone(p), UnderWay(p)' \in Channel!Prefixes(UnderWay(p)),
         \A r \in End : r # p => UnderWay(r)' = UnderWay(r)
  PROVE  Channel!Lose(p)
<1>1. Open' = Open /\ ~Open[p] BY DEF Open, Gone
<1>2. Chan' = [Chan EXCEPT ![p] = UnderWay(p)'] /\ Chan[p] = UnderWay(p)
  BY DEF Chan
<1> QED BY <1>1, <1>2 DEF Channel!Lose, histVars

LEMMA SCutOffLoses ==
  ASSUME IInv, NEW p \in End, alive[p], SCutOff(p)
  PROVE  Channel!Lose(p)
<1> DEFINE x == table[Peer[p]]["recv"] \o rmsg[Peer[p]] \o wire[p]
<1>1. TypeOK BY DEF IInv
<1>2. /\ UNCHANGED <<table, rmsg, wire, cancel, alive, histVars>>
      /\ cancel[p] /\ smsg' = [smsg EXCEPT ![p] = <<>>]
  BY DEF SCutOff, netVars
<1>3. /\ smsg'[p] = <<>>
      /\ \A r \in End : r # p => smsg'[r] = smsg[r]
  BY <1>1, <1>2 DEF TypeOK
<1>4. UnderWay(p)' \in Channel!Prefixes(UnderWay(p))
  <2>1. x \in Seq(Msg) /\ smsg[p] \in Seq(Msg) /\ <<>> \in Seq(Msg)
    BY <1>1, PartsAreSeqs, ConcatProperties
  <2>2. x \in Channel!Prefixes(x \o smsg[p]) /\ <<>> \in Channel!Prefixes(<<>>)
    BY <2>1, PrefixesHold
  <2>3. Ahead(p) = x \o smsg[p] /\ Queued(p) = <<>> /\ Queued(p)' = <<>>
        /\ x \o smsg[p] \in Seq(Msg)
    BY <1>1, <1>2, AheadIsSeq DEF Ahead, Queued, Gone
  <2>4. Ahead(p)' = x \o <<>>
    BY <1>1, <1>2, <1>3, PartsAreSeqs DEF Ahead
  <2> HIDE DEF x
  <2>5. Ahead(p) \o Queued(p) = x \o smsg[p] /\ Ahead(p)' \o Queued(p)' = x
    BY <2>1, <2>3, <2>4, ConcatEmptySeq
  <2>6. Gone(Peer[p])' = Gone(Peer[p]) BY <1>2 DEF Gone
  <2> QED BY <2>2, <2>5, <2>6 DEF UnderWay
<1>5. \A r \in End : r # p => UnderWay(r)' = UnderWay(r)
  BY <1>1, <1>2, <1>3, KeptStays, PartsAreSeqs DEF Kept, Gone
<1> QED BY <1>1, <1>2, <1>4, <1>5, Loses DEF Gone

\* At the end of my_close what S has sent may still be on its way, and part of
\* it is lost if the descriptor is closed with messages unread.
LEMMA FreeLoses ==
  ASSUME IInv, NEW p \in End, alive[p], Free(p)
  PROVE  Channel!Lose(p)
<1> DEFINE q == Peer[p]
           x == table[q]["recv"] \o rmsg[q]
<1>1. /\ TypeOK /\ LocalInv(p) /\ q \in End /\ q # p /\ Peer[q] = p
      /\ wire[p] \in Seq(Msg)
  BY PartsAreSeqs DEF IInv
<1>2. /\ UNCHANGED <<smsg, rmsg, cancel, alive, histVars>>
      /\ InCall(p, "my_close") /\ pc[p]["app"] = "free" /\ CloseSocket(p)
      /\ \A r \in End : r # p => table'[r] = table[r]
  BY <1>1 DEF Free, Move, TypeOK
<1>3. Gone(p) /\ pc[p]["S"] = "dead"
  BY <1>1, <1>2 DEF LocalInv, CloseInv, Closing, InCall, Gone
<1>4. smsg[p] = <<>> BY <1>1, <1>3 DEF LocalInv, HandInv
<1>5. PICK n \in 0 .. Len(wire[p]) : wire'[p] = SubSeq(wire[p], 1, n)
  BY <1>1, <1>2, CloseSocketFacts
<1>6. UnderWay(p)' \in Channel!Prefixes(UnderWay(p))
  <2>1. x \in Seq(Msg) /\ SubSeq(wire[p], 1, n) \in Seq(Msg)
    BY <1>1, PartsAreSeqs, ConcatProperties
  <2> DEFINE rest == SubSeq(wire[p], 1, n)
  <2>2. CASE Gone(q)
    <3>1. UnderWay(p) = <<>> /\ UnderWay(p)' = <<>>
      BY <2>2, <1>2 DEF UnderWay, Gone
    <3> QED BY <3>1, EmptyPrefix
  <2>3. CASE ~Gone(q)
    <3>1. UnderWay(p) = ((x \o wire[p]) \o <<>>) \o <<>>
      BY <2>3, <1>3, <1>4 DEF UnderWay, Ahead, Queued
    <3>2. UnderWay(p)' = ((x \o rest) \o <<>>) \o <<>>
      BY <2>3, <1>1, <1>2, <1>3, <1>4, <1>5 DEF UnderWay, Ahead, Queued, Gone
    <3> HIDE DEF x
    <3>3. x \o rest \in Channel!Prefixes(x \o wire[p])
      BY <1>1, <2>1, PrefixOfConcat
    <3> HIDE DEF rest
    <3>4. rest \in Seq(Msg) BY <2>1 DEF rest
    <3>5. /\ x \o wire[p] \in Seq(Msg) /\ x \o rest \in Seq(Msg)
      BY <1>1, <2>1, <3>4, ConcatProperties
    <3>6. /\ ((x \o wire[p]) \o <<>>) \o <<>> = x \o wire[p]
          /\ ((x \o rest) \o <<>>) \o <<>> = x \o rest
      BY <3>5, ConcatEmptySeq
    <3> QED BY <3>1, <3>2, <3>3, <3>6
  <2> QED BY <2>2, <2>3
<1>7. \A r \in End : r # p => UnderWay(r)' = UnderWay(r)
  <2>1. UnderWay(q)' = UnderWay(q) BY <1>1, <1>2, <1>3 DEF UnderWay, Gone
  <2>2. \A r \in End : r \notin {p, q} => Kept(r)
    <3> SUFFICES ASSUME NEW r \in End, r \notin {p, q} PROVE Kept(r) OBVIOUS
    <3>1. Peer[r] \in End /\ Peer[r] # p BY SocketAssumption
    <3>2. wire'[r] = wire[r] BY <1>1, <1>2, CloseSocketFacts
    <3> QED BY <3>1, <3>2, <1>2 DEF Kept, Gone
  <2> QED BY <2>1, <2>2, KeptStays
<1> QED BY <1>1, <1>2, <1>3, <1>6, <1>7, Loses

-----------------------------------------------------------------------------
(***************************************************************************)
(* The steps that close a channel: my_close cancels the threads, or the    *)
(* process ends.                                                           *)
(***************************************************************************)
LEMMA Closes ==
  ASSUME TypeOK, NEW p \in End, UNCHANGED histVars, Gone(p)',
         \A r \in End : r # p => Gone(r)' = Gone(r),
         UnderWay(p)' \in Channel!Prefixes(UnderWay(p)),
         \A r \in End : r \notin {p, Peer[p]} => UnderWay(r)' = UnderWay(r)
  PROVE  Channel!Close(p)
<1> DEFINE q == Peer[p]
<1>1. q \in End /\ q # p /\ Peer[q] = p BY SocketAssumption
<1>2. \A r \in End : r # q => Peer[r] \in End /\ Peer[r] # p
  BY <1>1, SocketAssumption
<1>3. UnderWay(q)' = <<>> BY <1>1 DEF UnderWay
<1>4. Open' = [Open EXCEPT ![p] = FALSE, ![q] = FALSE]
  <2>1. \A r \in End : Open'[r] = IF r = p \/ r = q THEN FALSE ELSE Open[r]
    BY <1>1, <1>2 DEF Open
  <2>2. Open' = [r \in End |-> Open'[r]] BY DEF Open
  <2>3. [Open EXCEPT ![p] = FALSE, ![q] = FALSE]
          = [r \in End |-> IF r = p \/ r = q THEN FALSE ELSE Open[r]]
    BY <1>1 DEF Open
  <2> QED BY <2>1, <2>2, <2>3
<1>5. Chan' = [Chan EXCEPT ![p] = UnderWay(p)', ![q] = <<>>]
      /\ Chan[p] = UnderWay(p)
  BY <1>1, <1>3 DEF Chan
<1> QED BY <1>4, <1>5 DEF Channel!Close, histVars

LEMMA CancelCloses ==
  ASSUME IInv, NEW p \in End, Cancel(p),
         UNCHANGED <<table, smsg, rmsg, wire, alive, histVars>>
  PROVE  Channel!Close(p)
<1>1. TypeOK /\ Peer[p] # p /\ Peer[p] \in End BY PartsAreSeqs DEF IInv
<1>2. cancel' = [cancel EXCEPT ![p] = TRUE] BY DEF Cancel
<1>3. Gone(p)' /\ \A r \in End : r # p => Gone(r)' = Gone(r)
  BY <1>1, <1>2 DEF Gone, TypeOK
<1>4. UnderWay(p)' \in Channel!Prefixes(UnderWay(p))
  <2>1. Ahead(p)' = Ahead(p) BY DEF Ahead
  <2>2. Gone(Peer[p])' = Gone(Peer[p]) BY <1>1, <1>3
  <2>3. UnderWay(p)' = IF Gone(Peer[p]) THEN <<>> ELSE Ahead(p) \o <<>>
    BY <1>3, <2>1, <2>2 DEF UnderWay, Queued
  <2>4. Ahead(p) \in Seq(Msg) /\ Queued(p) \in Seq(Msg) BY <1>1, AheadIsSeq
  <2>5. Ahead(p) \in Channel!Prefixes(Ahead(p) \o Queued(p))
    BY <2>4, PrefixesHold
  <2>6. Ahead(p) \o <<>> = Ahead(p) BY <2>4, ConcatEmptySeq
  <2> QED BY <2>3, <2>5, <2>6, EmptyPrefix DEF UnderWay
<1>5. \A r \in End : r \notin {p, Peer[p]} => UnderWay(r)' = UnderWay(r)
  <2> SUFFICES ASSUME NEW r \in End, r \notin {p, Peer[p]} PROVE Kept(r)
    BY KeptStays
  <2>1. Peer[r] \in End /\ Peer[r] # p BY SocketAssumption
  <2> QED BY <2>1, <1>3 DEF Kept
<1> QED BY <1>1, <1>3, <1>4, <1>5, Closes

\* A process ends only by a reset of its connection, so only when the peer has
\* gone: nothing is under way to it any more.
LEMMA ExitCloses ==
  ASSUME IInv, NEW p \in End, reset[p], Exit(p)
  PROVE  Channel!Close(p)
<1>1. TypeOK /\ NetInv /\ Peer[p] # p /\ Peer[p] \in End
  BY PartsAreSeqs DEF IInv
<1>2. /\ UNCHANGED <<table, smsg, rmsg, cancel, histVars>> /\ CloseSocket(p)
      /\ alive' = [alive EXCEPT ![p] = FALSE]
  BY DEF Exit
<1>3. Gone(p)' /\ \A r \in End : r # p => Gone(r)' = Gone(r)
  BY <1>1, <1>2 DEF Gone, TypeOK
<1>4. Gone(Peer[p]) /\ Gone(Peer[p])' BY <1>1, <1>3 DEF NetInv
<1>5. UnderWay(p)' \in Channel!Prefixes(UnderWay(p))
  <2>1. UnderWay(p) = <<>> /\ UnderWay(p)' = <<>> BY <1>4 DEF UnderWay
  <2> QED BY <2>1, EmptyPrefix
<1>6. \A r \in End : r \notin {p, Peer[p]} => UnderWay(r)' = UnderWay(r)
  <2> SUFFICES ASSUME NEW r \in End, r \notin {p, Peer[p]} PROVE Kept(r)
    BY KeptStays
  <2>1. Peer[r] \in End /\ Peer[r] # p BY SocketAssumption
  <2>2. wire'[r] = wire[r] BY <1>1, <1>2, CloseSocketFacts
  <2> QED BY <2>1, <2>2, <1>2, <1>3 DEF Kept
<1> QED BY <1>1, <1>2, <1>3, <1>5, <1>6, Closes

-----------------------------------------------------------------------------
(***************************************************************************)
(* The theorem.                                                            *)
(***************************************************************************)
LEMMA ChannelInit == Init => Channel!Init
<1> SUFFICES ASSUME Init PROVE Channel!Init OBVIOUS
<1>1. \A p \in End : ~Gone(p) BY DEF Init, Gone
<1>2. \A p \in End : Peer[p] \in End BY SocketAssumption
<1>3. Open = [p \in End |-> TRUE] BY <1>1, <1>2 DEF Open
<1>4. \A p \in End : UnderWay(p) = <<>>
  <2> SUFFICES ASSUME NEW p \in End PROVE UnderWay(p) = <<>> OBVIOUS
  <2>1. Ahead(p) = ((<<>> \o <<>>) \o <<>>) \o <<>> /\ Queued(p) = <<>>
    BY <1>1, <1>2 DEF Init, Ahead, Queued, Table
  <2>2. <<>> \o <<>> = <<>> OBVIOUS
  <2> QED BY <2>1, <2>2, <1>1, <1>2 DEF UnderWay
<1>5. Chan = [p \in End |-> <<>>] BY <1>4 DEF Chan
<1> QED BY <1>3, <1>5 DEF Init, Channel!Init

LEMMA ChannelStep == IInv /\ [Next]_vars => [Channel!Next]_(Channel!vars)
<1> SUFFICES ASSUME IInv, [Next]_vars PROVE [Channel!Next]_(Channel!vars)
  OBVIOUS
<1>1. CASE UNCHANGED vars BY <1>1, Invisible DEF vars, netVars
<1>2. ASSUME NEW p \in End, alive[p], Step(p)
      PROVE  Channel!Next \/ UNCHANGED Channel!vars
  <2> USE <1>2
  <2>1. Peer[p] \in End BY SocketAssumption
  <2>2. CASE \/ \E t \in Thread, x \in Table : WaitLoop(p, t, x) \/ Wakeup(p, t, x)
             \/ RecvSignal(p) \/ SSignal(p) \/ RStop(p) \/ RSignal(p)
    BY <2>2, Invisible
    DEF WaitLoop, Wakeup, RecvSignal, SSignal, RStop, RSignal, netVars
  <2>3. CASE /\ Sleep(p) \/ JoinSend(p) \/ JoinRecv(p)
             /\ UNCHANGED <<ip, mutex, table, smsg, rmsg, netVars, alive, histVars>>
    BY <2>3, Invisible DEF Sleep, JoinSend, JoinRecv, netVars
  <2>4. CASE STake(p) BY <2>4, STakeInvisible
  <2>5. CASE SSend(p) BY <2>5, SSendInvisible
  <2>6. CASE RReceive(p) BY <2>6, RReceiveInvisible
  <2>7. CASE RPut(p) BY <2>7, RPutInvisible
  <2>8. CASE SendPut(p) BY <2>8, SendPutSends DEF Channel!Next
  <2>9. CASE RecvGet(p) BY <2>1, <2>9, RecvGetReceives DEF Channel!Next
  <2>10. CASE SCutOff(p) BY <2>10, SCutOffLoses DEF Channel!Next
  <2>11. CASE Free(p) BY <2>11, FreeLoses DEF Channel!Next
  <2>12. CASE /\ Cancel(p)
              /\ UNCHANGED <<ip, mutex, table, smsg, rmsg, netVars, alive, histVars>>
    BY <2>12, CancelCloses DEF Channel!Next, netVars
  <2>13. CASE SFail(p) \/ RFail(p)
    BY <2>13, ExitCloses DEF SFail, RFail, Channel!Next
  <2>14. app(p) \/ sendThreadFunc(p) \/ recvThreadFunc(p)
           \/ \E t \in Thread, x \in Table : Wakeup(p, t, x)
    BY DEF Step
  <2>15. "app" \in Thread /\ "S" \in Thread /\ "R" \in Thread
         /\ "send" \in Table /\ "recv" \in Table
    BY DEF Thread, Table
  <2> QED
    BY <2>2, <2>3, <2>4, <2>5, <2>6, <2>7, <2>8, <2>9, <2>10, <2>11, <2>12,
       <2>13, <2>14, <2>15
    DEF app, my_send, my_recv, my_close, sendThreadFunc, recvThreadFunc
<1>3. CASE Terminated BY <1>3, Invisible DEF Terminated, vars, netVars
<1> QED BY <1>1, <1>2, <1>3 DEF Next

\* The ends of connections implement message channels: messages arrive whole,
\* in order, at most once, and none but the youngest is lost at the end.
THEOREM SocketIsChannel == Spec => ImplementsChannel
<1> QED
  BY ChannelInit, ChannelStep, Invariance, PTL
  DEF Spec, ImplementsChannel, Channel!Spec
=============================================================================
