------------------------------ MODULE MySocket ------------------------------
(***************************************************************************)
(* The message-oriented socket library of mysocket.c on the ends of        *)
(* established connections, from the moment init_connection has returned.  *)
(* Each end is a process of three threads: the program's own, "app", which *)
(* runs my_send, my_recv and my_close, the S thread (sendThreadFunc) and   *)
(* the R thread (recvThreadFunc).  They share the tables "send" (sendTable)*)
(* and "recv" (recvTable), each under a mutex with two condition variables.*)
(*                                                                         *)
(* A step of a thread is what it does between two points where another     *)
(* thread can be seen to intervene: taking a mutex, testing the table,     *)
(* releasing the mutex (in pthread_cond_wait or by unlock), signalling.    *)
(*                                                                         *)
(* The tables are sequences: module CQueue shows that the circular queue   *)
(* behaves as one.  A message crosses the connection whole: send_helper    *)
(* and recv_helper cut it into chunks and reassemble it.                   *)
(***************************************************************************)
EXTENDS Naturals, Sequences

CONSTANTS End,        \* the ends of connections, one process each
          Peer,       \* Peer[p] is the other end of p's connection
          Msg,        \* the messages
          MAX_MSG,    \* the number of messages a table holds
          SockBuf,    \* the messages the kernel holds in one direction
          Program,    \* Program[p]: the library calls of p's program, in order
          SpuriousWakeups,  \* may pthread_cond_wait return without a signal?
          SleepSuffices     \* does the sleep of my_close outlast the sending?

Call == [call : {"my_send"}, msg : Msg] \union [call : {"my_recv", "my_close"}]

\* A program closes its socket once, with its last call.
ASSUME SocketAssumption ==
  /\ Peer \in [End -> End]
  /\ \A p \in End : Peer[p] # p /\ Peer[Peer[p]] = p
  /\ MAX_MSG \in Nat \ {0}
  /\ SockBuf \in Nat \ {0}
  /\ Program \in [End -> Seq(Call)]
  /\ \A p \in End : Program[p] # <<>>
  /\ \A p \in End : \A i \in 1 .. Len(Program[p]) :
       Program[p][i].call = "my_close" <=> i = Len(Program[p])
  /\ SpuriousWakeups \in BOOLEAN
  /\ SleepSuffices \in BOOLEAN

Thread == {"app", "S", "R"}
Table == {"send", "recv"}

VARIABLES
  ip,         \* ip[p]: the call p's program is in, or makes next
  pc,         \* pc[p][t]: where thread t of p is
  mutex,      \* mutex[p][x]: the thread that holds the mutex of table x
  table,      \* table[p][x]: the messages in table x, oldest first
  smsg, rmsg, \* the message S is sending, R has received: at most one
  cancel,     \* my_close has cancelled the S and the R thread
  wire,       \* wire[p]: what p has sent and its peer has not received yet
  fdOpen,     \* the socket descriptor is open
  reset,      \* the peer's kernel has reset the connection
  alive,      \* the process runs: it was not killed and did not exit(1)
  sent,       \* sent[p]: the messages my_send accepted from p's program
  delivered   \* delivered[p]: those my_recv gave to the peer's program

netVars == <<wire, fdOpen, reset>>
histVars == <<sent, delivered>>
vars == <<ip, pc, mutex, table, smsg, rmsg, cancel, netVars, alive, histVars>>

Init ==
  /\ ip = [p \in End |-> 1]
  /\ pc = [p \in End |->
             [t \in Thread |-> IF t = "R" THEN "recv" ELSE "start"]]
  /\ mutex = [p \in End |-> [x \in Table |-> "none"]]
  /\ table = [p \in End |-> [x \in Table |-> <<>>]]
  /\ smsg = [p \in End |-> <<>>]
  /\ rmsg = [p \in End |-> <<>>]
  /\ cancel = [p \in End |-> FALSE]
  /\ wire = [p \in End |-> <<>>]
  /\ fdOpen = [p \in End |-> TRUE]
  /\ reset = [p \in End |-> FALSE]
  /\ alive = [p \in End |-> TRUE]
  /\ sent = [p \in End |-> <<>>]
  /\ delivered = [p \in End |-> <<>>]

-----------------------------------------------------------------------------
Finished(p) == ip[p] > Len(Program[p])

\* The program of p is in a call of f, or makes it next.
InCall(p, f) == ~Finished(p) /\ Program[p][ip[p]].call = f

\* Thread t puts messages into table x, or takes them from it.
Producer(t, x) == <<t, x>> \in {<<"app", "send">>, <<"R", "recv">>}
Consumer(t, x) == <<t, x>> \in {<<"app", "recv">>, <<"S", "send">>}

\* The thread at the other side of table x.
Partner(t, x) == IF t # "app" THEN "app" ELSE IF x = "send" THEN "S" ELSE "R"

\* Thread t works on table x now.
Uses(p, t, x) ==
  /\ Producer(t, x) \/ Consumer(t, x)
  /\ t = "app" => InCall(p, IF x = "send" THEN "my_send" ELSE "my_recv")

\* Mutant: off by one.
isfull_late(tab) == Len(tab) = MAX_MSG + 1

isfull(tab) == Len(tab) = MAX_MSG
isempty(tab) == tab = <<>>
push(tab, m) == IF isfull(tab) THEN tab ELSE Append(tab, m)

\* Mutant: my_send does not wait for a free entry.
MustWait_notSend(p, t, x) ==
  IF Producer(t, x) THEN t = "R" /\ isfull(table[p][x]) ELSE isempty(table[p][x])

MustWait(p, t, x) ==
  IF Producer(t, x) THEN isfull(table[p][x]) ELSE isempty(table[p][x])

\* Mutant: R is not cancelled where it waits for its table.
Cancelled_onlyS(p, t) == cancel[p] /\ t = "S"

Cancelled(p, t) == cancel[p] /\ t # "app"

Move(p, t, from, to) == pc[p][t] = from /\ pc' = [pc EXCEPT ![p][t] = to]

Unlock(p, x) == mutex' = [mutex EXCEPT ![p][x] = "none"]

Waits(p, t, x) == Uses(p, t, x) /\ pc[p][t] = "wait"

\* Mutant: the partner is not told.
MoveAndSignal_unheard(p, t, x, from, to) == Move(p, t, from, to)

\* Thread t goes on at "to" and calls pthread_cond_signal: if its partner is
\* in pthread_cond_wait, that will take the mutex and test the table again.
\* Otherwise the signal has no effect.
MoveAndSignal(p, t, x, from, to) ==
  LET u == Partner(t, x) IN
  /\ pc[p][t] = from
  /\ pc' = [pc EXCEPT ![p][t] = to,
                      ![p][u] = IF Waits(p, u, x) THEN "start" ELSE @]

Return(p) == ip' = [ip EXCEPT ![p] = @ + 1]

-----------------------------------------------------------------------------
(***************************************************************************)
(* The loop in which thread t takes the mutex of table x and waits until   *)
(* it can go on.  The four of them differ in the test, and in that S and R *)
(* can be cancelled there, at a pthread_testcancel or in pthread_cond_wait.*)
(* No cleanup handler is installed: the mutex stays locked.                *)
(***************************************************************************)
Acquire(p, t, x) ==
  /\ mutex[p][x] = "none"
  /\ mutex' = [mutex EXCEPT ![p][x] = t]
  /\ Move(p, t, "start", "test")

Test(p, t, x) ==
  /\ Move(p, t, "test", IF MustWait(p, t, x) THEN "park" ELSE "go")
  /\ UNCHANGED mutex

Park(p, t, x) ==
  ~Cancelled(p, t) /\ Move(p, t, "park", "wait") /\ Unlock(p, x)

\* Mutant: pthread_cond_wait returns without the mutex.
Unpark_unlocked(p, t, x) ==
  /\ SpuriousWakeups \/ Cancelled(p, t)
  /\ Move(p, t, "wait", "test")
  /\ UNCHANGED mutex

\* Mutant: "if" for "while", the table is not tested again.
Unpark_untested(p, t, x) ==
  /\ SpuriousWakeups \/ Cancelled(p, t)
  /\ mutex[p][x] = "none" /\ mutex' = [mutex EXCEPT ![p][x] = t]
  /\ Move(p, t, "wait", "go")

\* pthread_cond_wait ends without a signal.  A cancelled thread, too, takes
\* the mutex again before it dies.
Unpark(p, t, x) ==
  /\ SpuriousWakeups \/ Cancelled(p, t)
  /\ Move(p, t, "wait", "start")
  /\ UNCHANGED mutex

TestCancel(p, t) ==
  /\ Cancelled(p, t)
  /\ pc[p][t] \in {"park", "go"}
  /\ pc' = [pc EXCEPT ![p][t] = "dead"]
  /\ UNCHANGED mutex

WaitLoop(p, t, x) ==
  /\ Uses(p, t, x)
  /\ Acquire(p, t, x) \/ Test(p, t, x) \/ Park(p, t, x) \/ TestCancel(p, t)
  /\ UNCHANGED <<ip, table, smsg, rmsg, cancel, netVars, alive, histVars>>

Wakeup(p, t, x) ==
  /\ Uses(p, t, x) /\ Unpark(p, t, x)
  /\ UNCHANGED <<ip, table, smsg, rmsg, cancel, netVars, alive, histVars>>

-----------------------------------------------------------------------------
(***************************************************************************)
(* my_send signals S before it unlocks, my_recv signals R afterwards.      *)
(* my_send returns the length it was given whatever push did.              *)
(***************************************************************************)
SendPut(p) ==
  LET m == Program[p][ip[p]].msg IN
  /\ InCall(p, "my_send") /\ Return(p)
  /\ MoveAndSignal(p, "app", "send", "go", "start") /\ Unlock(p, "send")
  /\ table' = [table EXCEPT ![p]["send"] = push(@, m)]
  /\ sent' = [sent EXCEPT ![p] = Append(@, m)]
  /\ UNCHANGED <<smsg, rmsg, cancel, netVars, alive, delivered>>

my_send(p) == WaitLoop(p, "app", "send") \/ SendPut(p)

RecvGet(p) ==
  /\ InCall(p, "my_recv")
  /\ Move(p, "app", "go", "signal") /\ Unlock(p, "recv")
  /\ table' = [table EXCEPT ![p]["recv"] = Tail(@)]
  /\ delivered' =
       [delivered EXCEPT ![Peer[p]] = Append(@, Head(table[p]["recv"]))]
  /\ UNCHANGED <<ip, smsg, rmsg, cancel, netVars, alive, sent>>

RecvSignal(p) ==
  /\ InCall(p, "my_recv") /\ Return(p)
  /\ MoveAndSignal(p, "app", "recv", "signal", "start")
  /\ UNCHANGED <<mutex, table, smsg, rmsg, cancel, netVars, alive, histVars>>

my_recv(p) == WaitLoop(p, "app", "recv") \/ RecvGet(p) \/ RecvSignal(p)

-----------------------------------------------------------------------------
(***************************************************************************)
(* The end of a descriptor, by close or by the end of its process.  What   *)
(* the peer sent and p never read is discarded; the kernel then resets the *)
(* connection, and what p sent last may be lost on its way.                *)
(***************************************************************************)
CloseSocket(p) ==
  LET q == Peer[p]
      unread == wire[q] # <<>>
  IN  /\ fdOpen' = [fdOpen EXCEPT ![p] = FALSE]
      /\ reset' = [reset EXCEPT ![q] = @ \/ unread]
      /\ \E n \in 0 .. Len(wire[p]) :
           /\ unread \/ n = Len(wire[p])
           /\ wire' = [wire EXCEPT ![p] = SubSeq(@, 1, n), ![q] = <<>>]

\* exit(1), or a SIGPIPE, in one of p's threads ends all of them.
Exit(p) ==
  /\ alive' = [alive EXCEPT ![p] = FALSE]
  /\ CloseSocket(p)
  /\ UNCHANGED <<ip, pc, mutex, table, smsg, rmsg, cancel, histVars>>

(***************************************************************************)
(* my_close.  sleep(5) is to let the S thread send what the table holds.   *)
(* It is long enough unless the peer's program lets its table fill up and  *)
(* does not call my_recv; SleepSuffices = FALSE assumes nothing about it.  *)
(***************************************************************************)
SendingOver(p) ==
  \/ pc[p]["S"] = "wait" /\ isempty(table[p]["send"])
  \/ /\ pc[p]["S"] = "send" /\ Len(wire[p]) = SockBuf
     /\ pc[Peer[p]]["R"] = "wait" /\ ~InCall(Peer[p], "my_recv")

\* Mutant: the threads are cancelled first.
Sleep_cancelling(p) ==
  /\ Move(p, "app", "start", "sleep")
  /\ cancel' = [cancel EXCEPT ![p] = TRUE]

Sleep(p) == Move(p, "app", "start", "sleep") /\ UNCHANGED cancel

\* Mutant: no sleep.
Cancel_atOnce(p) ==
  /\ Move(p, "app", "sleep", "join_send")
  /\ cancel' = [cancel EXCEPT ![p] = TRUE]

\* Both pthread_cancel calls: a cancellation request only marks a thread.
Cancel(p) ==
  /\ SleepSuffices => SendingOver(p)
  /\ Move(p, "app", "sleep", "join_send")
  /\ cancel' = [cancel EXCEPT ![p] = TRUE]

JoinSend(p) ==
  /\ pc[p]["S"] = "dead"
  /\ Move(p, "app", "join_send", "join_recv") /\ UNCHANGED cancel

JoinRecv(p) ==
  /\ pc[p]["R"] \in {"dead", "returned"}
  /\ Move(p, "app", "join_recv", "free") /\ UNCHANGED cancel

\* The mutexes are destroyed whoever holds them, the tables' messages freed.
Free(p) ==
  /\ InCall(p, "my_close") /\ Return(p)
  /\ Move(p, "app", "free", "start")
  /\ mutex' = [mutex EXCEPT ![p] = [x \in Table |-> "none"]]
  /\ table' = [table EXCEPT ![p] = [x \in Table |-> <<>>]]
  /\ CloseSocket(p)
  /\ UNCHANGED <<smsg, rmsg, cancel, alive, histVars>>

my_close(p) ==
  \/ /\ InCall(p, "my_close")
     /\ Sleep(p) \/ Cancel(p) \/ JoinSend(p) \/ JoinRecv(p)
     /\ UNCHANGED <<ip, mutex, table, smsg, rmsg, netVars, alive, histVars>>
  \/ Free(p)

-----------------------------------------------------------------------------
(***************************************************************************)
(* The S thread.                                                           *)
(***************************************************************************)
STake(p) ==
  /\ ~cancel[p]
  /\ Move(p, "S", "go", "signal") /\ Unlock(p, "send")
  /\ smsg' = [smsg EXCEPT ![p] = <<Head(table[p]["send"])>>]
  /\ table' = [table EXCEPT ![p]["send"] = Tail(@)]
  /\ UNCHANGED <<ip, rmsg, cancel, netVars, alive, histVars>>

SSignal(p) ==
  /\ MoveAndSignal(p, "S", "send", "signal", "send")
  /\ UNCHANGED <<ip, mutex, table, smsg, rmsg, cancel, netVars, alive,
                 histVars>>

\* send_helper.  A socket that is closed at the other end takes the message
\* and has a reset for an answer.
SSend(p) ==
  /\ Move(p, "S", "send", "start")
  /\ IF fdOpen[Peer[p]]
     THEN /\ Len(wire[p]) < SockBuf
          /\ wire' = [wire EXCEPT ![p] = @ \o smsg[p]]
          /\ UNCHANGED reset
     ELSE reset' = [reset EXCEPT ![p] = TRUE] /\ UNCHANGED wire
  /\ smsg' = [smsg EXCEPT ![p] = <<>>]
  /\ UNCHANGED <<ip, mutex, table, rmsg, cancel, fdOpen, alive, histVars>>

\* Cancelled in send: what the peer gets of the message stays incomplete.
SCutOff(p) ==
  /\ cancel[p] /\ Move(p, "S", "send", "dead")
  /\ smsg' = [smsg EXCEPT ![p] = <<>>]
  /\ UNCHANGED <<ip, mutex, table, rmsg, cancel, netVars, alive, histVars>>

SFail(p) == pc[p]["S"] = "send" /\ reset[p] /\ Exit(p)

sendThreadFunc(p) ==
  \/ WaitLoop(p, "S", "send")
  \/ STake(p) \/ SSignal(p) \/ SSend(p) \/ SCutOff(p) \/ SFail(p)

-----------------------------------------------------------------------------
(***************************************************************************)
(* The R thread.                                                           *)
(***************************************************************************)
RReceive(p) ==
  LET q == Peer[p] IN
  /\ wire[q] # <<>>
  /\ Move(p, "R", "recv", "start")
  /\ rmsg' = [rmsg EXCEPT ![p] = <<Head(wire[q])>>]
  /\ wire' = [wire EXCEPT ![q] = Tail(@)]
  /\ UNCHANGED <<ip, mutex, table, smsg, cancel, fdOpen, reset, alive,
                 histVars>>

\* Cancelled in recv, or recv_helper returns NULL: the stream has ended,
\* perhaps inside a message.
RStop(p) ==
  /\ \/ cancel[p] /\ Move(p, "R", "recv", "dead")
     \/ /\ wire[Peer[p]] = <<>> /\ ~fdOpen[Peer[p]]
        /\ Move(p, "R", "recv", "returned")
  /\ UNCHANGED <<ip, mutex, table, smsg, rmsg, cancel, netVars, alive,
                 histVars>>

RFail(p) == pc[p]["R"] = "recv" /\ reset[p] /\ Exit(p)

RPut(p) ==
  /\ ~cancel[p]
  /\ Move(p, "R", "go", "signal") /\ Unlock(p, "recv")
  /\ table' = [table EXCEPT ![p]["recv"] = push(@, Head(rmsg[p]))]
  /\ rmsg' = [rmsg EXCEPT ![p] = <<>>]
  /\ UNCHANGED <<ip, smsg, cancel, netVars, alive, histVars>>

RSignal(p) ==
  /\ MoveAndSignal(p, "R", "recv", "signal", "recv")
  /\ UNCHANGED <<ip, mutex, table, smsg, rmsg, cancel, netVars, alive,
                 histVars>>

recvThreadFunc(p) ==
  \/ RReceive(p) \/ RStop(p) \/ RFail(p)
  \/ WaitLoop(p, "R", "recv")
  \/ RPut(p) \/ RSignal(p)

-----------------------------------------------------------------------------
app(p) == my_send(p) \/ my_recv(p) \/ my_close(p)

Step(p) ==
  \/ app(p) \/ sendThreadFunc(p) \/ recvThreadFunc(p)
  \/ \E t \in Thread, x \in Table : Wakeup(p, t, x)

\* Every program has closed its socket, or its process has ended before.
Terminated == (\A p \in End : Finished(p) \/ ~alive[p]) /\ UNCHANGED vars

Next == (\E p \in End : alive[p] /\ Step(p)) \/ Terminated

Spec == Init /\ [][Next]_vars

\* The scheduler runs every thread that can run; a cancelled thread leaves
\* pthread_cond_wait.
Fairness ==
  \A p \in End :
    /\ WF_vars(alive[p] /\ app(p))
    /\ WF_vars(alive[p] /\ sendThreadFunc(p))
    /\ WF_vars(alive[p] /\ recvThreadFunc(p))
    /\ WF_vars(alive[p] /\ cancel[p] /\ Wakeup(p, "S", "send"))
    /\ WF_vars(alive[p] /\ cancel[p] /\ Wakeup(p, "R", "recv"))

FairSpec == Spec /\ Fairness
-----------------------------------------------------------------------------
(***************************************************************************)
(* What the library keeps true.                                            *)
(***************************************************************************)
AtMostOne == {s \in Seq(Msg) : Len(s) <= 1}

PC == {"start", "test", "park", "wait", "go", "signal", "send", "recv", "dead",
       "returned", "sleep", "join_send", "join_recv", "free"}

(***************************************************************************)
(* Type correctness: the tables never hold more than MAX_MSG messages, a   *)
(* thread never more than one.                                             *)
(***************************************************************************)
TypeOK ==
  /\ ip \in [End -> Nat \ {0}]
  /\ pc \in [End -> [Thread -> PC]]
  /\ mutex \in [End -> [Table -> Thread \union {"none"}]]
  /\ table \in [End -> [Table -> Seq(Msg)]]
  /\ \A p \in End, x \in Table : Len(table[p][x]) <= MAX_MSG
  /\ smsg \in [End -> AtMostOne]
  /\ rmsg \in [End -> AtMostOne]
  /\ wire \in [End -> Seq(Msg)]
  /\ cancel \in [End -> BOOLEAN]
  /\ fdOpen \in [End -> BOOLEAN]
  /\ reset \in [End -> BOOLEAN]
  /\ alive \in [End -> BOOLEAN]
  /\ sent \in [End -> Seq(Msg)]
  /\ delivered \in [End -> Seq(Msg)]

\* Where a thread has tested the table and not acted on it yet.
Holds(p, t, x) == Uses(p, t, x) /\ pc[p][t] \in {"test", "park", "go"}

(***************************************************************************)
(* Mutual exclusion on each table: two threads are never both between      *)
(* taking its mutex and leaving it.                                        *)
(***************************************************************************)
MutualExclusion ==
  \A p \in End, x \in Table, t, u \in Thread :
    Holds(p, t, x) /\ Holds(p, u, x) => t = u

(***************************************************************************)
(* What the test of the loop found still holds when the thread acts: push  *)
(* never meets a full table, where it would drop the message in silence    *)
(* (mysocket.c:48), and front never an empty one, where it returns NULL.   *)
(***************************************************************************)
TestStillHolds ==
  \A p \in End, x \in Table, t \in Thread :
    Uses(p, t, x) /\ pc[p][t] = "go" => ~MustWait(p, t, x)

(***************************************************************************)
(* No wakeup is lost, though S, R and my_recv signal after they have       *)
(* unlocked: while a thread is in pthread_cond_wait and could go on, its   *)
(* partner is about to signal.                                             *)
(***************************************************************************)
WokenInTime(p) ==
  \A x \in Table, t \in Thread :
    alive[p] /\ Waits(p, t, x) /\ ~MustWait(p, t, x) =>
      LET u == Partner(t, x) IN Uses(p, u, x) /\ pc[p][u] = "signal"

NoLostWakeup == \A p \in End : WokenInTime(p)

(***************************************************************************)
(* S and R may die with the mutex locked, but only once the program is in  *)
(* my_close, where nobody will ask for it any more.                        *)
(***************************************************************************)
DeadHoldNothingWanted ==
  \A p \in End, x \in Table :
    LET u == IF x = "send" THEN "S" ELSE "R" IN
    mutex[p][x] = u /\ pc[p][u] = "dead" =>
      InCall(p, "my_close") /\ pc[p]["app"] \in {"join_send", "join_recv", "free"}

(***************************************************************************)
(* The two ends of a connection implement a pair of message channels: in   *)
(* each direction whole messages in the order they were sent, none twice,  *)
(* none lost until one of the ends stops its threads.  Whatever is lost    *)
(* then by the cancellation, a reset or an exit(1) is the youngest part.   *)
(***************************************************************************)
Gone(p) == cancel[p] \/ ~alive[p]

\* What p sent that is no longer in its table, and what is.
Ahead(p) ==
  LET q == Peer[p] IN table[q]["recv"] \o rmsg[q] \o wire[p] \o smsg[p]
Queued(p) == IF Gone(p) THEN <<>> ELSE table[p]["send"]

UnderWay(p) == IF Gone(Peer[p]) THEN <<>> ELSE Ahead(p) \o Queued(p)

Chan == [p \in End |-> UnderWay(p)]
Open == [p \in End |-> ~Gone(p) /\ ~Gone(Peer[p])]

Channel == INSTANCE MsgChannel WITH chan <- Chan, open <- Open

ImplementsChannel == Channel!Spec

-----------------------------------------------------------------------------
(***************************************************************************)
(* The inductive invariant behind these properties.                        *)
(***************************************************************************)
\* A thread between the lock and the unlock holds the mutex.
HolderInv(p) ==
  \A x \in Table, t \in Thread : Holds(p, t, x) => mutex[p][x] = t

\* What the test found, in both its outcomes, until the mutex is released.
TestInv(p) ==
  \A x \in Table, t \in Thread : Uses(p, t, x) =>
    /\ pc[p][t] = "go" => ~MustWait(p, t, x)
    /\ pc[p][t] = "park" => MustWait(p, t, x)

\* S has a message in hand from STake to SSend, R from RReceive to RPut.
HandInv(p) ==
  /\ smsg[p] = <<>> <=> pc[p]["S"] \notin {"signal", "send"}
  /\ pc[p]["R"] \in {"start", "test", "park", "wait", "go"} => rmsg[p] # <<>>
  /\ pc[p]["R"] \in {"signal", "recv", "returned"} => rmsg[p] = <<>>

Closing(p) ==
  InCall(p, "my_close") /\ pc[p]["app"] \in {"join_send", "join_recv", "free"}

\* How far my_close is with the threads.
CloseInv(p) ==
  /\ cancel[p] <=> Closing(p) \/ Finished(p)
  /\ pc[p]["app"] \in {"sleep", "join_send", "join_recv", "free"} =>
       InCall(p, "my_close")
  /\ pc[p]["S"] = "dead" \/ pc[p]["R"] = "dead" => cancel[p]
  /\ Finished(p) \/ (Closing(p) /\ pc[p]["app"] # "join_send") =>
       pc[p]["S"] = "dead"
  /\ Finished(p) \/ (Closing(p) /\ pc[p]["app"] = "free") =>
       pc[p]["R"] \in {"dead", "returned"}
  /\ Finished(p) => pc[p]["app"] = "start" /\ mutex[p] = [x \in Table |-> "none"]

LocalInv(p) ==
  HolderInv(p) /\ TestInv(p) /\ WokenInTime(p) /\ HandInv(p) /\ CloseInv(p)

\* A descriptor is closed, and a connection reset, only by an end that has
\* stopped its threads.
NetInv ==
  \A p \in End : (~fdOpen[p] => Gone(p)) /\ (reset[p] => ~fdOpen[Peer[p]])

IInv == TypeOK /\ NetInv /\ \A p \in End : LocalInv(p)

-----------------------------------------------------------------------------
(***************************************************************************)
(* my_close always comes to its end, wherever the cancellation meets the   *)
(* two threads: S in send on a connection the peer no longer empties, R in *)
(* recv, one of them waiting for a table, or about to take a mutex.        *)
(***************************************************************************)
CloseReturns ==
  \A p \in End : pc[p]["app"] = "sleep" ~> Finished(p) \/ ~alive[p]

(***************************************************************************)
(* Programs that receive what is sent to them get all of it, and none is   *)
(* left waiting, when the sleep in my_close suffices and pthread_cond_wait *)
(* does not go on for ever to return without a signal.                     *)
(***************************************************************************)
OnlySignalled ==
  \A p \in End, t \in Thread :
    pc[p][t] = "wait" /\ pc'[p][t] = "start"
      => cancel[p] \/ \E u \in Thread \ {t} : pc'[p][u] # pc[p][u]

AllDelivered ==
  <>[][OnlySignalled]_vars
    => <>(\A p \in End : Finished(p) /\ alive[p] /\ delivered[p] = sent[p])

-----------------------------------------------------------------------------
(***************************************************************************)
(* What documentation.txt says, and the code does not do.                  *)
(***************************************************************************)
\* my_recv: "return: same as recv()", which returns 0 when the peer has
\* performed its shutdown.
RecvReturns ==
  \A p \in End : InCall(p, "my_recv") ~> ~InCall(p, "my_recv") \/ ~alive[p]
=============================================================================
