---------------------------- MODULE Connections ----------------------------
(***************************************************************************)
(* One process that makes connections one after the other with the socket  *)
(* library of mysocket.c, whose state is in global variables: what         *)
(* my_accept and my_connect set up for each of them, in which order, and   *)
(* what the one before has left behind.                                    *)
(*                                                                         *)
(* init_connection creates the threads S and R before it allocates the     *)
(* tables and initialises them.  The loops of the threads are those of     *)
(* module MySocket, here with their accesses to the tables: a step is a    *)
(* use of one of the pointers sendTable and recvTable, which the threads   *)
(* read under a mutex that init_connection does not take.  A message is    *)
(* represented by the number of the connection it belongs to; Hole is a    *)
(* slot inside a queue that is NULL, and what memory that is not           *)
(* initialised holds in the place of a message.                            *)
(***************************************************************************)
EXTENDS Naturals, Sequences

CONSTANTS MAX_MSG,        \* the number of messages a table holds
          Rounds,         \* bound: the connections made
          Messages,       \* bound: the messages each way on a connection
          Null,           \* no table: the pointer is NULL
          Raw             \* a table in memory that is not initialised

ASSUME ConnectionsAssumption ==
  /\ MAX_MSG \in Nat \ {0} /\ Rounds \in Nat /\ Messages \in Nat
  /\ Null \notin Seq(0 .. Rounds) /\ Raw \notin Seq(0 .. Rounds) /\ Null # Raw

Hole == 0

Table == {"send", "recv"}

VARIABLES
  app,       \* where the program is
  round,     \* the number of the connection
  fd,        \* what accept or connect made of it
  S, R,      \* where the threads are
  ptr,       \* sendTable and recvTable: 0 for NULL, or the table of a round
  table,     \* table[k][x]: the messages of that table, or Raw
  freed,     \* the rounds whose messages freeCQ has freed
  mutex,     \* who holds the mutex of a table
  inbox,     \* the messages of the peer that have not arrived yet
  early,     \* a thread has used a pointer before init_connection returned
  accepted, out,     \* the messages my_send accepted, and S sent
  got, returned      \* those R received and put, and my_recv returned

threadVars == <<S, R, ptr, table, freed, mutex>>
histVars == <<accepted, out, got, returned>>
vars == <<app, round, fd, threadVars, inbox, early, histVars>>

Init ==
  /\ app = "closed" /\ round = 0 /\ fd = "none"
  /\ S = "none" /\ R = "none"
  /\ ptr = [x \in Table |-> 0]
  /\ table = [k \in 1 .. Rounds |-> [x \in Table |-> Raw]]
  /\ freed = {}
  /\ mutex = [x \in Table |-> "none"]
  /\ inbox = 0 /\ early = FALSE
  /\ accepted = <<>> /\ out = <<>> /\ got = <<>> /\ returned = <<>>

-----------------------------------------------------------------------------
(***************************************************************************)
(* my_accept and my_connect: accept or connect, then init_connection,      *)
(* whether or not that succeeded.                                          *)
(***************************************************************************)
Establish ==
  /\ app = "closed" /\ round < Rounds
  /\ round' = round + 1 /\ fd' \in {"connected", "bad"}
  /\ app' = "locks" /\ inbox' = Messages /\ early' = FALSE
  /\ accepted' = <<>> /\ out' = <<>> /\ got' = <<>> /\ returned' = <<>>
  /\ UNCHANGED threadVars

To(from, to) == app = from /\ app' = to

\* Mutant: the mutexes are not initialised again.
InitLocks_kept ==
  /\ To("locks", "createS") /\ UNCHANGED mutex
  /\ UNCHANGED <<round, fd, S, R, ptr, table, freed, inbox, early, histVars>>

InitLocks ==
  /\ To("locks", "createS") /\ mutex' = [x \in Table |-> "none"]
  /\ UNCHANGED <<round, fd, S, R, ptr, table, freed, inbox, early, histVars>>

CreateS ==
  /\ To("createS", "createR") /\ S' = "start"
  /\ UNCHANGED <<round, fd, R, ptr, table, freed, mutex, inbox, early, histVars>>

CreateR ==
  /\ To("createR", "allocSend") /\ R' = "recv"
  /\ UNCHANGED <<round, fd, S, ptr, table, freed, mutex, inbox, early, histVars>>

\* Mutant: a table that is there already is used again.
Alloc_once(x, from, to) ==
  /\ To(from, to) /\ ptr' = [ptr EXCEPT ![x] = 1]
  /\ UNCHANGED <<round, fd, S, R, table, freed, mutex, inbox, early, histVars>>

Alloc(x, from, to) ==
  /\ To(from, to) /\ ptr' = [ptr EXCEPT ![x] = round]
  /\ UNCHANGED <<round, fd, S, R, table, freed, mutex, inbox, early, histVars>>

\* initqueue sets st and end ...
ResetIndices(x, from, to) ==
  /\ To(from, to) /\ table' = [table EXCEPT ![ptr[x]][x] = <<>>]
  /\ UNCHANGED <<round, fd, S, R, ptr, freed, mutex, inbox, early, histVars>>

\* ... and then the slots, one after the other, to NULL: of the messages that
\* have been put in between, those are gone whose slots it comes to later.
ClearSlots(x, from, to) ==
  LET t == table[ptr[x]][x] IN
  /\ To(from, to)
  /\ \E s \in [1 .. Len(t) -> {Hole, round}] :
       /\ \A i \in 1 .. Len(t) : s[i] \in {Hole, t[i]}
       /\ table' = [table EXCEPT ![ptr[x]][x] = s]
  /\ UNCHANGED <<round, fd, S, R, ptr, freed, mutex, inbox, early, histVars>>

initqueue(x, from, between, to) ==
  ResetIndices(x, from, between) \/ ClearSlots(x, between, to)

\* Mutant: the tables are allocated and initialised for the first connection.
init_connection_once ==
  \/ InitLocks \/ CreateS \/ CreateR
  \/ /\ ptr["recv"] = 0
     /\ \/ Alloc("send", "allocSend", "initSend")
        \/ initqueue("send", "initSend", "clearSend", "allocRecv")
        \/ Alloc("recv", "allocRecv", "initRecv")
  \/ initqueue("recv", "initRecv", "clearRecv", "open")
  \/ /\ ptr["recv"] # 0 /\ To("allocSend", "open")
     /\ UNCHANGED <<round, fd, threadVars, inbox, early, histVars>>

init_connection ==
  \/ InitLocks \/ CreateS \/ CreateR
  \/ Alloc("send", "allocSend", "allocRecv")
  \/ Alloc("recv", "allocRecv", "initSend")
  \/ initqueue("send", "initSend", "clearSend", "initRecv")
  \/ initqueue("recv", "initRecv", "clearRecv", "open")

\* The program sees that accept or connect has failed, and ends.
GiveUp ==
  /\ app = "open" /\ fd = "bad" /\ app' = "exited"
  /\ UNCHANGED <<round, fd, threadVars, inbox, early, histVars>>

-----------------------------------------------------------------------------
(***************************************************************************)
(* The calls of the program on an open connection.                         *)
(***************************************************************************)
\* Mutant: off by one.
isfull_late(tab) == Len(tab) = MAX_MSG + 1

isfull(tab) == Len(tab) = MAX_MSG

Woken(t) == IF t = "wait" THEN "start" ELSE t

my_send ==
  LET k == ptr["send"] IN
  /\ app = "open" /\ fd = "connected" /\ Len(accepted) < Messages
  /\ mutex["send"] = "none" /\ ~isfull(table[k]["send"])
  /\ table' = [table EXCEPT ![k]["send"] = Append(@, round)]
  /\ accepted' = Append(accepted, round)
  /\ S' = Woken(S)
  /\ UNCHANGED <<app, round, fd, R, ptr, freed, mutex, inbox, early, out, got,
                 returned>>

\* Mutant: R is not woken.
my_recv_unsignalled ==
  LET k == ptr["recv"] IN
  /\ app = "open" /\ fd = "connected"
  /\ mutex["recv"] = "none" /\ table[k]["recv"] # <<>> /\ Head(table[k]["recv"]) # Hole
  /\ table' = [table EXCEPT ![k]["recv"] = Tail(@)]
  /\ returned' = Append(returned, Head(table[k]["recv"]))
  /\ UNCHANGED <<app, round, fd, S, R, ptr, freed, mutex, inbox, early, accepted,
                 out, got>>

\* front uses what it finds in the slot, and NULL ends the program.
my_recv ==
  LET k == ptr["recv"] IN
  /\ app = "open" /\ fd = "connected"
  /\ mutex["recv"] = "none" /\ table[k]["recv"] # <<>>
  /\ \/ /\ Head(table[k]["recv"]) = Hole /\ app' = "crashed"
        /\ UNCHANGED <<table, returned, R>>
     \/ /\ Head(table[k]["recv"]) # Hole
        /\ table' = [table EXCEPT ![k]["recv"] = Tail(@)]
        /\ returned' = Append(returned, Head(table[k]["recv"]))
        /\ R' = Woken(R) /\ UNCHANGED app
  /\ UNCHANGED <<round, fd, S, ptr, freed, mutex, inbox, early, accepted, out, got>>

\* The threads are cancelled and joined, wherever they are (module MySocket);
\* they may leave the mutexes locked.  freeCQ frees the messages, but changes
\* neither the slots and indices of a table nor the pointer to it.
my_close ==
  /\ app = "open" /\ fd = "connected"
  /\ app' = "closed" /\ fd' = "none" /\ S' = "dead" /\ R' = "dead"
  /\ mutex' \in [Table -> {"none", "dead"}]
  /\ freed' = freed \union {round}
  /\ UNCHANGED <<round, ptr, table, inbox, early, histVars>>

program == Establish \/ init_connection \/ GiveUp \/ my_send \/ my_recv \/ my_close

-----------------------------------------------------------------------------
(***************************************************************************)
(* The threads.  NULL is no table; in memory that is not initialised, a    *)
(* test may come out either way.                                           *)
(***************************************************************************)
\* The thread uses a pointer; it is noted if init_connection has not returned.
Looks == early' = (early \/ app \notin {"open", "closed"})

Crash == app' = "crashed" /\ UNCHANGED <<S, R, table, mutex, out, got>>

Tab(x) == IF ptr[x] = 0 THEN Null ELSE table[ptr[x]][x]

MayBeEmpty(tab) == tab \in {Raw, <<>>}
MayBeFull(tab) == tab # Raw => isfull(tab)
MayHaveRoom(tab) == tab # Raw => ~isfull(tab)

\* isempty, and pthread_cond_wait if it is.
STest ==
  /\ S = "start" /\ mutex["send"] = "none" /\ Looks
  /\ \/ Tab("send") = Null /\ Crash
     \/ /\ Tab("send") # Null /\ MayBeEmpty(Tab("send"))
        /\ S' = "wait" /\ UNCHANGED <<app, R, table, mutex, out, got>>
     \/ /\ Tab("send") \notin {Null, <<>>}
        /\ S' = "take" /\ mutex' = [mutex EXCEPT !["send"] = "S"]
        /\ UNCHANGED <<app, R, table, out, got>>
  /\ UNCHANGED <<round, fd, ptr, freed, inbox, accepted, returned>>

\* front returns NULL for an empty table, a copy of freed memory for a table
\* of an earlier connection that was not empty, and in memory that is not
\* initialised whatever is there: the program may crash, or send that.  To send
\* where there is no connection ends it: exit(1).
STake ==
  /\ S = "take" /\ Looks
  /\ \/ (Tab("send") \in {Raw, <<>>} \/ ptr["send"] \in freed) /\ Crash
     \/ /\ Tab("send") # <<>> /\ fd = "bad"
        /\ app' = "exited" /\ UNCHANGED <<S, R, table, mutex, out, got>>
     \/ /\ Tab("send") = Raw /\ fd # "bad"
        /\ Len(out) < Messages          \* bound
        /\ out' = Append(out, Hole)
        /\ S' = "start" /\ mutex' = [mutex EXCEPT !["send"] = "none"]
        /\ UNCHANGED <<app, R, table, got>>
     \/ /\ Tab("send") \notin {Raw, <<>>} /\ fd # "bad"
        /\ table' = [table EXCEPT ![ptr["send"]]["send"] = Tail(@)]
        /\ out' = Append(out, Head(Tab("send")))
        /\ S' = "start" /\ mutex' = [mutex EXCEPT !["send"] = "none"]
        /\ UNCHANGED <<app, R, got>>
  /\ UNCHANGED <<round, fd, ptr, freed, inbox, accepted, returned>>

RReceive ==
  /\ R = "recv" /\ fd = "connected" /\ inbox > 0
  /\ R' = "start" /\ inbox' = inbox - 1
  /\ UNCHANGED <<app, round, fd, S, ptr, table, freed, mutex, early, histVars>>

\* Mutant: the failure is taken for the end of the stream.
RFail_asEnd ==
  /\ R = "recv" /\ fd = "bad" /\ R' = "dead"
  /\ UNCHANGED <<app, round, fd, S, ptr, table, freed, mutex, inbox, early, histVars>>

\* recv on no descriptor, or on one that is not connected: exit(1).
RFail ==
  /\ R = "recv" /\ fd = "bad"
  /\ app' = "exited"
  /\ UNCHANGED <<round, fd, threadVars, inbox, early, histVars>>

RTest ==
  /\ R = "start" /\ mutex["recv"] = "none" /\ Looks
  /\ \/ Tab("recv") = Null /\ Crash
     \/ /\ Tab("recv") # Null /\ MayBeFull(Tab("recv"))
        /\ R' = "wait" /\ UNCHANGED <<app, S, table, mutex, out, got>>
     \/ /\ Tab("recv") # Null /\ MayHaveRoom(Tab("recv"))
        /\ R' = "put" /\ mutex' = [mutex EXCEPT !["recv"] = "R"]
        /\ UNCHANGED <<app, S, table, out, got>>
  /\ UNCHANGED <<round, fd, ptr, freed, inbox, accepted, returned>>

\* push into memory that is not initialised may crash, or be undone by
\* initqueue.
RPut ==
  /\ R = "put" /\ Looks
  /\ \/ Tab("recv") = Raw /\ Crash
     \/ /\ table' = IF Tab("recv") = Raw \/ Len(Tab("recv")) = MAX_MSG
                    THEN table
                    ELSE [table EXCEPT ![ptr["recv"]]["recv"] = Append(@, round)]
        /\ got' = Append(got, round)
        /\ R' = "recv" /\ mutex' = [mutex EXCEPT !["recv"] = "none"]
        /\ UNCHANGED <<app, S, out>>
  /\ UNCHANGED <<round, fd, ptr, freed, inbox, accepted, returned>>

threads == STest \/ STake \/ RReceive \/ RFail \/ RTest \/ RPut

Running == app \notin {"exited", "crashed"}

Next == Running /\ (program \/ threads)

Spec == Init /\ [][Next]_vars

FairSpec == Spec /\ WF_vars(Running /\ threads) /\ WF_vars(Running /\ init_connection)
              /\ WF_vars(Running /\ my_recv)

-----------------------------------------------------------------------------
TypeOK ==
  /\ app \in {"closed", "locks", "createS", "createR", "allocSend", "allocRecv",
              "initSend", "clearSend", "initRecv", "clearRecv", "open", "exited", "crashed"}
  /\ round \in 0 .. Rounds /\ fd \in {"none", "connected", "bad"}
  /\ S \in {"none", "start", "wait", "take", "dead"}
  /\ R \in {"none", "recv", "start", "wait", "put", "dead"}
  /\ ptr \in [Table -> 0 .. Rounds]
  /\ \A k \in 1 .. Rounds, x \in Table :
       table[k][x] # Raw =>
         table[k][x] \in Seq(0 .. Rounds) /\ Len(table[k][x]) <= MAX_MSG
  /\ freed \subseteq 1 .. Rounds
  /\ mutex \in [Table -> {"none", "S", "R", "dead"}]
  /\ inbox \in 0 .. Messages /\ early \in BOOLEAN

(***************************************************************************)
(* Whatever the connections before have left, messages, locked mutexes and *)
(* pointers to their tables, the program is never given a message that     *)
(* belongs to another connection.                                          *)
(***************************************************************************)
OwnMessages == \A i \in 1 .. Len(returned) : returned[i] = round

(***************************************************************************)
(* If the threads run only once init_connection has returned, they work on *)
(* the tables of this connection from the first step on: no message is     *)
(* lost in either direction, and no memory is used that must not be.       *)
(***************************************************************************)
SoundUnlessEarly ==
  ~early =>
    /\ app # "crashed"
    /\ app = "open" => /\ accepted = out \o Tab("send")
                       /\ got = returned \o Tab("recv")

(***************************************************************************)
(* Every message that R has received on a connection whose threads have    *)
(* not run early is returned to a program that goes on to receive: R never *)
(* sleeps for ever on a message that finds its table full (with MAX_MSG    *)
(* messages before it), nor waits for a mutex that a thread of an earlier  *)
(* connection has left locked.                                             *)
(***************************************************************************)
\* R has received k messages; of the last one it may not be rid yet.
Received(k) == Len(got) >= k \/ (Len(got) = k - 1 /\ R \in {"start", "wait", "put"})

ArrivalsReturned ==
  \A k \in 1 .. Messages :
    app = "open" /\ Received(k) ~> Len(returned) >= k \/ app # "open" \/ early

(***************************************************************************)
(* After an accept or connect that has failed, the threads end the         *)
(* process, whether or not the program looks at the result, and even if S  *)
(* waits or holds a mutex: the program does not live on with threads that  *)
(* use a bad descriptor.                                                   *)
(***************************************************************************)
FailedCallEnds == fd = "bad" ~> app \in {"exited", "crashed"}

-----------------------------------------------------------------------------
(***************************************************************************)
(* What documentation.txt says, and the code does not do.                  *)
(***************************************************************************)
\* my_recv: "Checks if there is any message to receive in the
\* Received_Message table. If yes, the message is returned".  What R put into
\* the table before initqueue, or into the one of an earlier connection, is not.
ArrivalsKept == app = "open" => got = returned \o Tab("recv")
=============================================================================
