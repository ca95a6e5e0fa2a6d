---------------------------- MODULE TimeService ----------------------------
(***************************************************************************)
(* time_server.c and time_client.c: an iterative server that tells each of *)
(* its clients the time, waits for its confirmation and sends it a story.  *)
(*                                                                         *)
(* The connections are the message channels of module MsgChannel, which    *)
(* the socket library implements (module MySocketProofs) from the moment   *)
(* at which its tables are initialised: a my_send and a my_recv is one     *)
(* step of a channel, my_close is Close.                                   *)
(*                                                                         *)
(* my_accept and my_connect start the threads before that (module          *)
(* Connections), when the connection is already there and the peer may     *)
(* send: a thread that runs so early may lose a message, or crash the      *)
(* process.  "setup" is the time in which this can happen.  S, which has   *)
(* nothing to send yet, finds in memory that is not initialised an empty   *)
(* table, or crashes; it is assumed not to find a message there.           *)
(***************************************************************************)
EXTENDS Naturals, Sequences

CONSTANTS Client,      \* the clients, one run of time_client each
          Backlog,     \* the connections that wait for my_accept
          Failures     \* may clients be killed, and accept fail?

ASSUME ServiceAssumption == Backlog \in Nat \ {0} /\ Failures \in BOOLEAN

\* The two ends of the connection of client c.
At(side, c) == <<side, c>>
End == {"server", "client"} \X Client
Peer == [p \in End |-> At(IF p[1] = "server" THEN "client" ELSE "server", p[2])]
Msg == {"time", "confirm", "story"}

VARIABLES
  spc,        \* where the server's main is
  conn,       \* the client it has accepted last
  queue,      \* the connections that wait to be accepted
  cpc,        \* cpc[c]: where the main of client c is
  lost,       \* the clients whose R has met the time too early
  sent, chan, delivered, open    \* the channels

Channel == INSTANCE MsgChannel

chanVars == <<sent, chan, delivered, open>>
vars == <<spc, conn, queue, cpc, lost, chanVars>>

Init ==
  /\ spc = "starting" /\ conn \in Client /\ queue = <<>>
  /\ cpc = [c \in Client |-> "starting"] /\ lost = {}
  /\ Channel!Init

-----------------------------------------------------------------------------
(***************************************************************************)
(* time_server.                                                            *)
(***************************************************************************)
ServerMoves(from, to) == spc = from /\ spc' = to /\ UNCHANGED <<queue, cpc, lost>>

Listen == ServerMoves("starting", "accept") /\ UNCHANGED <<conn, chanVars>>

\* socket or bind fails, or accept, which also meets a listen that has failed.
ServerFails ==
  /\ Failures
  /\ \E from \in {"starting", "accept"} : ServerMoves(from, "exited")
  /\ UNCHANGED <<conn, chanVars>>

\* my_accept: accept, and init_connection up to the creation of the threads.
Accept ==
  /\ queue # <<>>
  /\ spc = "accept" /\ spc' = "setup"
  /\ conn' = Head(queue) /\ queue' = Tail(queue)
  /\ UNCHANGED <<cpc, lost, chanVars>>

\* The rest of init_connection: the tables are ready.
Accepted == ServerMoves("setup", "time") /\ UNCHANGED <<conn, chanVars>>

\* S, or R, does not find its table yet.
ServerCrashes ==
  /\ ServerMoves("setup", "exited") /\ UNCHANGED conn
  /\ Channel!Close(At("server", conn))

\* Mutant: the server waits for the client first.
SendTime_afterConfirm ==
  /\ ServerMoves("time", "confirm") /\ UNCHANGED conn
  /\ delivered[At("client", conn)] # <<>>
  /\ Channel!Send(At("server", conn), "time")

SendTime ==
  /\ ServerMoves("time", "confirm") /\ UNCHANGED conn
  /\ Channel!Send(At("server", conn), "time")

\* Mutant: the server goes on without the confirmation.
RecvConfirm_skipped == ServerMoves("confirm", "story") /\ UNCHANGED <<conn, chanVars>>

RecvConfirm ==
  /\ ServerMoves("confirm", "story") /\ UNCHANGED conn
  /\ Channel!Receive(At("client", conn))

\* The story cannot be opened, which nobody looks at: getdelim ends the server.
NoStory ==
  /\ Failures
  /\ ServerMoves("story", "exited") /\ UNCHANGED conn
  /\ Channel!Close(At("server", conn))

SendStory ==
  /\ ServerMoves("story", "close") /\ UNCHANGED conn
  /\ Channel!Send(At("server", conn), "story")

\* my_close sleeps until what was sent has gone: nothing of it is lost here,
\* though it would be with a client that was killed.
ServerClose ==
  /\ ServerMoves("close", "accept") /\ UNCHANGED conn
  /\ Channel!Close(At("server", conn))
  /\ cpc[conn] # "killed" =>
       chan'[At("server", conn)] = chan[At("server", conn)]

time_server ==
  \/ Listen \/ ServerFails \/ Accept \/ Accepted \/ SendTime \/ RecvConfirm \/ SendStory
  \/ NoStory \/ ServerClose

Turn == {"setup", "time", "confirm", "story", "close"}

\* A killed client resets its connection: a thread of the server meets the
\* error and ends the process.
ServerDies ==
  /\ cpc[conn] = "killed"
  /\ \E from \in Turn : ServerMoves(from, "exited")
  /\ UNCHANGED conn /\ Channel!Close(At("server", conn))

-----------------------------------------------------------------------------
(***************************************************************************)
(* time_client.                                                            *)
(***************************************************************************)
ClientMoves(c, from, to) ==
  /\ cpc[c] = from /\ cpc' = [cpc EXCEPT ![c] = to]
  /\ UNCHANGED <<spc, conn, lost>>

\* Mutant: the queue grows without a bound.
Connect_unbounded(c) ==
  /\ spc \notin {"starting", "exited"}
  /\ ClientMoves(c, "starting", "setup")
  /\ queue' = Append(queue, c)
  /\ UNCHANGED chanVars

\* my_connect: connect, and init_connection up to the creation of the threads.
Connect(c) ==
  /\ spc \notin {"starting", "exited"} /\ Len(queue) < Backlog
  /\ ClientMoves(c, "starting", "setup")
  /\ queue' = Append(queue, c)
  /\ UNCHANGED chanVars

ConnectFails(c) ==
  /\ spc \in {"starting", "exited"} \/ Failures
  /\ ClientMoves(c, "starting", "failed")
  /\ UNCHANGED <<queue, chanVars>>

\* The rest of init_connection.
Connected(c) == ClientMoves(c, "setup", "time") /\ UNCHANGED <<queue, chanVars>>

\* R has the time before its table is initialised, and the message is wiped, or
\* R takes the table for full and nobody wakes it.
LosesTime(c) ==
  /\ cpc[c] = "setup" /\ chan[At("server", c)] # <<>>
  /\ lost' = lost \union {c}
  /\ chan' = [chan EXCEPT ![At("server", c)] = Tail(@)]
  /\ UNCHANGED <<spc, conn, queue, cpc, sent, delivered, open>>

\* S, or R, does not find its table yet.
ClientCrashes(c) ==
  /\ ClientMoves(c, "setup", "killed") /\ UNCHANGED queue
  /\ Channel!Close(At("client", c))

RecvTime(c) ==
  /\ ClientMoves(c, "time", "confirm") /\ UNCHANGED queue
  /\ Channel!Receive(At("server", c))

SendConfirm(c) ==
  /\ ClientMoves(c, "confirm", "story") /\ UNCHANGED queue
  /\ Channel!Send(At("client", c), "confirm")

RecvStory(c) ==
  /\ ClientMoves(c, "story", "close") /\ UNCHANGED queue
  /\ Channel!Receive(At("server", c))

ClientClose(c) ==
  /\ ClientMoves(c, "close", "done") /\ UNCHANGED queue
  /\ Channel!Close(At("client", c))

time_client(c) ==
  \/ Connect(c) \/ ConnectFails(c) \/ Connected(c) \/ RecvTime(c) \/ SendConfirm(c) \/ RecvStory(c)
  \/ ClientClose(c)

Killed(c) ==
  /\ Failures
  /\ \E from \in Turn : ClientMoves(c, from, "killed")
  /\ UNCHANGED queue /\ Channel!Close(At("client", c))

\* The server has ended, and its kernel resets the connections that are left.
ClientDies(c) ==
  /\ spc = "exited"
  /\ \E from \in Turn : ClientMoves(c, from, "failed")
  /\ UNCHANGED queue /\ Channel!Close(At("client", c))

-----------------------------------------------------------------------------
Next ==
  \/ time_server \/ ServerDies \/ ServerCrashes
  \/ \E c \in Client :
       time_client(c) \/ LosesTime(c) \/ ClientCrashes(c) \/ Killed(c) \/ ClientDies(c)

Spec == Init /\ [][Next]_vars

\* The processes run.
FairSpec ==
  Spec /\ WF_vars(time_server) /\ \A c \in Client : WF_vars(time_client(c))

-----------------------------------------------------------------------------
TypeOK ==
  /\ spc \in {"starting", "accept", "exited"} \union Turn
  /\ conn \in Client
  /\ queue \in Seq(Client) /\ Len(queue) <= Backlog
  /\ cpc \in [Client -> {"starting", "done", "failed", "killed"} \union Turn]
  /\ lost \subseteq Client
  /\ sent \in [End -> Seq(Msg)] /\ delivered \in [End -> Seq(Msg)]
  /\ chan \in [End -> Seq(Msg)] /\ open \in [End -> BOOLEAN]

\* What client c and the server have said to each other, in its order.
InOrder(c) ==
  LET s == At("server", c)
      k == At("client", c)
  IN  /\ sent[k] # <<>> => delivered[s] # <<>> /\ delivered[s][1] = "time"
      /\ Len(sent[s]) = 2 => delivered[k] = <<"confirm">>
      /\ cpc[c] = "done" => delivered[s] = <<"time", "story">>

\* Where the client may be whose turn it is.
Abreast ==
  /\ spc \in {"setup", "time"} => cpc[conn] \in {"setup", "time", "killed"}
  /\ spc = "confirm" => cpc[conn] \in {"setup", "time", "confirm", "story", "killed"}
  /\ spc = "story" => cpc[conn] \in {"story", "killed"}
  /\ spc = "close" => cpc[conn] \in {"story", "close", "done", "killed"}

\* The conversation of c has begun and is not over: it is the turn of c.
OneAtATime ==
  \A c \in Client :
    sent[At("server", c)] # <<>> /\ open[At("server", c)]
      => c = conn /\ spc \in {"confirm", "story", "close"}

(***************************************************************************)
(* Server and clients agree on where the conversation is, whatever fails:  *)
(* the server and the client that it has accepted are at points that       *)
(* belong together, and no other client is in the midst of a conversation. *)
(* Each client has the time before it confirms, the server sends the story *)
(* only to a client that has confirmed, and a client that is done has      *)
(* both, in this order.                                                    *)
(***************************************************************************)
InTurn == Abreast /\ OneAtATime /\ \A c \in Client : InOrder(c)

(***************************************************************************)
(* The server turns to one client at a time.  A client that has connected  *)
(* gets its story, or ends before, by a signal or because one of its       *)
(* threads has run too early, unless the server ends.  Two kinds of        *)
(* clients can keep the server, and with it those that wait, for ever: one *)
(* that has ended before or in its turn, and one that has lost the time in *)
(* its set-up and now waits for it, as the server does for the             *)
(* confirmation.                                                           *)
(***************************************************************************)
EndedInTurn == cpc[conn] = "killed" /\ spc \in Turn

WaitForEachOther == conn \in lost /\ cpc[conn] = "time" /\ spc = "confirm"

AllServed ==
  \A c \in Client :
    cpc[c] = "setup" ~>
      cpc[c] \in {"done", "killed"} \/ spc = "exited" \/ EndedInTurn \/ WaitForEachOther
=============================================================================
