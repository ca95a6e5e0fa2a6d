------------------------------ MODULE Framing ------------------------------
(***************************************************************************)
(* send_helper and recv_helper of mysocket.c on the two sides of one       *)
(* direction of a connection, byte by byte.  A message is sent as chunks   *)
(* of at most CHUNK bytes, each after one byte with its size; a size of 0  *)
(* ends it.  send may take fewer bytes than it is given, recv may return   *)
(* fewer than it is asked for.                                             *)
(*                                                                         *)
(* The S thread calls send_helper again and again until my_close cancels   *)
(* it, the R thread recv_helper.                                           *)
(***************************************************************************)
EXTENDS Naturals, Sequences

CONSTANTS Msg,           \* the messages, each a sequence of bytes
          UINT8,         \* the number of values of a byte: 256
          CHUNK,         \* the largest chunk: 250
          MAX_MSG_SIZE,  \* the size of recv_helper's buffer: 5000
          SockBuf,       \* the bytes the kernel holds
          Calls          \* bound: how often send_helper is called

Byte == 0 .. (UINT8 - 1)

\* No message is longer than the buffer.
ASSUME FramingAssumption ==
  /\ UINT8 \in Nat \ {0} /\ CHUNK \in Nat \ {0} /\ CHUNK < UINT8
  /\ MAX_MSG_SIZE \in Nat /\ SockBuf \in Nat \ {0} /\ Calls \in Nat
  /\ \A m \in Msg : m \in Seq(Byte) /\ Len(m) <= MAX_MSG_SIZE

VARIABLES
  spc,         \* where the sender is
  msg, sent, tosend,   \* the variables of send_helper
  stream,      \* the bytes on their way, oldest first
  reset,       \* the connection was reset by the sender's kernel
  rpc,         \* where the receiver is
  buf, torecv, \* those of recv_helper; "size" is the length of buf
  handed,      \* the messages send_helper was called with
  returned     \* the messages recv_helper returned

sendVars == <<spc, msg, sent, tosend, handed>>
recvVars == <<rpc, buf, torecv, returned>>
vars == <<sendVars, stream, reset, recvVars>>

Init ==
  /\ spc = "idle" /\ msg = <<>> /\ sent = 0 /\ tosend = 0
  /\ stream = <<>> /\ reset = FALSE
  /\ rpc = "size" /\ buf = <<>> /\ torecv = 0
  /\ handed = <<>> /\ returned = <<>>

Least(i, j) == IF i < j THEN i ELSE j

Sending == spc \in {"size", "data", "end"}
SenderOpen == spc # "closed"

\* The descriptor at the receiver's side is closed.
Left == rpc \in {"left", "failed"}

-----------------------------------------------------------------------------
(***************************************************************************)
(* send_helper.                                                            *)
(***************************************************************************)
\* A send that the kernel takes.  When the receiver has left it takes the
\* bytes for nothing.
Put(bytes) ==
  IF Left
  THEN UNCHANGED stream
  ELSE /\ Len(stream) + Len(bytes) <= SockBuf
       /\ stream' = stream \o bytes

CallSend(m) ==
  /\ spc = "idle" /\ Len(handed) < Calls
  /\ spc' = IF Len(m) > 0 THEN "size" ELSE "end"
  /\ msg' = m /\ sent' = 0
  /\ handed' = Append(handed, m)
  /\ UNCHANGED <<tosend, stream, reset, recvVars>>

\* Mutant: the rest of the message as one chunk.
SendSize_whole ==
  /\ spc = "size"
  /\ tosend' = Len(msg) - sent
  /\ Put(<<tosend' % UINT8>>)
  /\ spc' = "data"
  /\ UNCHANGED <<msg, sent, handed, reset, recvVars>>

SendSize ==
  /\ spc = "size"
  /\ tosend' = Least(Len(msg) - sent, CHUNK)
  /\ Put(<<tosend' % UINT8>>)
  /\ spc' = "data"
  /\ UNCHANGED <<msg, sent, handed, reset, recvVars>>

\* Mutant: a short send counts as a full one.
SendData_short ==
  /\ spc = "data"
  /\ \E ret \in 1 .. tosend : Put(SubSeq(msg, sent + 1, sent + ret))
  /\ tosend' = 0 /\ sent' = sent + tosend
  /\ spc' = IF sent' < Len(msg) THEN "size" ELSE "end"
  /\ UNCHANGED <<msg, handed, reset, recvVars>>

SendData ==
  /\ spc = "data"
  /\ \E ret \in 1 .. tosend :
       /\ Put(SubSeq(msg, sent + 1, sent + ret))
       /\ tosend' = tosend - ret /\ sent' = sent + ret
  /\ spc' = IF tosend' > 0 THEN "data"
            ELSE IF sent' < Len(msg) THEN "size" ELSE "end"
  /\ UNCHANGED <<msg, handed, reset, recvVars>>

\* Mutant: no end after a message that fills its last chunk.
SendEnd_unlessFull ==
  /\ spc = "end"
  /\ IF Len(msg) = CHUNK THEN UNCHANGED stream ELSE Put(<<0>>)
  /\ spc' = "idle"
  /\ UNCHANGED <<msg, sent, tosend, handed, reset, recvVars>>

SendEnd ==
  /\ spc = "end"
  /\ Put(<<0>>)
  /\ spc' = "idle"
  /\ UNCHANGED <<msg, sent, tosend, handed, reset, recvVars>>

\* send fails: exit(1), or SIGPIPE.
SendFails ==
  /\ Sending /\ Left
  /\ spc' = "closed"
  /\ UNCHANGED <<msg, sent, tosend, handed, stream, reset, recvVars>>

send_helper == SendSize \/ SendData \/ SendEnd \/ SendFails

\* The sender closes: in order, its S thread cut off wherever it is, or with
\* bytes unread on its own side, so that the connection is reset.
Close ==
  /\ SenderOpen /\ spc' = "closed"
  /\ \/ UNCHANGED <<stream, reset>>
     \/ /\ reset' = TRUE
        /\ \E n \in 0 .. Len(stream) : stream' = SubSeq(stream, 1, n)
  /\ UNCHANGED <<msg, sent, tosend, handed, recvVars>>

-----------------------------------------------------------------------------
(***************************************************************************)
(* recv_helper.                                                            *)
(***************************************************************************)
\* Mutant: the size of the message is not reset between two messages.
RecvSize_appending ==
  /\ rpc = "size" /\ stream # <<>>
  /\ stream' = Tail(stream)
  /\ IF Head(stream) = 0
     THEN /\ returned' = Append(returned, buf)
          /\ UNCHANGED <<rpc, buf, torecv>>
     ELSE /\ torecv' = Head(stream) /\ rpc' = "data"
          /\ UNCHANGED <<buf, returned>>
  /\ UNCHANGED <<sendVars, reset>>

\* A size of 0 makes it return the message; R calls it again.
RecvSize ==
  /\ rpc = "size" /\ stream # <<>>
  /\ stream' = Tail(stream)
  /\ IF Head(stream) = 0
     THEN /\ returned' = Append(returned, buf) /\ buf' = <<>>
          /\ UNCHANGED <<rpc, torecv>>
     ELSE /\ torecv' = Head(stream) /\ rpc' = "data"
          /\ UNCHANGED <<buf, returned>>
  /\ UNCHANGED <<sendVars, reset>>

RecvData ==
  /\ rpc = "data"
  /\ \E ret \in 1 .. Least(torecv, Len(stream)) :
       /\ buf' = buf \o SubSeq(stream, 1, ret)
       /\ stream' = SubSeq(stream, ret + 1, Len(stream))
       /\ torecv' = torecv - ret
  /\ rpc' = IF torecv' > 0 THEN "data" ELSE "size"
  /\ UNCHANGED <<returned, sendVars, reset>>

\* recv returns 0: recv_helper returns NULL, R returns.
RecvNothing ==
  /\ rpc \in {"size", "data"}
  /\ stream = <<>> /\ ~SenderOpen /\ ~reset
  /\ rpc' = "ended" /\ buf' = <<>>
  /\ UNCHANGED <<torecv, returned, sendVars, stream, reset>>

\* recv fails: exit(1).
RecvFails ==
  /\ rpc \in {"size", "data"} /\ reset
  /\ rpc' = "failed" /\ stream' = <<>>
  /\ UNCHANGED <<buf, torecv, returned, sendVars, reset>>

recv_helper == RecvSize \/ RecvData \/ RecvNothing \/ RecvFails

\* The receiver's program closes its socket.
Leave ==
  /\ ~Left
  /\ rpc' = "left" /\ stream' = <<>>
  /\ UNCHANGED <<buf, torecv, returned, sendVars, reset>>

-----------------------------------------------------------------------------
Next == (\E m \in Msg : CallSend(m)) \/ send_helper \/ Close \/ recv_helper \/ Leave

Spec == Init /\ [][Next]_vars

\* Nobody has to call send_helper or to close; but the helpers go on.
FairSpec == Spec /\ WF_vars(send_helper) /\ WF_vars(recv_helper)

-----------------------------------------------------------------------------
TypeOK ==
  /\ spc \in {"idle", "size", "data", "end", "closed"}
  /\ msg \in Msg \union {<<>>} /\ sent \in 0 .. Len(msg) /\ tosend \in 0 .. CHUNK
  /\ stream \in Seq(Byte) /\ Len(stream) <= SockBuf
  /\ reset \in BOOLEAN
  /\ rpc \in {"size", "data", "ended", "failed", "left"}
  /\ buf \in Seq(Byte) /\ torecv \in Byte
  /\ handed \in Seq(Msg) /\ returned \in Seq(Seq(Byte))

(***************************************************************************)
(* What recv is asked for always fits into what is left of recv_helper's   *)
(* buffer, although recv_helper never compares the two: it relies on the   *)
(* sender to send no message longer than the buffer, and on every message  *)
(* being ended before the next one begins.                                 *)
(***************************************************************************)
BufferSuffices == rpc = "data" => Len(buf) + torecv <= MAX_MSG_SIZE

(***************************************************************************)
(* The two helpers carry whole messages: whatever pieces the kernel makes  *)
(* of them, recv_helper returns what send_helper was called with, in order *)
(* and each once; of a message that is cut off it returns nothing.         *)
(***************************************************************************)
\* recv_helper after byte x: b is what it has of a message, n what is to come of
\* the chunk, got what it has returned.
ReadByte(a, x) ==
  IF a.n > 0 THEN [b |-> Append(a.b, x), n |-> a.n - 1, got |-> a.got]
  ELSE IF x = 0 THEN [b |-> <<>>, n |-> 0, got |-> Append(a.got, a.b)]
  ELSE [b |-> a.b, n |-> x, got |-> a.got]

\* It after each byte of st, and after all of them.
Readings(a, st) ==
  LET r[i \in 0 .. Len(st)] == IF i = 0 THEN a ELSE ReadByte(r[i - 1], st[i])
  IN  r

Read(a, st) == Readings(a, st)[Len(st)]

\* Where it is.
Place == [b |-> buf, n |-> IF rpc = "data" THEN torecv ELSE 0, got |-> <<>>]
Receiving == rpc \in {"size", "data"}

Hand == IF Sending THEN <<msg>> ELSE <<>>
Wire == IF Receiving THEN Read(Place, stream).got ELSE <<>>

Whole == INSTANCE WholeMessages WITH
  hand <- Hand, wire <- Wire, sending <- SenderOpen, receiving <- Receiving

CarriesWholeMessages == Whole!Spec

(***************************************************************************)
(* A message that send_helper was called with is received in the end,      *)
(* unless one of the sides closes: the helpers never wait for each other   *)
(* with the stream empty, or full.                                         *)
(***************************************************************************)
AllReturned ==
  \A k \in 1 .. Calls :
    Len(handed) >= k ~> Len(returned) >= k \/ ~SenderOpen \/ Left
=============================================================================
