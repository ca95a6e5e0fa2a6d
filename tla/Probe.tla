------------------------------- MODULE Probe -------------------------------
(***************************************************************************)
(* The probing loop of pingnetinfo.c and the network it probes: an echo    *)
(* request with a time to live of ttl is answered by the ttl-th node of    *)
(* the route, or by the destination if it gets there.  Answers may be      *)
(* lost, late and out of order, and the raw socket also delivers ICMP      *)
(* messages that answer nothing.  The loop waits a second for each probe   *)
(* and takes whatever comes for its answer.                                *)
(***************************************************************************)
EXTENDS Integers, Sequences

CONSTANTS num_probes,  \* probes for each hop
          MaxHops,     \* the count of the outer loop, 30 in the code
          Dist,        \* at which hop the destination is
          MaxForeign,  \* bound: messages that answer no probe
          UINT16,      \* the number of values of unsigned short
          Echo,        \* type and code of a probe, its first word
  He, Ll, O    \* the words of its text, "Hello": the others are 0

ASSUME ProbeAssumption ==
  /\ num_probes \in Nat /\ MaxHops \in Nat \ {0} /\ Dist \in Nat \ {0}
  /\ MaxForeign \in Nat /\ UINT16 \in Nat /\ UINT16 >= 6
  /\ {Echo, He, Ll, O} \subseteq 0 .. UINT16 - 1

VARIABLES
  pc,       \* where main is
  ttl, i,   \* the variables of the two loops
  flag,     \* has a message come from the destination?
  pid,      \* the process number, as far as it goes into a packet
  packet,   \* the words of the packet sent last
  flight,   \* probes that are on their way, or their answers
  inbox,    \* messages at the socket
  foreign,  \* how many of the messages that answer nothing have come
  timedOut, \* history: has recvfrom ever timed out?
  wrong     \* history: was a message measured for a probe it does not answer?

netVars == <<flight, inbox, foreign>>
vars == <<pc, ttl, i, flag, pid, packet, netVars, timedOut, wrong>>

Init ==
  /\ pc = "start" /\ ttl = 1 /\ i = 0 /\ flag = FALSE
  /\ pid \in 0 .. UINT16 - 1 /\ packet = <<>>
  /\ flight = {} /\ inbox = <<>> /\ foreign = 0
  /\ timedOut = FALSE /\ wrong = FALSE

Probes == [ttl : 1 .. MaxHops, i : Nat]
Current == [ttl |-> ttl, i |-> i]

\* A message comes from a node of the route, 0 standing for any other one.
Answer(p) == [to |-> {p}, from |-> IF p.ttl < Dist THEN p.ttl ELSE Dist]
Unasked(node) == [to |-> {}, from |-> node]

-----------------------------------------------------------------------------
\* The sums of the first n words, and of all of them.
Sums(words) ==
  LET sum[n \in 0 .. Len(words)] == IF n = 0 THEN 0 ELSE sum[n - 1] + words[n]
  IN  sum
Sum(words) == Sums(words)[Len(words)]

\* Mutant: the carry of the carries is left out.
Folded_once(sum) == ((sum \div UINT16) + (sum % UINT16)) % UINT16

\* The words are summed in 32 bits, which hold the sum of a packet; the
\* carries are added twice, and the result is cut to 16 bits and inverted.
Folded(sum) ==
  LET once == (sum \div UINT16) + (sum % UINT16)
  IN  (once + (once \div UINT16)) % UINT16

checksum(words) == UINT16 - 1 - Folded(Sum(words))

\* The packet of a probe, without and with its checksum.
Words(cksum) == <<Echo, cksum, pid, i % UINT16, He, Ll, O>>

-----------------------------------------------------------------------------
(***************************************************************************)
(* main.                                                                   *)
(***************************************************************************)
\* The arguments, the raw socket and the address of the destination.
Start ==
  /\ pc = "start" /\ pc' = "hop"
  /\ UNCHANGED <<ttl, i, flag, pid, packet, netVars, timedOut, wrong>>

\* A turn of the inner loop begins, or it is over: the outer loop stops at
\* the destination, or when it has counted down.
NextProbe ==
  /\ pc = "hop" /\ i < num_probes /\ pc' = "send"
  /\ UNCHANGED <<ttl, i, flag, pid, packet, netVars, timedOut, wrong>>

\* Mutant: the count is not looked at.
NextHop_uncounted ==
  /\ pc = "hop" /\ i >= num_probes /\ ~flag
  /\ ttl' = ttl + 1 /\ i' = 0
  /\ UNCHANGED <<pc, flag, pid, packet, netVars, timedOut, wrong>>

\* Mutant: the flag is not looked at.
NextHop_past ==
  /\ pc = "hop" /\ i >= num_probes /\ ttl < MaxHops
  /\ ttl' = ttl + 1 /\ i' = 0
  /\ UNCHANGED <<pc, flag, pid, packet, netVars, timedOut, wrong>>

NextHop ==
  /\ pc = "hop" /\ i >= num_probes /\ ~flag /\ ttl < MaxHops
  /\ ttl' = ttl + 1 /\ i' = 0
  /\ UNCHANGED <<pc, flag, pid, packet, netVars, timedOut, wrong>>

\* What is under way reaches nobody any more.
Exit(how) ==
  /\ pc' = how /\ flight' = {} /\ inbox' = <<>>
  /\ UNCHANGED <<ttl, i, flag, pid, packet, foreign, timedOut, wrong>>

Finish ==
  /\ pc = "hop" /\ i >= num_probes /\ (flag \/ ttl = MaxHops) /\ Exit("done")

Send ==
  /\ pc = "send" /\ pc' = "recv"
  /\ packet' = Words(checksum(Words(0)))
  /\ flight' = flight \union {Current}
  /\ UNCHANGED <<ttl, i, flag, pid, inbox, foreign, timedOut, wrong>>

\* Mutant: the message stays at the socket.
Receive_peek ==
  /\ pc = "recv" /\ inbox # <<>> /\ pc' = "hop"
  /\ i' = i + 1
  /\ flag' = (flag \/ Head(inbox).from = Dist)
  /\ wrong' = (wrong \/ Current \notin Head(inbox).to)
  /\ UNCHANGED <<ttl, pid, packet, netVars, timedOut>>

\* The message is taken for the answer, whoever sent it and whatever for; the
\* pause before the next probe follows.
Receive ==
  /\ pc = "recv" /\ inbox # <<>> /\ pc' = "hop"
  /\ inbox' = Tail(inbox) /\ i' = i + 1
  /\ flag' = (flag \/ Head(inbox).from = Dist)
  /\ wrong' = (wrong \/ Current \notin Head(inbox).to)
  /\ UNCHANGED <<ttl, pid, packet, flight, foreign, timedOut>>

\* Mutant: the probe that has timed out is sent again.
Timeout_again ==
  /\ pc = "recv" /\ inbox = <<>> /\ pc' = "hop"
  /\ timedOut' = TRUE
  /\ UNCHANGED <<ttl, i, flag, pid, packet, netVars, wrong>>

\* Nothing has come for a second: the probe is given up.
Timeout ==
  /\ pc = "recv" /\ inbox = <<>> /\ pc' = "hop"
  /\ i' = i + 1 /\ timedOut' = TRUE
  /\ UNCHANGED <<ttl, flag, pid, packet, netVars, wrong>>

\* An argument is missing, or socket, gethostbyname, sendto or recvfrom fails:
\* the program exits.
Fail ==
  /\ pc \in {"start", "send", "recv"} /\ Exit("failed")

main == Start \/ NextProbe \/ NextHop \/ Finish \/ Send \/ Receive \/ Timeout \/ Fail

-----------------------------------------------------------------------------
(***************************************************************************)
(* The network, as long as the program listens.                            *)
(***************************************************************************)
Network(to, in, f) ==
  /\ pc \notin {"start", "done", "failed"}
  /\ flight' = to /\ inbox' = in /\ foreign' = f
  /\ UNCHANGED <<pc, ttl, i, flag, pid, packet, timedOut, wrong>>

Arrives(p) == Network(flight \ {p}, Append(inbox, Answer(p)), foreign)

GetsLost(p) == Network(flight \ {p}, inbox, foreign)

Intrudes(node) ==
  foreign < MaxForeign /\ Network(flight, Append(inbox, Unasked(node)), foreign + 1)

network ==
  \/ \E p \in flight : Arrives(p) \/ GetsLost(p)
  \/ \E node \in {0, Dist} : Intrudes(node)

Next == main \/ network

Spec == Init /\ [][Next]_vars

FairSpec == Spec /\ WF_vars(main)

-----------------------------------------------------------------------------
TypeOK ==
  /\ pc \in {"start", "hop", "send", "recv", "done", "failed"}
  /\ ttl \in 1 .. MaxHops /\ i \in 0 .. num_probes
  /\ flag \in BOOLEAN /\ wrong \in BOOLEAN
  /\ pid \in 0 .. UINT16 - 1
  /\ packet \in Seq(0 .. UINT16 - 1)
  /\ flight \subseteq Probes
  /\ inbox \in Seq([to : SUBSET Probes, from : 0 .. Dist])
  /\ foreign \in 0 .. MaxForeign /\ timedOut \in BOOLEAN

(***************************************************************************)
(* A message is measured for the probe it answers as long as no probe has  *)
(* timed out and nothing else has reached the socket: the loop never has   *)
(* two probes under way.  A late answer shifts those that follow.          *)
(***************************************************************************)
MatchedUntilTimeout == wrong => timedOut \/ foreign > 0

(***************************************************************************)
(* The loop does not stop before the destination's hop, however late the   *)
(* answers come, and without loss and strangers it stops there.            *)
(***************************************************************************)
StopsAtDestination ==
  /\ flag /\ foreign = 0 => ttl >= Dist
  /\ pc = "done" /\ ~timedOut /\ foreign = 0 /\ num_probes > 0
       => ttl = IF Dist < MaxHops THEN Dist ELSE MaxHops

(***************************************************************************)
(* A packet with its checksum sums up to all ones, carries included: the   *)
(* checksum of the whole is 0, which is what a receiver tests.             *)
(***************************************************************************)
PacketVerifies == packet # <<>> => checksum(packet) = 0

(***************************************************************************)
(* Every probe is answered or given up, and the program ends.              *)
(***************************************************************************)
Ends == <>(pc \in {"done", "failed"})
=============================================================================
