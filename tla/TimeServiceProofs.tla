------------------------- MODULE TimeServiceProofs -------------------------
(***************************************************************************)
(* For any number of clients and any length of the listening queue:        *)
(* time_server.c and its clients agree on where their conversations are,   *)
(* whoever is killed or crashes, and whatever the channels lose when they  *)
(* close and the threads when they run too early.                          *)
(***************************************************************************)
EXTENDS TimeService, SequenceTheorems, TLAPS

USE ServiceAssumption

-----------------------------------------------------------------------------
(***************************************************************************)
(* The inductive invariant.                                                *)
(***************************************************************************)
\* In each direction what was received (d) and what is under way (c) are a
\* beginning of what was sent (s), and all of it while the channel is open.
Flows(d, c, s) ==
  /\ Len(d) + Len(c) <= Len(s)
  /\ \A i \in 1 .. Len(d) : d[i] = s[i]
  /\ \A i \in 1 .. Len(c) : c[i] = s[Len(d) + i]

Full(d, c, s) == Len(d) + Len(c) = Len(s)

\* The end that has sent a message which its peer has lost.
Torn(p) == \E c \in lost : p = At("server", c)

FlowInv ==
  \A p \in End : /\ Flows(delivered[p], chan[p], sent[p])
                 /\ open[p] /\ ~Torn(p) => Full(delivered[p], chan[p], sent[p])

\* A client that has lost the time has nothing, and nothing is under way to it.
LostInv ==
  \A c \in lost :
    LET s == At("server", c)
    IN  /\ sent[s] = <<"time">> /\ delivered[s] = <<>> /\ chan[s] = <<>>
        /\ cpc[c] \in {"setup", "time", "killed", "failed"}

\* A client that waits to be accepted.
Waits == {"setup", "time", "killed"}

\* A client is in the queue at most once, and is not yet served then.
QueueInv ==
  /\ \A i, j \in 1 .. Len(queue) : queue[i] = queue[j] => i = j
  /\ \A i \in 1 .. Len(queue) : cpc[queue[i]] # "starting"
  /\ spc # "exited" => \A i \in 1 .. Len(queue) : cpc[queue[i]] \in Waits
  /\ spc \in Turn => cpc[conn] # "starting" /\ \A i \in 1 .. Len(queue) : queue[i] # conn

\* The client has not been accepted.
Fresh(c) == cpc[c] = "starting" \/ \E i \in 1 .. Len(queue) : queue[i] = c

\* What the server has said to a client, and heard from it.
ServerTalk(c) ==
  LET s == At("server", c)
      k == At("client", c)
  IN  /\ sent[s] \in {<<>>, <<"time">>, <<"time", "story">>}
      /\ Fresh(c) => sent[s] = <<>> /\ delivered[k] = <<>>
      /\ Len(sent[s]) = 2 => delivered[k] = <<"confirm">>

\* The client whose turn it is.
TurnInv ==
  LET s == At("server", conn)
      k == At("client", conn)
  IN  /\ spc \in {"setup", "time"} => sent[s] = <<>> /\ delivered[k] = <<>>
      /\ spc = "confirm" => sent[s] = <<"time">> /\ delivered[k] = <<>>
      /\ spc = "story" => sent[s] = <<"time">> /\ delivered[k] = <<"confirm">>

\* What a client has said, and heard.
ClientTalk(c) ==
  LET s == At("server", c)
      k == At("client", c)
  IN  /\ sent[k] \in {<<>>, <<"confirm">>}
      /\ sent[k] # <<>> => delivered[s] # <<>> /\ delivered[s][1] = "time"
      /\ cpc[c] \in {"starting", "setup", "time"} => sent[k] = <<>> /\ delivered[s] = <<>>
      /\ cpc[c] = "confirm" => sent[k] = <<>> /\ delivered[s] = <<"time">>
      /\ cpc[c] = "story" => delivered[s] = <<"time">>
      /\ cpc[c] \in {"close", "done"} => delivered[s] = <<"time", "story">>

TalkInv == \A c \in Client : ServerTalk(c) /\ ClientTalk(c)

IInv ==
  /\ TypeOK /\ FlowInv /\ LostInv /\ QueueInv /\ TurnInv /\ TalkInv
  /\ Abreast /\ OneAtATime

-----------------------------------------------------------------------------
(***************************************************************************)
(* The ends of the connections, and the steps of their channels.           *)
(***************************************************************************)
LEMMA Ends ==
  /\ \A c \in Client : /\ At("server", c) \in End /\ At("client", c) \in End
                       /\ Peer[At("server", c)] = At("client", c)
                       /\ Peer[At("client", c)] = At("server", c)
  /\ \A c, d \in Client : /\ At("server", c) # At("client", d)
                          /\ At("server", c) = At("server", d) => c = d
                          /\ At("client", c) = At("client", d) => c = d
  /\ \A p \in End : Peer[p] \in End /\ Peer[p] # p
<1>1. \A c \in Client : At("server", c) \in End /\ At("client", c) \in End
  BY DEF At, End
<1>2. \A c \in Client : /\ At("server", c)[1] = "server" /\ At("server", c)[2] = c
                       /\ At("client", c)[1] = "client" /\ At("client", c)[2] = c
  BY DEF At
<1>3. \A p \in End : p[2] \in Client /\ p = At(p[1], p[2]) /\ p[1] \in {"server", "client"}
  BY DEF At, End
<1>4. \A p \in End : Peer[p] = At(IF p[1] = "server" THEN "client" ELSE "server", p[2])
  BY DEF Peer
<1> QED
  BY <1>1, <1>2, <1>3, <1>4

\* The parts of the type invariant.
ServerPc == {"starting", "accept", "exited"} \union Turn
ClientPc == {"starting", "done", "failed", "killed"} \union Turn

PcTypes ==
  /\ spc \in ServerPc /\ conn \in Client
  /\ queue \in Seq(Client) /\ Len(queue) <= Backlog
  /\ cpc \in [Client -> ClientPc] /\ lost \subseteq Client

ChanTypes ==
  /\ sent \in [End -> Seq(Msg)] /\ delivered \in [End -> Seq(Msg)]
  /\ chan \in [End -> Seq(Msg)] /\ open \in [End -> BOOLEAN]

LEMMA AppendFacts ==
  ASSUME NEW s \in Seq(Msg), NEW m \in Msg
  PROVE  \E t \in Seq(Msg) : /\ t = Append(s, m) /\ Len(t) = Len(s) + 1 /\ t[Len(s) + 1] = m
                             /\ \A i \in 1 .. Len(s) : t[i] = s[i]
<1>1. Append(s, m) \in Seq(Msg)
  OBVIOUS
<1>2. Len(Append(s, m)) = Len(s) + 1 /\ Append(s, m)[Len(s) + 1] = m
  OBVIOUS
<1>3. \A i \in 1 .. Len(s) : Append(s, m)[i] = s[i]
  OBVIOUS
<1> QED
  BY <1>1, <1>2, <1>3

LEMMA SendFlows ==
  ASSUME NEW d \in Seq(Msg), NEW c \in Seq(Msg), NEW s \in Seq(Msg), NEW m \in Msg,
         Flows(d, c, s)
  PROVE  /\ Flows(d, c, Append(s, m))
         /\ Full(d, c, s) =>
              Flows(d, Append(c, m), Append(s, m)) /\ Full(d, Append(c, m), Append(s, m))
<1>1. PICK ld \in Nat, lc \in Nat, ls \in Nat : ld = Len(d) /\ lc = Len(c) /\ ls = Len(s)
  OBVIOUS
<1>2. /\ ld + lc <= ls
      /\ \A i \in 1 .. ld : d[i] = s[i]
      /\ \A i \in 1 .. lc : c[i] = s[ld + i]
  BY <1>1 DEF Flows
<1>3. PICK sm \in Seq(Msg) : /\ sm = Append(s, m) /\ Len(sm) = ls + 1 /\ sm[ls + 1] = m
                             /\ \A i \in 1 .. ls : sm[i] = s[i]
  BY <1>1, AppendFacts
<1>4. PICK cm \in Seq(Msg) : /\ cm = Append(c, m) /\ Len(cm) = lc + 1 /\ cm[lc + 1] = m
                             /\ \A i \in 1 .. lc : cm[i] = c[i]
  BY <1>1, AppendFacts
<1>5. /\ \A i \in 1 .. ld : d[i] = sm[i]
      /\ \A i \in 1 .. lc : c[i] = sm[ld + i]
  BY <1>2, <1>3
<1>6. Flows(d, c, sm)
  BY <1>1, <1>2, <1>3, <1>5 DEF Flows
<1>7. ASSUME Full(d, c, s) PROVE Flows(d, cm, sm) /\ Full(d, cm, sm)
  <2>1. ld + (lc + 1) = ls + 1
    BY <1>1, <1>7 DEF Full
  <2>2. \A i \in 1 .. lc + 1 : cm[i] = sm[ld + i]
    <3> TAKE i \in 1 .. lc + 1
    <3>1. CASE i \in 1 .. lc
      BY <1>4, <1>5, <3>1
    <3>2. CASE i = lc + 1
      BY <1>3, <1>4, <2>1, <3>2
    <3> QED
      BY <3>1, <3>2
  <2>3. ld + (lc + 1) <= ls + 1
    BY <2>1
  <2>4. Flows(d, cm, sm)
    BY <1>1, <1>3, <1>4, <1>5, <2>2, <2>3, Zenon DEF Flows
  <2>5. Full(d, cm, sm)
    BY <1>1, <1>3, <1>4, <2>1 DEF Full
  <2> QED
    BY <2>4, <2>5
<1> QED
  BY <1>3, <1>4, <1>6, <1>7

LEMMA ReceiveFlows ==
  ASSUME NEW d \in Seq(Msg), NEW c \in Seq(Msg), NEW s \in Seq(Msg),
         Flows(d, c, s), c # <<>>
  PROVE  /\ Flows(Append(d, Head(c)), Tail(c), s)
         /\ Full(d, c, s) => Full(Append(d, Head(c)), Tail(c), s)
         /\ Len(d) < Len(s) /\ Head(c) = s[Len(d) + 1] /\ Head(c) \in Msg
<1>1. PICK ld \in Nat, lc \in Nat, ls \in Nat : ld = Len(d) /\ lc = Len(c) /\ ls = Len(s)
  OBVIOUS
<1>2. lc # 0
  BY <1>1
<1>3. /\ ld + lc <= ls
      /\ \A i \in 1 .. ld : d[i] = s[i]
      /\ \A i \in 1 .. lc : c[i] = s[ld + i]
  BY <1>1 DEF Flows
<1>4. PICK h \in Msg : h = Head(c) /\ h = c[1]
  BY <1>1, <1>2
<1>5. PICK dh \in Seq(Msg) : /\ dh = Append(d, h) /\ Len(dh) = ld + 1 /\ dh[ld + 1] = h
                             /\ \A i \in 1 .. ld : dh[i] = d[i]
  BY <1>1, AppendFacts
<1>6. PICK t \in Seq(Msg) : /\ t = Tail(c) /\ Len(t) = lc - 1
                            /\ \A i \in 1 .. lc - 1 : t[i] = c[i + 1]
  <2>1. /\ Tail(c) \in Seq(Msg) /\ Len(Tail(c)) = lc - 1
        /\ \A i \in 1 .. Len(Tail(c)) : Tail(c)[i] = c[i + 1]
    BY <1>1, HeadTailProperties
  <2> QED
    BY <2>1
<1>7. ld < ls /\ h = s[ld + 1]
  BY <1>2, <1>3, <1>4
<1>8. \A i \in 1 .. ld + 1 : dh[i] = s[i]
  BY <1>3, <1>5, <1>7
<1>9. \A i \in 1 .. lc - 1 : t[i] = s[(ld + 1) + i]
  <2> TAKE i \in 1 .. lc - 1
  <2>1. i + 1 \in 1 .. lc /\ ld + (i + 1) = (ld + 1) + i
    OBVIOUS
  <2> QED
    BY <1>3, <1>6, <2>1
<1>10. Flows(dh, t, s) /\ (Full(d, c, s) => Full(dh, t, s))
  BY <1>1, <1>2, <1>3, <1>5, <1>6, <1>8, <1>9 DEF Flows, Full
<1> QED
  BY <1>1, <1>4, <1>5, <1>6, <1>7, <1>10

LEMMA CloseFlows ==
  ASSUME NEW d \in Seq(Msg), NEW c \in Seq(Msg), NEW s \in Seq(Msg),
         Flows(d, c, s), NEW n \in 0 .. Len(c)
  PROVE  Flows(d, SubSeq(c, 1, n), s) /\ Flows(d, <<>>, s)
<1>1. PICK ld \in Nat, lc \in Nat, ls \in Nat : ld = Len(d) /\ lc = Len(c) /\ ls = Len(s)
  OBVIOUS
<1>2. /\ ld + lc <= ls
      /\ \A i \in 1 .. ld : d[i] = s[i]
      /\ \A i \in 1 .. lc : c[i] = s[ld + i]
  BY <1>1 DEF Flows
<1>3. Len(SubSeq(c, 1, n)) = n /\ \A i \in 1 .. n : SubSeq(c, 1, n)[i] = c[i]
  <2>1. n \in Nat /\ Len(c) \in Nat /\ n <= Len(c)
    BY <1>1
  <2>2. \A i \in 1 .. n : c[i] \in Msg
    BY <2>1, ElementOfSeq
  <2> QED
    BY <2>1, <2>2, SubSeqProperties
<1>4. PICK t : t = SubSeq(c, 1, n) /\ Len(t) = n /\ \A i \in 1 .. n : t[i] = c[i]
  BY <1>3
<1>5. n \in 0 .. lc
  BY <1>1
<1>6. Flows(d, t, s)
  BY <1>1, <1>2, <1>4, <1>5 DEF Flows
<1>7. Flows(d, <<>>, s)
  BY <1>1, <1>2 DEF Flows
<1> QED
  BY <1>4, <1>6, <1>7

LEMMA SendFacts ==
  ASSUME ChanTypes, FlowInv, NEW p \in End, NEW m \in Msg, Channel!Send(p, m),
         lost' = lost, ~Torn(p)
  PROVE  /\ ChanTypes' /\ FlowInv' /\ delivered' = delivered /\ open' = open
         /\ \A q \in End : q # p => chan'[q] = chan[q]
         /\ sent'[p] = Append(sent[p], m) /\ \A q \in End : q # p => sent'[q] = sent[q]
<1>1. /\ delivered' = delivered /\ open' = open
      /\ sent' = [sent EXCEPT ![p] = Append(@, m)]
      /\ chan' = IF open[p] THEN [chan EXCEPT ![p] = Append(@, m)] ELSE chan
  BY DEF Channel!Send
<1>2. /\ sent'[p] = Append(sent[p], m) /\ \A q \in End : q # p => sent'[q] = sent[q]
      /\ chan'[p] = IF open[p] THEN Append(chan[p], m) ELSE chan[p]
      /\ \A q \in End : q # p => chan'[q] = chan[q]
  BY <1>1 DEF ChanTypes
<1>3. /\ sent[p] \in Seq(Msg) /\ chan[p] \in Seq(Msg) /\ delivered[p] \in Seq(Msg)
      /\ open[p] \in BOOLEAN /\ Append(sent[p], m) \in Seq(Msg) /\ Append(chan[p], m) \in Seq(Msg)
  BY DEF ChanTypes
<1>4. ChanTypes'
  BY <1>1, <1>3 DEF ChanTypes
<1>5. /\ Flows(delivered'[p], chan'[p], sent'[p])
      /\ open'[p] => Full(delivered'[p], chan'[p], sent'[p])
  BY <1>1, <1>2, <1>3, SendFlows DEF FlowInv
<1>6. FlowInv'
  <2>1. \A q \in End : Torn(q)' <=> Torn(q)
    BY DEF Torn
  <2> QED
    BY <1>1, <1>2, <1>5, <2>1 DEF FlowInv
<1> QED
  BY <1>1, <1>2, <1>4, <1>6

LEMMA ReceiveFacts ==
  ASSUME ChanTypes, FlowInv, NEW p \in End, Channel!Receive(p), lost' = lost
  PROVE  /\ ChanTypes' /\ FlowInv' /\ sent' = sent /\ open' = open /\ chan[p] # <<>>
         /\ \A q \in End : q # p => chan'[q] = chan[q]
         /\ Len(delivered[p]) < Len(sent[p])
         /\ delivered'[p] = Append(delivered[p], sent[p][Len(delivered[p]) + 1])
         /\ \A q \in End : q # p => delivered'[q] = delivered[q]
<1>1. /\ sent' = sent /\ open' = open /\ chan[p] # <<>>
      /\ delivered' = [delivered EXCEPT ![p] = Append(@, Head(chan[p]))]
      /\ chan' = [chan EXCEPT ![p] = Tail(@)]
  BY DEF Channel!Receive
<1>2. /\ delivered'[p] = Append(delivered[p], Head(chan[p])) /\ chan'[p] = Tail(chan[p])
      /\ \A q \in End : q # p => delivered'[q] = delivered[q] /\ chan'[q] = chan[q]
  BY <1>1 DEF ChanTypes
<1>3. /\ sent[p] \in Seq(Msg) /\ chan[p] \in Seq(Msg) /\ delivered[p] \in Seq(Msg)
      /\ open[p] \in BOOLEAN
  BY DEF ChanTypes
<1>4. /\ Flows(delivered'[p], chan'[p], sent'[p])
      /\ open'[p] /\ ~Torn(p) => Full(delivered'[p], chan'[p], sent'[p])
      /\ Len(delivered[p]) < Len(sent[p]) /\ Head(chan[p]) = sent[p][Len(delivered[p]) + 1]
      /\ Head(chan[p]) \in Msg
  BY <1>1, <1>2, <1>3, ReceiveFlows DEF FlowInv
<1>5. Append(delivered[p], Head(chan[p])) \in Seq(Msg) /\ Tail(chan[p]) \in Seq(Msg)
  BY <1>1, <1>3, <1>4
<1>6. ChanTypes'
  BY <1>1, <1>5 DEF ChanTypes
<1>7. FlowInv'
  <2>1. \A q \in End : Torn(q)' <=> Torn(q)
    BY DEF Torn
  <2> QED
    BY <1>1, <1>2, <1>4, <2>1 DEF FlowInv
<1> QED
  BY <1>1, <1>2, <1>4, <1>6, <1>7

LEMMA CloseFacts ==
  ASSUME ChanTypes, FlowInv, NEW p \in End, Channel!Close(p), lost' = lost
  PROVE  /\ ChanTypes' /\ FlowInv' /\ sent' = sent /\ delivered' = delivered
         /\ ~open'[p] /\ \A q \in End : open'[q] => open[q]
         /\ \A q \in End : chan[q] = <<>> => chan'[q] = <<>>
<1>1. /\ sent' = sent /\ delivered' = delivered /\ Peer[p] \in End /\ Peer[p] # p
      /\ open' = [open EXCEPT ![p] = FALSE, ![Peer[p]] = FALSE]
  BY Ends DEF Channel!Close
<1>2. PICK n \in 0 .. Len(chan[p]) :
        chan' = [chan EXCEPT ![p] = SubSeq(chan[p], 1, n), ![Peer[p]] = <<>>]
  BY DEF Channel!Close, Channel!Prefixes
<1>3. /\ chan'[p] = SubSeq(chan[p], 1, n) /\ chan'[Peer[p]] = <<>>
      /\ \A q \in End : q # p /\ q # Peer[p] => chan'[q] = chan[q] /\ open'[q] = open[q]
      /\ open'[p] = FALSE /\ open'[Peer[p]] = FALSE
  BY <1>1, <1>2 DEF ChanTypes
<1>4. \A q \in End : /\ sent[q] \in Seq(Msg) /\ chan[q] \in Seq(Msg)
                     /\ delivered[q] \in Seq(Msg) /\ open[q] \in BOOLEAN
  BY DEF ChanTypes
<1>5. SubSeq(chan[p], 1, n) \in Seq(Msg) /\ <<>> \in Seq(Msg)
  <2>1. chan[p] \in Seq(Msg) /\ Len(chan[p]) \in Nat
    BY <1>4
  <2>2. \A i \in 1 .. n : chan[p][i] \in Msg
    BY <2>1, ElementOfSeq
  <2> QED
    BY <2>1, <2>2, SubSeqProperties
<1>6. ChanTypes'
  BY <1>1, <1>2, <1>5 DEF ChanTypes
<1>7. FlowInv'
  <2>1. Flows(delivered[p], SubSeq(chan[p], 1, n), sent[p])
    BY <1>4, CloseFlows DEF FlowInv
  <2>2. Flows(delivered[Peer[p]], <<>>, sent[Peer[p]])
    <3>1. Len(chan[Peer[p]]) \in Nat
      BY <1>1, <1>4
    <3>2. 0 \in 0 .. Len(chan[Peer[p]])
      BY <3>1
    <3> QED
      BY <1>1, <1>4, <3>2, CloseFlows DEF FlowInv
  <2>3. ASSUME NEW q \in End
        PROVE  /\ Flows(delivered[q], chan'[q], sent[q])
               /\ open'[q] /\ ~Torn(q) => Full(delivered[q], chan'[q], sent[q])
    <3>1. CASE q = p
      BY <1>3, <2>1, <3>1
    <3>2. CASE q = Peer[p]
      BY <1>3, <2>2, <3>2
    <3>3. CASE q # p /\ q # Peer[p]
      BY <1>3, <3>3 DEF FlowInv
    <3> QED
      BY <3>1, <3>2, <3>3
  <2>4. sent' = sent /\ delivered' = delivered
    BY <1>1
  <2>5. \A q \in End : Torn(q)' <=> Torn(q)
    BY DEF Torn
  <2> QED
    BY <2>3, <2>4, <2>5 DEF FlowInv
<1>8. /\ ~open'[p] /\ \A q \in End : open'[q] => open[q]
      /\ \A q \in End : chan[q] = <<>> => chan'[q] = <<>>
  <2>1. chan[p] = <<>> => SubSeq(chan[p], 1, n) = <<>>
    <3> SUFFICES ASSUME chan[p] = <<>> PROVE SubSeq(chan[p], 1, n) = <<>>
      OBVIOUS
    <3>1. n = 0 /\ Len(SubSeq(chan[p], 1, n)) = 0
      <4>1. n = 0
        OBVIOUS
      <4> QED
        BY <4>1, <1>4
    <3> QED
      BY <1>5, <3>1, EmptySeq
  <2> QED
    BY <1>3, <2>1
<1> QED
  BY <1>1, <1>6, <1>7, <1>8

LEMMA Types == TypeOK <=> PcTypes /\ ChanTypes
  BY DEF TypeOK, PcTypes, ChanTypes, ServerPc, ClientPc

LEMMA TypesNext == PcTypes' /\ ChanTypes' => TypeOK'
  BY DEF TypeOK, PcTypes, ChanTypes, ServerPc, ClientPc

\* The messages of a conversation, one after the other.
LEMMA Words ==
  /\ Append(<<>>, "time") = <<"time">> /\ Append(<<"time">>, "story") = <<"time", "story">>
  /\ Append(<<>>, "confirm") = <<"confirm">>
  /\ Len(<<>>) = 0 /\ Len(<<"time">>) = 1 /\ Len(<<"time", "story">>) = 2
  /\ Len(<<"confirm">>) = 1
  /\ <<"time">>[1] = "time" /\ <<"time", "story">>[1] = "time"
  /\ <<"time", "story">>[2] = "story" /\ <<"confirm">>[1] = "confirm"
  /\ <<"time">> # <<>> /\ <<"time", "story">> # <<>> /\ <<"confirm">> # <<>>
<1>1. /\ Append(<<>>, "time") = <<"time">> /\ Append(<<"time">>, "story") = <<"time", "story">>
      /\ Append(<<>>, "confirm") = <<"confirm">>
  <2>1. ASSUME NEW m \in Msg PROVE Append(<<>>, m) = <<m>>
    OBVIOUS
  <2>2. ASSUME NEW m \in Msg, NEW n \in Msg PROVE Append(<<m>>, n) = <<m, n>>
    <3>1. /\ <<m>> \in Seq(Msg) /\ <<m, n>> \in Seq(Msg) /\ Append(<<m>>, n) \in Seq(Msg)
          /\ Len(<<m>>) = 1 /\ Len(<<m, n>>) = 2 /\ Len(Append(<<m>>, n)) = 2
      OBVIOUS
    <3>2. Append(<<m>>, n)[1] = <<m>>[1] /\ Append(<<m>>, n)[2] = n
      BY <3>1, AppendProperties
    <3>3. \A i \in 1 .. 2 : Append(<<m>>, n)[i] = <<m, n>>[i]
      BY <3>2
    <3> QED
      BY <3>1, <3>3, SeqEqual
  <2> QED
    BY <2>1, <2>2 DEF Msg
<1>2. /\ Len(<<>>) = 0 /\ Len(<<"time">>) = 1 /\ Len(<<"time", "story">>) = 2
      /\ Len(<<"confirm">>) = 1
  OBVIOUS
<1>3. /\ <<"time">>[1] = "time" /\ <<"time", "story">>[1] = "time"
      /\ <<"time", "story">>[2] = "story" /\ <<"confirm">>[1] = "confirm"
  OBVIOUS
<1> QED
  BY <1>1, <1>2, <1>3

-----------------------------------------------------------------------------
(***************************************************************************)
(* What a step of one side leaves as it was.                               *)
(***************************************************************************)
LEMMA ServerTalkKept ==
  ASSUME NEW c \in Client, ServerTalk(c), Fresh(c)' => Fresh(c),
         sent'[At("server", c)] = sent[At("server", c)],
         delivered'[At("client", c)] = delivered[At("client", c)]
  PROVE  ServerTalk(c)'
  BY DEF ServerTalk

\* The moves of a client that has nothing new to say, and nothing new heard.
QuietMove(c) ==
  \/ cpc'[c] = cpc[c] \/ cpc'[c] \in {"failed", "killed"}
  \/ cpc[c] = "starting" /\ cpc'[c] = "setup"
  \/ cpc[c] = "setup" /\ cpc'[c] = "time"
  \/ cpc[c] = "close" /\ cpc'[c] = "done"

LEMMA ClientTalkKept ==
  ASSUME NEW c \in Client, ClientTalk(c), QuietMove(c),
         sent'[At("client", c)] = sent[At("client", c)],
         delivered'[At("server", c)] = delivered[At("server", c)]
  PROVE  ClientTalk(c)'
  BY DEF ClientTalk, QuietMove

LEMMA QueueKept ==
  ASSUME PcTypes, QueueInv, queue' = queue, conn' = conn,
         spc' \in Turn => spc \in Turn, spc' # "exited" => spc # "exited",
         \A c \in Client : cpc[c] # "starting" => cpc'[c] # "starting",
         spc' # "exited" =>
           \A i \in 1 .. Len(queue) : cpc[queue[i]] \in Waits => cpc'[queue[i]] \in Waits
  PROVE  QueueInv' /\ \A c \in Client : Fresh(c)' => Fresh(c)
<1>1. conn \in Client /\ \A i \in 1 .. Len(queue) : queue[i] \in Client
  BY DEF PcTypes
<1>2. QueueInv'
  BY <1>1 DEF QueueInv
<1>3. \A c \in Client : Fresh(c)' => Fresh(c)
  BY DEF Fresh
<1> QED
  BY <1>2, <1>3

\* Who has lost the time keeps to it.
LEMMA LostKept ==
  ASSUME LostInv, lost' = lost,
         \A c \in lost :
           LET s == At("server", c)
           IN  /\ sent'[s] = sent[s] /\ delivered'[s] = delivered[s]
               /\ chan[s] = <<>> => chan'[s] = <<>>
               /\ cpc'[c] = cpc[c] \/ cpc'[c] \in {"time", "killed", "failed"}
  PROVE  LostInv'
  BY DEF LostInv

\* The server says or hears something, or ends the turn.
TurnMoves ==
  \/ spc' \in {"confirm", "story", "close"}
  \/ ~open'[At("server", conn)]
  \/ /\ spc \notin {"confirm", "story", "close"}
     /\ sent'[At("server", conn)] = sent[At("server", conn)]

LEMMA ServerFrame ==
  ASSUME IInv, queue' = queue, cpc' = cpc, conn' = conn, lost' = lost,
         spc' \in ServerPc, spc' \in Turn => spc \in Turn, spc # "exited",
         ChanTypes', FlowInv', Abreast', TurnMoves,
         \A q \in End : open'[q] => open[q],
         \A q \in End : q # At("server", conn) /\ chan[q] = <<>> => chan'[q] = <<>>,
         \/ conn \notin lost
         \/ /\ sent'[At("server", conn)] = sent[At("server", conn)]
            /\ chan[At("server", conn)] = <<>> => chan'[At("server", conn)] = <<>>,
         \A q \in End : q # At("server", conn) => sent'[q] = sent[q],
         \A q \in End : q # At("client", conn) => delivered'[q] = delivered[q],
         ServerTalk(conn)', TurnInv'
  PROVE  IInv'
<1>1. PcTypes /\ QueueInv /\ TalkInv
  BY Types DEF IInv
<1>2. PcTypes'
  BY <1>1 DEF PcTypes
<1>3. QueueInv' /\ \A c \in Client : Fresh(c)' => Fresh(c)
  BY <1>1, QueueKept
<1>7. LostInv'
  <2>1. ASSUME NEW c \in lost
        PROVE  LET s == At("server", c)
               IN  /\ sent'[s] = sent[s] /\ delivered'[s] = delivered[s]
                   /\ chan[s] = <<>> => chan'[s] = <<>>
    <3>1. c \in Client /\ conn \in Client
      BY <1>1 DEF PcTypes
    <3>2. /\ At("server", c) \in End /\ At("server", c) # At("client", conn)
          /\ c # conn => At("server", c) # At("server", conn)
      BY <3>1, Ends
    <3> QED
      BY <2>1, <3>2
  <2> QED
    BY <2>1, LostKept DEF IInv
<1>8. OneAtATime'
  <2>1. ASSUME NEW c \in Client, sent'[At("server", c)] # <<>>, open'[At("server", c)]
        PROVE  c = conn /\ spc' \in {"confirm", "story", "close"}
    <3>1. open[At("server", c)] /\ At("server", c) \in End
      BY <2>1, Ends
    <3>2. CASE c # conn
      <4>1. sent[At("server", c)] # <<>>
        BY <1>1, <2>1, <3>1, <3>2, Ends DEF PcTypes
      <4> QED
        BY <3>1, <3>2, <4>1 DEF IInv, OneAtATime
    <3>3. CASE c = conn
      <4>1. sent'[At("server", conn)] = sent[At("server", conn)]
              => spc \in {"confirm", "story", "close"}
        BY <2>1, <3>1, <3>3 DEF IInv, OneAtATime
      <4> QED
        BY <2>1, <3>3, <4>1 DEF TurnMoves
    <3> QED
      BY <3>2, <3>3
  <2> QED
    BY <2>1 DEF OneAtATime
<1>4. ASSUME NEW c \in Client PROVE ServerTalk(c)'
  <2>1. CASE c = conn
    BY <2>1
  <2>2. CASE c # conn
    <3>1. /\ sent'[At("server", c)] = sent[At("server", c)]
          /\ delivered'[At("client", c)] = delivered[At("client", c)]
      BY <1>1, <2>2, Ends DEF PcTypes
    <3> QED
      BY <1>1, <1>3, <3>1, ServerTalkKept DEF TalkInv
  <2> QED
    BY <2>1, <2>2
<1>5. ASSUME NEW c \in Client PROVE ClientTalk(c)'
  <2>1. /\ sent'[At("client", c)] = sent[At("client", c)]
        /\ delivered'[At("server", c)] = delivered[At("server", c)]
    BY <1>1, Ends DEF PcTypes
  <2>2. QuietMove(c) /\ ClientTalk(c)
    BY <1>1 DEF TalkInv, QuietMove
  <2> QED
    BY <2>1, <2>2, ClientTalkKept
<1>6. TypeOK' /\ TalkInv'
  BY <1>2, <1>4, <1>5, TypesNext DEF TalkInv
<1> QED
  BY <1>3, <1>6, <1>7, <1>8 DEF IInv

Queued(c) == \E i \in 1 .. Len(queue) : queue[i] = c

LEMMA ClientFrame ==
  ASSUME IInv, NEW c \in Client, spc' = spc, conn' = conn, queue' = queue, lost' = lost,
         NEW to \in ClientPc \ {"starting"}, cpc' = [cpc EXCEPT ![c] = to],
         ChanTypes', FlowInv', c = conn => Abreast', LostInv',
         Queued(c) /\ spc # "exited" => to \in Waits,
         \A q \in End : open'[q] => open[q],
         \A q \in End : q # At("client", c) => sent'[q] = sent[q],
         \A q \in End : q # At("server", c) => delivered'[q] = delivered[q],
         ClientTalk(c)'
  PROVE  IInv'
<1>1. PcTypes /\ QueueInv /\ TurnInv /\ TalkInv
  BY Types DEF IInv
<1>2. /\ PcTypes' /\ cpc'[c] = to
      /\ \A d \in Client : d # c => cpc'[d] = cpc[d]
  BY <1>1 DEF PcTypes
<1>3. QueueInv' /\ \A d \in Client : Fresh(d)' => Fresh(d)
  <2>1. spc # "exited" =>
          \A i \in 1 .. Len(queue) : cpc[queue[i]] \in Waits => cpc'[queue[i]] \in Waits
    <3> SUFFICES ASSUME spc # "exited", NEW i \in 1 .. Len(queue), cpc[queue[i]] \in Waits
                 PROVE  cpc'[queue[i]] \in Waits
      OBVIOUS
    <3>1. queue[i] \in Client
      BY <1>1 DEF PcTypes
    <3>2. CASE queue[i] = c
      BY <1>2, <3>2 DEF Queued
    <3>3. CASE queue[i] # c
      BY <1>2, <3>1, <3>3
    <3> QED
      BY <3>2, <3>3
  <2> QED
    BY <1>1, <1>2, <2>1, QueueKept
<1>4. ASSUME NEW d \in Client
      PROVE  /\ sent'[At("server", d)] = sent[At("server", d)]
             /\ delivered'[At("client", d)] = delivered[At("client", d)]
  BY Ends
<1>5. ASSUME NEW d \in Client PROVE ServerTalk(d)'
  BY <1>1, <1>3, <1>4, ServerTalkKept DEF TalkInv
<1>6. ASSUME NEW d \in Client PROVE ClientTalk(d)'
  <2>1. CASE d = c
    BY <2>1
  <2>2. CASE d # c
    <3>1. /\ sent'[At("client", d)] = sent[At("client", d)]
          /\ delivered'[At("server", d)] = delivered[At("server", d)]
      BY <2>2, Ends
    <3>2. QuietMove(d) /\ ClientTalk(d)
      BY <1>1, <1>2, <2>2 DEF TalkInv, QuietMove
    <3> QED
      BY <3>1, <3>2, ClientTalkKept
  <2> QED
    BY <2>1, <2>2
<1>7. TurnInv'
  BY <1>1, <1>4 DEF TurnInv, PcTypes
<1>8. TypeOK' /\ TalkInv'
  BY <1>2, <1>5, <1>6, TypesNext DEF TalkInv
<1>9. Abreast'
  <2>1. CASE c = conn
    BY <2>1
  <2>2. CASE c # conn
    <3>1. cpc'[conn] = cpc[conn]
      BY <1>1, <1>2, <2>2 DEF PcTypes
    <3> QED
      BY <3>1 DEF IInv, Abreast
  <2> QED
    BY <2>1, <2>2
<1>10. OneAtATime'
  BY <1>4, Ends DEF IInv, OneAtATime
<1> QED
  BY <1>3, <1>7, <1>8, <1>9, <1>10 DEF IInv

-----------------------------------------------------------------------------
(***************************************************************************)
(* The steps of the server.                                                *)
(***************************************************************************)
\* Listen, ServerFails and Accepted.
LEMMA QuietSteps ==
  ASSUME IInv, UNCHANGED <<queue, cpc, conn, lost, chanVars>>,
         \/ spc \in {"starting", "accept"} /\ spc' \in {"accept", "exited"}
         \/ spc = "setup" /\ spc' = "time"
  PROVE  IInv'
<1>1. /\ PcTypes /\ ChanTypes /\ FlowInv /\ TalkInv /\ QueueInv /\ conn \in Client
  BY Types DEF IInv, PcTypes
<1>2. ChanTypes' /\ FlowInv'
  <2>1. \A p \in End : Torn(p)' <=> Torn(p)
    BY DEF Torn
  <2> QED
    BY <1>1, <2>1 DEF ChanTypes, FlowInv, chanVars
<1>3. ServerTalk(conn)'
  BY <1>1 DEF ServerTalk, TalkInv, Fresh, chanVars
<1>4. TurnInv'
  BY DEF IInv, TurnInv, chanVars
<1>5. spc' \in ServerPc /\ spc # "exited" /\ (spc' \in Turn => spc \in Turn)
  BY DEF ServerPc, Turn
<1>6. Abreast' /\ TurnMoves
  BY DEF IInv, Abreast, TurnMoves, chanVars
<1> QED
  BY <1>2, <1>3, <1>4, <1>5, <1>6, ServerFrame DEF chanVars

LEMMA AcceptStep ==
  ASSUME IInv, Accept
  PROVE  IInv'
<1>1. /\ PcTypes /\ ChanTypes /\ FlowInv /\ TalkInv /\ QueueInv
      /\ conn \in Client /\ queue \in Seq(Client) /\ Len(queue) <= Backlog
  BY Types DEF IInv, PcTypes
<1>2. /\ queue # <<>> /\ spc = "accept" /\ spc' = "setup"
      /\ conn' = Head(queue) /\ queue' = Tail(queue) /\ cpc' = cpc /\ lost' = lost
      /\ sent' = sent /\ chan' = chan /\ delivered' = delivered /\ open' = open
  BY DEF Accept, chanVars
<1>3. PICK n \in Nat : n = Len(queue)
  BY <1>1
<1>4. n # 0 /\ queue[1] = Head(queue) /\ Head(queue) \in Client
  BY <1>1, <1>2, <1>3
<1>5. PICK t \in Seq(Client) : /\ t = Tail(queue) /\ Len(t) = n - 1
                               /\ \A i \in 1 .. n - 1 : t[i] = queue[i + 1]
  <2>1. /\ Tail(queue) \in Seq(Client) /\ Len(Tail(queue)) = n - 1
        /\ \A i \in 1 .. Len(Tail(queue)) : Tail(queue)[i] = queue[i + 1]
    BY <1>1, <1>2, <1>3, HeadTailProperties
  <2> QED
    BY <2>1
<1>6. /\ \A i, j \in 1 .. n : queue[i] = queue[j] => i = j
      /\ \A i \in 1 .. n : /\ cpc[queue[i]] # "starting" /\ queue[i] \in Client
                            /\ cpc[queue[i]] \in Waits
  BY <1>1, <1>2, <1>3 DEF QueueInv
<1>7. /\ \A i, j \in 1 .. n - 1 : t[i] = t[j] => i = j
      /\ \A i \in 1 .. n - 1 : /\ cpc[t[i]] # "starting" /\ t[i] # queue[1]
                                /\ cpc[t[i]] \in Waits
  <2>1. \A i \in 1 .. n - 1 : i + 1 \in 1 .. n /\ i + 1 # 1 /\ 1 \in 1 .. n
    BY <1>4
  <2>2. ASSUME NEW i \in 1 .. n - 1, NEW j \in 1 .. n - 1, t[i] = t[j] PROVE i = j
    <3>1. queue[i + 1] = queue[j + 1]
      BY <1>5, <2>2
    <3>2. i + 1 = j + 1
      BY <1>6, <2>1, <3>1
    <3> QED
      BY <3>2
  <2>3. ASSUME NEW i \in 1 .. n - 1
        PROVE  cpc[t[i]] # "starting" /\ t[i] # queue[1] /\ cpc[t[i]] \in Waits
    BY <1>5, <1>6, <2>1
  <2> QED
    BY <2>2, <2>3
<1>8. 1 \in 1 .. n /\ cpc[queue[1]] # "starting" /\ cpc[queue[1]] \in Waits
  BY <1>4, <1>6
<1>9. QueueInv'
  <2>1. /\ queue' = t /\ Len(queue') = n - 1 /\ conn' = queue[1]
    BY <1>2, <1>4, <1>5
  <2> QED
    BY <1>2, <1>7, <1>8, <2>1 DEF QueueInv
<1>10. ASSUME NEW c \in Client, Fresh(c)' PROVE Fresh(c)
  <2>1. CASE cpc[c] = "starting"
    BY <2>1 DEF Fresh
  <2>2. CASE cpc[c] # "starting"
    <3>1. PICK i \in 1 .. n - 1 : t[i] = c
      BY <1>2, <1>5, <1>10, <2>2 DEF Fresh
    <3>2. i + 1 \in 1 .. n /\ queue[i + 1] = c
      BY <1>5, <3>1
    <3> QED
      BY <1>3, <3>2 DEF Fresh
  <2> QED
    BY <2>1, <2>2
<1>11. PcTypes'
  BY <1>1, <1>2, <1>3, <1>4, <1>5 DEF PcTypes, ServerPc, Turn
<1>12. ChanTypes' /\ FlowInv' /\ LostInv'
  <2>1. \A p \in End : Torn(p)' <=> Torn(p)
    BY <1>2 DEF Torn
  <2>2. LostInv'
    BY <1>2, LostKept DEF IInv
  <2> QED
    BY <1>1, <1>2, <2>1, <2>2 DEF ChanTypes, FlowInv
<1>13. TalkInv'
  <2>1. ASSUME NEW c \in Client PROVE ServerTalk(c)' /\ ClientTalk(c)'
    <3>1. ServerTalk(c)'
      BY <1>1, <1>2, <1>10, ServerTalkKept DEF TalkInv
    <3>2. QuietMove(c)
      BY <1>2 DEF QuietMove
    <3>3. ClientTalk(c)'
      BY <1>1, <1>2, <3>2, ClientTalkKept DEF TalkInv
    <3> QED
      BY <3>1, <3>3
  <2> QED
    BY <2>1 DEF TalkInv
<1>14. TurnInv'
  <2>1. Fresh(Head(queue))
    BY <1>3, <1>4, <1>8 DEF Fresh
  <2>2. /\ sent[At("server", Head(queue))] = <<>>
        /\ delivered[At("client", Head(queue))] = <<>>
    BY <1>1, <1>4, <2>1 DEF TalkInv, ServerTalk
  <2> QED
    BY <1>2, <2>2 DEF TurnInv
<1>15. Abreast'
  BY <1>2, <1>4, <1>8 DEF Abreast, Waits
<1>16. OneAtATime'
  BY <1>2 DEF IInv, OneAtATime
<1> QED
  BY <1>9, <1>11, <1>12, <1>13, <1>14, <1>15, <1>16, TypesNext DEF IInv

\* In the turn of a client, what the server knows of it.
LEMMA TurnFacts ==
  ASSUME IInv, spc \in Turn
  PROVE  /\ PcTypes /\ ChanTypes /\ FlowInv /\ conn \in Client
         /\ At("server", conn) \in End /\ At("client", conn) \in End
         /\ At("server", conn) # At("client", conn)
         /\ ServerTalk(conn) /\ ClientTalk(conn) /\ TurnInv /\ ~Fresh(conn)
         /\ Abreast /\ LostInv
<1>1. PcTypes /\ ChanTypes /\ FlowInv /\ QueueInv /\ TalkInv /\ TurnInv /\ conn \in Client
  BY Types DEF IInv, PcTypes
<1>2. ~Fresh(conn)
  BY <1>1 DEF QueueInv, Fresh
<1> QED
  BY <1>1, <1>2, Ends DEF TalkInv, IInv

\* The end of a client that has not lost the time is not torn, nor is that of
\* the client itself.
LEMMA Whole ==
  ASSUME lost \subseteq Client, NEW c \in Client
  PROVE  ~Torn(At("client", c)) /\ (c \notin lost => ~Torn(At("server", c)))
  BY Ends DEF Torn

LEMMA StaysServed ==
  ASSUME ~Fresh(conn), conn' = conn, queue' = queue, cpc' = cpc
  PROVE  ~(Fresh(conn)')
  BY DEF Fresh

LEMMA SendTimeStep ==
  ASSUME IInv, SendTime
  PROVE  IInv'
<1> DEFINE s == At("server", conn)
           k == At("client", conn)
<1>1. /\ spc = "time" /\ spc' = "confirm" /\ queue' = queue /\ cpc' = cpc /\ conn' = conn
      /\ lost' = lost
      /\ Channel!Send(s, "time")
  BY DEF SendTime, ServerMoves
<1>2. spc \in Turn /\ spc' \in ServerPc /\ "time" \in Msg
  BY <1>1 DEF Turn, ServerPc, Msg
<1>3. /\ ChanTypes /\ FlowInv /\ s \in End /\ k \in End /\ s # k /\ ~Fresh(conn)
      /\ sent[s] = <<>> /\ delivered[k] = <<>> /\ Abreast /\ LostInv /\ PcTypes
  BY <1>1, <1>2, TurnFacts DEF TurnInv
<1>9. conn \notin lost /\ ~Torn(s)
  BY <1>3, Words, Whole DEF LostInv, PcTypes
<1>4. /\ ChanTypes' /\ FlowInv' /\ delivered' = delivered /\ open' = open
      /\ \A q \in End : q # s => chan'[q] = chan[q]
      /\ sent'[s] = Append(sent[s], "time") /\ \A q \in End : q # s => sent'[q] = sent[q]
  BY <1>1, <1>2, <1>3, <1>9, SendFacts
<1>5. sent'[s] = <<"time">> /\ Len(sent'[s]) = 1
  BY <1>3, <1>4, Words
<1>6. ~(Fresh(conn)')
  BY <1>1, <1>3, StaysServed
<1>7. ServerTalk(conn)'
  BY <1>1, <1>5, <1>6 DEF ServerTalk
<1>8. TurnInv'
  BY <1>1, <1>3, <1>4, <1>5 DEF TurnInv
<1>10. Abreast' /\ TurnMoves
  BY <1>1, <1>3 DEF Abreast, TurnMoves
<1> QED
  BY <1>1, <1>2, <1>4, <1>7, <1>8, <1>9, <1>10, ServerFrame

LEMMA RecvConfirmStep ==
  ASSUME IInv, RecvConfirm
  PROVE  IInv'
<1> DEFINE s == At("server", conn)
           k == At("client", conn)
<1>1. /\ spc = "confirm" /\ spc' = "story" /\ queue' = queue /\ cpc' = cpc /\ conn' = conn
      /\ lost' = lost
      /\ Channel!Receive(k)
  BY DEF RecvConfirm, ServerMoves
<1>2. spc \in Turn /\ spc' \in ServerPc
  BY <1>1 DEF Turn, ServerPc
<1>3. /\ ChanTypes /\ FlowInv /\ s \in End /\ k \in End /\ s # k /\ ~Fresh(conn)
      /\ sent[s] = <<"time">> /\ delivered[k] = <<>> /\ sent[k] \in {<<>>, <<"confirm">>}
      /\ Abreast /\ ClientTalk(conn)
  BY <1>1, <1>2, TurnFacts DEF TurnInv, ClientTalk
<1>4. /\ ChanTypes' /\ FlowInv' /\ sent' = sent /\ open' = open
      /\ \A q \in End : q # k => chan'[q] = chan[q]
      /\ Len(delivered[k]) < Len(sent[k])
      /\ delivered'[k] = Append(delivered[k], sent[k][Len(delivered[k]) + 1])
      /\ \A q \in End : q # k => delivered'[q] = delivered[q]
  BY <1>1, <1>3, ReceiveFacts
<1>5. sent[k] = <<"confirm">>
  BY <1>3, <1>4, Words
<1>6. delivered'[k] = <<"confirm">>
  BY <1>3, <1>4, <1>5, Words
<1>7. ~(Fresh(conn)')
  BY <1>1, <1>3, StaysServed
<1>8. ServerTalk(conn)'
  BY <1>1, <1>3, <1>4, <1>6, <1>7 DEF ServerTalk
<1>9. TurnInv'
  BY <1>1, <1>3, <1>4, <1>6 DEF TurnInv
<1>10. Abreast' /\ TurnMoves
  <2>1. cpc[conn] \notin {"setup", "time", "confirm"}
    BY <1>3, <1>5, Words DEF ClientTalk
  <2> QED
    BY <1>1, <1>3, <2>1 DEF Abreast, TurnMoves
<1>11. \A q \in End : q # s /\ chan[q] = <<>> => chan'[q] = <<>>
  <2>1. chan[k] # <<>>
    BY <1>1, <1>3, ReceiveFacts
  <2> QED
    BY <1>4, <2>1
<1> QED
  BY <1>1, <1>2, <1>3, <1>4, <1>8, <1>9, <1>10, <1>11, ServerFrame

LEMMA SendStoryStep ==
  ASSUME IInv, SendStory
  PROVE  IInv'
<1> DEFINE s == At("server", conn)
           k == At("client", conn)
<1>1. /\ spc = "story" /\ spc' = "close" /\ queue' = queue /\ cpc' = cpc /\ conn' = conn
      /\ lost' = lost
      /\ Channel!Send(s, "story")
  BY DEF SendStory, ServerMoves
<1>2. spc \in Turn /\ spc' \in ServerPc /\ "story" \in Msg
  BY <1>1 DEF Turn, ServerPc, Msg
<1>3. /\ ChanTypes /\ FlowInv /\ s \in End /\ k \in End /\ s # k /\ ~Fresh(conn)
      /\ sent[s] = <<"time">> /\ delivered[k] = <<"confirm">>
      /\ Abreast /\ LostInv /\ PcTypes
  BY <1>1, <1>2, TurnFacts DEF TurnInv
<1>9. conn \notin lost /\ ~Torn(s)
  <2>1. cpc[conn] \in {"story", "killed"}
    BY <1>1, <1>3 DEF Abreast
  <2>2. ClientTalk(conn) /\ Len(delivered[k]) + Len(chan[k]) <= Len(sent[k])
    BY <1>1, <1>2, <1>3, TurnFacts DEF FlowInv, Flows
  <2>3. Len(delivered[k]) = 1 /\ Len(chan[k]) \in Nat /\ Len(<<>>) = 0
    BY <1>3, Words DEF ChanTypes
  <2>4. sent[k] # <<>>
    BY <2>2, <2>3
  <2>5. delivered[s] # <<>>
    BY <2>2, <2>4 DEF ClientTalk
  <2> QED
    BY <1>3, <2>5, Whole DEF LostInv, PcTypes
<1>4. /\ ChanTypes' /\ FlowInv' /\ delivered' = delivered /\ open' = open
      /\ \A q \in End : q # s => chan'[q] = chan[q]
      /\ sent'[s] = Append(sent[s], "story") /\ \A q \in End : q # s => sent'[q] = sent[q]
  BY <1>1, <1>2, <1>3, <1>9, SendFacts
<1>5. sent'[s] = <<"time", "story">>
  BY <1>3, <1>4, Words
<1>6. ~(Fresh(conn)')
  BY <1>1, <1>3, StaysServed
<1>7. ServerTalk(conn)'
  BY <1>1, <1>3, <1>4, <1>5, <1>6 DEF ServerTalk
<1>8. TurnInv'
  BY <1>1 DEF TurnInv
<1>10. Abreast' /\ TurnMoves
  BY <1>1, <1>3 DEF Abreast, TurnMoves
<1> QED
  BY <1>1, <1>2, <1>4, <1>7, <1>8, <1>9, <1>10, ServerFrame

\* The server ends, or turns to the next client: NoStory, ServerClose,
\* ServerDies and ServerCrashes, none of which says or hears anything.
LEMMA ServerEndsTurn ==
  ASSUME IInv, spc \in Turn, spc' \in {"accept", "exited"},
         queue' = queue, cpc' = cpc, conn' = conn, lost' = lost,
         Channel!Close(At("server", conn))
  PROVE  IInv'
<1>1. /\ ChanTypes /\ FlowInv /\ At("server", conn) \in End
      /\ ServerTalk(conn) /\ ~Fresh(conn)
  BY TurnFacts
<1>2. /\ ChanTypes' /\ FlowInv' /\ sent' = sent /\ delivered' = delivered
      /\ ~open'[At("server", conn)] /\ \A q \in End : open'[q] => open[q]
      /\ \A q \in End : chan[q] = <<>> => chan'[q] = <<>>
  BY <1>1, CloseFacts
<1>3. ~(Fresh(conn)')
  BY <1>1, StaysServed
<1>4. ServerTalk(conn)'
  BY <1>1, <1>2, <1>3 DEF ServerTalk
<1>5. TurnInv'
  BY DEF TurnInv
<1>6. spc' \in ServerPc /\ spc' \notin Turn /\ spc # "exited"
  BY DEF ServerPc, Turn
<1>7. Abreast' /\ TurnMoves
  BY <1>2 DEF Abreast, TurnMoves
<1> QED
  BY <1>1, <1>2, <1>4, <1>5, <1>6, <1>7, ServerFrame

LEMMA ServerStep ==
  ASSUME IInv, time_server \/ ServerDies \/ ServerCrashes
  PROVE  IInv'
<1>1. CASE Listen
  BY <1>1, QuietSteps DEF Listen, ServerMoves, chanVars
<1>2. CASE Accept
  BY <1>2, AcceptStep
<1>3. CASE ServerFails
  BY <1>3, QuietSteps DEF ServerFails, ServerMoves, chanVars
<1>10. CASE Accepted
  BY <1>10, QuietSteps DEF Accepted, ServerMoves, chanVars
<1>11. CASE ServerCrashes
  <2>1. /\ spc \in Turn /\ spc' = "exited" /\ queue' = queue /\ cpc' = cpc /\ conn' = conn
        /\ lost' = lost /\ Channel!Close(At("server", conn))
    BY <1>11 DEF ServerCrashes, ServerMoves, Turn
  <2> QED
    BY <2>1, ServerEndsTurn
<1>4. CASE SendTime
  BY <1>4, SendTimeStep
<1>5. CASE RecvConfirm
  BY <1>5, RecvConfirmStep
<1>6. CASE SendStory
  BY <1>6, SendStoryStep
<1>7. CASE NoStory
  <2>1. /\ spc \in Turn /\ spc' = "exited" /\ queue' = queue /\ cpc' = cpc /\ conn' = conn
        /\ lost' = lost /\ Channel!Close(At("server", conn))
    BY <1>7 DEF NoStory, ServerMoves, Turn
  <2> QED
    BY <2>1, ServerEndsTurn
<1>8. CASE ServerClose
  <2>1. /\ spc \in Turn /\ spc' = "accept" /\ queue' = queue /\ cpc' = cpc /\ conn' = conn
        /\ lost' = lost /\ Channel!Close(At("server", conn))
    BY <1>8 DEF ServerClose, ServerMoves, Turn
  <2> QED
    BY <2>1, ServerEndsTurn
<1>9. CASE ServerDies
  <2>1. /\ spc \in Turn /\ spc' = "exited" /\ queue' = queue /\ cpc' = cpc /\ conn' = conn
        /\ lost' = lost /\ Channel!Close(At("server", conn))
    BY <1>9 DEF ServerDies, ServerMoves, Turn
  <2> QED
    BY <2>1, ServerEndsTurn
<1> QED
  BY <1>1, <1>2, <1>3, <1>4, <1>5, <1>6, <1>7, <1>8, <1>9, <1>10, <1>11
     DEF time_server

-----------------------------------------------------------------------------
(***************************************************************************)
(* The steps of the clients.                                               *)
(***************************************************************************)
LEMMA ClientFacts ==
  ASSUME IInv, NEW c \in Client
  PROVE  /\ PcTypes /\ ChanTypes /\ FlowInv /\ LostInv /\ ServerTalk(c) /\ ClientTalk(c)
         /\ TurnInv /\ Abreast /\ QueueInv /\ lost \subseteq Client
         /\ At("server", c) \in End /\ At("client", c) \in End
         /\ At("server", c) # At("client", c) /\ ~Torn(At("client", c))
         /\ c \notin lost => ~Torn(At("server", c))
<1>1. PcTypes /\ ChanTypes /\ TalkInv /\ lost \subseteq Client
  BY Types DEF IInv, PcTypes
<1> QED
  BY <1>1, Ends, Whole DEF IInv, TalkInv

\* A client that has not connected is neither waiting nor served.
LEMMA StartingFacts ==
  ASSUME IInv, NEW c \in Client, cpc[c] = "starting"
  PROVE  ~Queued(c) /\ c \notin lost /\ (c = conn => spc \notin Turn)
  BY DEF IInv, QueueInv, LostInv, Queued

\* Who goes on while c moves, and c itself if it has not lost the time, keeps
\* to what LostInv says.
LEMMA LostMoves ==
  ASSUME IInv, NEW c \in Client, lost' = lost,
         NEW to \in ClientPc, cpc' = [cpc EXCEPT ![c] = to],
         c \in lost => /\ to \in {"time", "killed", "failed"} /\ sent' = sent
                       /\ delivered' = delivered
                       /\ \A q \in End : chan[q] = <<>> => chan'[q] = <<>>,
         \A q \in End : q # At("client", c) => sent'[q] = sent[q],
         \A q \in End : q # At("server", c) => delivered'[q] = delivered[q],
         \A q \in End : \/ q = At("server", c) \/ q = At("client", c)
                        \/ chan[q] = <<>> => chan'[q] = <<>>
  PROVE  LostInv'
<1>1. LostInv /\ PcTypes /\ lost \subseteq Client
  BY ClientFacts
<1>2. ASSUME NEW d \in lost
      PROVE  LET s == At("server", d)
             IN  /\ sent'[s] = sent[s] /\ delivered'[s] = delivered[s]
                 /\ chan[s] = <<>> => chan'[s] = <<>>
                 /\ cpc'[d] = cpc[d] \/ cpc'[d] \in {"time", "killed", "failed"}
  <2>1. d \in Client /\ At("server", d) \in End /\ At("server", d) # At("client", c)
    BY <1>1, Ends
  <2>2. CASE d = c
    <3>1. cpc'[d] = to
      BY <1>1, <2>1, <2>2 DEF PcTypes
    <3> QED
      BY <2>1, <2>2, <3>1
  <2>3. CASE d # c
    <3>1. At("server", d) # At("server", c)
      BY <2>1, <2>3, Ends
    <3>2. cpc'[d] = cpc[d]
      BY <1>1, <2>1, <2>3 DEF PcTypes
    <3> QED
      BY <2>1, <3>1, <3>2
  <2> QED
    BY <2>2, <2>3
<1> QED
  BY <1>1, <1>2, LostKept

LEMMA ConnectStep ==
  ASSUME IInv, NEW c \in Client, Connect(c)
  PROVE  IInv'
<1>1. /\ PcTypes /\ ChanTypes /\ FlowInv /\ TalkInv /\ QueueInv /\ TurnInv
      /\ conn \in Client /\ queue \in Seq(Client) /\ Len(queue) <= Backlog
  BY Types DEF IInv, PcTypes
<1>2. /\ cpc[c] = "starting" /\ cpc' = [cpc EXCEPT ![c] = "setup"] /\ Len(queue) < Backlog
      /\ queue' = Append(queue, c) /\ spc' = spc /\ conn' = conn /\ lost' = lost
      /\ sent' = sent /\ chan' = chan /\ delivered' = delivered /\ open' = open
      /\ spc # "exited"
  BY DEF Connect, ClientMoves, chanVars
<1>3. cpc'[c] = "setup" /\ \A d \in Client : d # c => cpc'[d] = cpc[d]
  BY <1>1, <1>2 DEF PcTypes
<1>4. PICK n \in Nat : n = Len(queue)
  BY <1>1
<1>5. PICK t \in Seq(Client) : /\ t = Append(queue, c) /\ Len(t) = n + 1 /\ t[n + 1] = c
                               /\ \A i \in 1 .. n : t[i] = queue[i]
  <2>1. /\ Append(queue, c) \in Seq(Client) /\ Len(Append(queue, c)) = n + 1
        /\ Append(queue, c)[n + 1] = c
    BY <1>1, <1>4
  <2>2. \A i \in 1 .. n : Append(queue, c)[i] = queue[i]
    BY <1>1, <1>4
  <2> QED
    BY <2>1, <2>2
<1>6. /\ \A i, j \in 1 .. n : queue[i] = queue[j] => i = j
      /\ \A i \in 1 .. n : /\ cpc[queue[i]] # "starting" /\ queue[i] \in Client
                            /\ cpc[queue[i]] \in Waits
  BY <1>1, <1>2, <1>4 DEF QueueInv
<1>7. \A i \in 1 .. n : queue[i] # c
  BY <1>2, <1>6
<1>8. \A i \in 1 .. n + 1 : i \in 1 .. n \/ i = n + 1
  OBVIOUS
<1>9. \A i, j \in 1 .. n + 1 : t[i] = t[j] => i = j
  BY <1>5, <1>6, <1>7, <1>8
<1>10. \A i \in 1 .. n + 1 : cpc'[t[i]] # "starting" /\ cpc'[t[i]] \in Waits
  <2>1. ASSUME NEW i \in 1 .. n PROVE cpc'[t[i]] # "starting" /\ cpc'[t[i]] \in Waits
    BY <1>3, <1>5, <1>6, <1>7
  <2>2. cpc'[t[n + 1]] = "setup"
    BY <1>3, <1>5
  <2> QED
    BY <1>8, <2>1, <2>2 DEF Waits
<1>11. ASSUME spc \in Turn
       PROVE  cpc'[conn] # "starting" /\ \A i \in 1 .. n + 1 : t[i] # conn
  <2>1. cpc[conn] # "starting" /\ \A i \in 1 .. n : queue[i] # conn
    BY <1>1, <1>4, <1>11 DEF QueueInv
  <2> QED
    BY <1>1, <1>2, <1>3, <1>5, <1>8, <2>1
<1>12. QueueInv'
  <2>1. queue' = t /\ Len(queue') = n + 1
    BY <1>2, <1>5
  <2> QED
    BY <1>2, <1>9, <1>10, <1>11, <2>1 DEF QueueInv
<1>13. ASSUME NEW d \in Client, Fresh(d)' PROVE Fresh(d)
  <2>1. CASE d = c
    BY <1>2, <2>1 DEF Fresh
  <2>2. CASE d # c
    BY <1>2, <1>3, <1>4, <1>5, <1>8, <1>13, <2>2 DEF Fresh
  <2> QED
    BY <2>1, <2>2
<1>14. PcTypes'
  <2>1. n + 1 <= Backlog
    BY <1>2, <1>4
  <2> QED
    BY <1>1, <1>2, <1>5, <2>1 DEF PcTypes, ClientPc, Turn
<1>15. ChanTypes' /\ FlowInv'
  <2>1. \A p \in End : Torn(p)' <=> Torn(p)
    BY <1>2 DEF Torn
  <2> QED
    BY <1>1, <1>2, <2>1 DEF ChanTypes, FlowInv
<1>16. TurnInv'
  BY <1>1, <1>2 DEF TurnInv
<1>17. TalkInv'
  <2>1. ASSUME NEW d \in Client PROVE ServerTalk(d)' /\ ClientTalk(d)'
    <3>1. ServerTalk(d)'
      BY <1>1, <1>2, <1>13, ServerTalkKept DEF TalkInv
    <3>2. QuietMove(d)
      BY <1>2, <1>3 DEF QuietMove
    <3>3. ClientTalk(d)'
      BY <1>1, <1>2, <3>2, ClientTalkKept DEF TalkInv
    <3> QED
      BY <3>1, <3>3
  <2> QED
    BY <2>1 DEF TalkInv
<1>18. LostInv'
  <2>1. c \notin lost /\ "setup" \in ClientPc
    BY <1>2, StartingFacts DEF ClientPc, Turn
  <2> QED
    BY <1>2, <2>1, LostMoves
<1>19. Abreast'
  <2>1. CASE conn = c
    BY <1>2, <2>1, StartingFacts DEF Abreast, Turn
  <2>2. CASE conn # c
    <3>1. cpc'[conn] = cpc[conn]
      BY <1>1, <1>3, <2>2
    <3> QED
      BY <1>2, <3>1 DEF IInv, Abreast
  <2> QED
    BY <2>1, <2>2
<1>20. OneAtATime'
  BY <1>2 DEF IInv, OneAtATime
<1> QED
  BY <1>12, <1>14, <1>15, <1>16, <1>17, <1>18, <1>19, <1>20, TypesNext DEF IInv

\* ConnectFails and Connected.
LEMMA QuietClient ==
  ASSUME IInv, NEW c \in Client, NEW to \in {"failed", "time"},
         cpc[c] = IF to = "time" THEN "setup" ELSE "starting",
         cpc' = [cpc EXCEPT ![c] = to],
         UNCHANGED <<spc, conn, queue, lost, chanVars>>
  PROVE  IInv'
<1>1. /\ spc' = spc /\ conn' = conn /\ queue' = queue /\ lost' = lost
      /\ sent' = sent /\ chan' = chan /\ delivered' = delivered /\ open' = open
  BY DEF chanVars
<1>2. PcTypes /\ ChanTypes /\ FlowInv /\ ClientTalk(c) /\ Abreast
  BY ClientFacts
<1>3. ChanTypes' /\ FlowInv'
  <2>1. \A p \in End : Torn(p)' <=> Torn(p)
    BY <1>1 DEF Torn
  <2> QED
    BY <1>1, <1>2, <2>1 DEF ChanTypes, FlowInv
<1>4. cpc'[c] = to /\ to \in ClientPc \ {"starting"}
  BY <1>2 DEF PcTypes, ClientPc, Turn
<1>5. ClientTalk(c)'
  <2>1. QuietMove(c)
    BY <1>4 DEF QuietMove
  <2> QED
    BY <1>1, <1>2, <2>1, ClientTalkKept
<1>6. LostInv'
  <2>1. c \in lost => to = "time"
    BY StartingFacts
  <2> QED
    BY <1>1, <1>4, <2>1, LostMoves
<1>7. ASSUME c = conn PROVE Abreast'
  <2>1. CASE to = "failed"
    BY <1>1, <1>7, <2>1, StartingFacts DEF Abreast, Turn
  <2>2. CASE to = "time"
    BY <1>1, <1>2, <1>4, <1>7, <2>2 DEF Abreast
  <2> QED
    BY <2>1, <2>2
<1>8. Queued(c) => to \in Waits
  BY StartingFacts DEF Waits
<1> QED
  BY <1>1, <1>3, <1>4, <1>5, <1>6, <1>7, <1>8, ClientFrame

LEMMA RecvTimeStep ==
  ASSUME IInv, NEW c \in Client, RecvTime(c)
  PROVE  IInv'
<1> DEFINE s == At("server", c)
           k == At("client", c)
<1>1. /\ cpc[c] = "time" /\ cpc' = [cpc EXCEPT ![c] = "confirm"] /\ lost' = lost
      /\ spc' = spc /\ conn' = conn /\ queue' = queue /\ Channel!Receive(s)
  BY DEF RecvTime, ClientMoves
<1>2. /\ PcTypes /\ ChanTypes /\ FlowInv /\ s \in End /\ k \in End /\ s # k
      /\ sent[s] \in {<<>>, <<"time">>, <<"time", "story">>}
      /\ sent[k] = <<>> /\ delivered[s] = <<>> /\ ServerTalk(c)
      /\ TurnInv /\ Abreast /\ LostInv
  BY <1>1, ClientFacts DEF ServerTalk, ClientTalk
<1>3. /\ ChanTypes' /\ FlowInv' /\ sent' = sent /\ Len(delivered[s]) < Len(sent[s])
      /\ delivered'[s] = Append(delivered[s], sent[s][Len(delivered[s]) + 1])
      /\ \A q \in End : q # s => delivered'[q] = delivered[q]
      /\ open' = open /\ chan[s] # <<>> /\ \A q \in End : q # s => chan'[q] = chan[q]
  BY <1>1, <1>2, ReceiveFacts
<1>4. sent[s] # <<>> /\ sent[s][1] = "time"
  BY <1>2, <1>3, Words
<1>5. delivered'[s] = <<"time">>
  BY <1>2, <1>3, <1>4, Words
<1>6. cpc'[c] = "confirm" /\ "confirm" \in ClientPc \ {"starting"}
  BY <1>1, <1>2 DEF PcTypes, ClientPc, Turn
<1>7. ClientTalk(c)'
  BY <1>2, <1>3, <1>5, <1>6 DEF ClientTalk
<1>8. LostInv'
  <2>1. c \notin lost
    BY <1>2, <1>3 DEF LostInv
  <2> QED
    BY <1>1, <1>3, <1>6, <2>1, LostMoves
<1>9. ASSUME c = conn PROVE Abreast'
  <2>1. spc \notin {"setup", "time"}
    BY <1>2, <1>4, <1>9 DEF TurnInv
  <2> QED
    BY <1>1, <1>2, <1>6, <1>9, <2>1 DEF Abreast
<1>10. ~Queued(c)
  BY <1>2, <1>4 DEF ServerTalk, Fresh, Queued
<1> QED
  BY <1>1, <1>3, <1>6, <1>7, <1>8, <1>9, <1>10, ClientFrame

LEMMA SendConfirmStep ==
  ASSUME IInv, NEW c \in Client, SendConfirm(c)
  PROVE  IInv'
<1> DEFINE s == At("server", c)
           k == At("client", c)
<1>1. /\ cpc[c] = "confirm" /\ cpc' = [cpc EXCEPT ![c] = "story"] /\ "confirm" \in Msg
      /\ spc' = spc /\ conn' = conn /\ queue' = queue /\ Channel!Send(k, "confirm")
      /\ lost' = lost
  BY DEF SendConfirm, ClientMoves, Msg
<1>2. /\ PcTypes /\ ChanTypes /\ FlowInv /\ s \in End /\ k \in End /\ s # k
      /\ sent[k] = <<>> /\ delivered[s] = <<"time">>
      /\ Abreast /\ LostInv /\ QueueInv /\ ~Torn(k)
  BY <1>1, ClientFacts DEF ClientTalk
<1>3. /\ ChanTypes' /\ FlowInv' /\ delivered' = delivered /\ open' = open
      /\ sent'[k] = Append(sent[k], "confirm") /\ \A q \in End : q # k => sent'[q] = sent[q]
      /\ \A q \in End : q # k => chan'[q] = chan[q]
  BY <1>1, <1>2, SendFacts
<1>4. sent'[k] = <<"confirm">> /\ delivered'[s] = <<"time">>
  BY <1>2, <1>3, Words
<1>5. cpc'[c] = "story" /\ "story" \in ClientPc \ {"starting"}
  BY <1>1, <1>2 DEF PcTypes, ClientPc, Turn
<1>6. ClientTalk(c)'
  BY <1>4, <1>5, Words DEF ClientTalk
<1>7. LostInv'
  <2>1. c \notin lost
    BY <1>1, <1>2 DEF LostInv
  <2> QED
    BY <1>1, <1>3, <1>5, <2>1, LostMoves
<1>8. ASSUME c = conn PROVE Abreast'
  BY <1>1, <1>2, <1>5, <1>8 DEF Abreast
<1>9. ~(Queued(c) /\ spc # "exited")
  BY <1>1, <1>2 DEF QueueInv, Queued, Waits
<1> QED
  BY <1>1, <1>3, <1>5, <1>6, <1>7, <1>8, <1>9, ClientFrame

LEMMA RecvStoryStep ==
  ASSUME IInv, NEW c \in Client, RecvStory(c)
  PROVE  IInv'
<1> DEFINE s == At("server", c)
           k == At("client", c)
<1>1. /\ cpc[c] = "story" /\ cpc' = [cpc EXCEPT ![c] = "close"] /\ lost' = lost
      /\ spc' = spc /\ conn' = conn /\ queue' = queue /\ Channel!Receive(s)
  BY DEF RecvStory, ClientMoves
<1>2. /\ PcTypes /\ ChanTypes /\ FlowInv /\ s \in End /\ k \in End /\ s # k
      /\ sent[s] \in {<<>>, <<"time">>, <<"time", "story">>}
      /\ sent[k] \in {<<>>, <<"confirm">>} /\ delivered[s] = <<"time">>
      /\ TurnInv /\ Abreast /\ LostInv /\ QueueInv /\ ClientTalk(c)
  BY <1>1, ClientFacts DEF ServerTalk, ClientTalk
<1>3. /\ ChanTypes' /\ FlowInv' /\ sent' = sent /\ Len(delivered[s]) < Len(sent[s])
      /\ delivered'[s] = Append(delivered[s], sent[s][Len(delivered[s]) + 1])
      /\ \A q \in End : q # s => delivered'[q] = delivered[q]
      /\ open' = open /\ \A q \in End : q # s => chan'[q] = chan[q]
  BY <1>1, <1>2, ReceiveFacts
<1>4. sent[s] = <<"time", "story">>
  BY <1>2, <1>3, Words
<1>5. delivered'[s] = <<"time", "story">>
  BY <1>2, <1>3, <1>4, Words
<1>6. cpc'[c] = "close" /\ "close" \in ClientPc \ {"starting"}
  BY <1>1, <1>2 DEF PcTypes, ClientPc, Turn
<1>7. ClientTalk(c)'
  BY <1>2, <1>3, <1>5, <1>6, Words DEF ClientTalk
<1>8. LostInv'
  <2>1. c \notin lost
    BY <1>1, <1>2 DEF LostInv
  <2> QED
    BY <1>1, <1>3, <1>6, <2>1, LostMoves
<1>9. ASSUME c = conn PROVE Abreast'
  <2>1. sent[s] # <<>> /\ sent[s] # <<"time">>
    BY <1>4, Words
  <2>2. spc \notin {"setup", "time", "confirm", "story"}
    BY <1>2, <1>9, <2>1 DEF TurnInv
  <2> QED
    BY <1>1, <1>2, <1>6, <1>9, <2>2 DEF Abreast
<1>10. ~(Queued(c) /\ spc # "exited")
  BY <1>1, <1>2 DEF QueueInv, Queued, Waits
<1> QED
  BY <1>1, <1>3, <1>6, <1>7, <1>8, <1>9, <1>10, ClientFrame

\* A client ends, and closes its connection: ClientClose, ClientCrashes, Killed
\* and ClientDies.
LEMMA ClientEnds ==
  ASSUME IInv, NEW c \in Client,
         NEW to \in {"done", "failed", "killed"}, to = "done" => cpc[c] = "close",
         to = "failed" => spc = "exited",
         cpc' = [cpc EXCEPT ![c] = to], spc' = spc, conn' = conn, queue' = queue,
         lost' = lost, Channel!Close(At("client", c))
  PROVE  IInv'
<1>1. /\ PcTypes /\ ChanTypes /\ FlowInv /\ ClientTalk(c) /\ At("client", c) \in End
      /\ Abreast /\ LostInv /\ QueueInv
  BY ClientFacts
<1>2. /\ ChanTypes' /\ FlowInv' /\ sent' = sent /\ delivered' = delivered
      /\ \A q \in End : open'[q] => open[q]
      /\ \A q \in End : chan[q] = <<>> => chan'[q] = <<>>
  BY <1>1, CloseFacts
<1>3. cpc'[c] = to /\ to \in ClientPc \ {"starting"}
  BY <1>1 DEF PcTypes, ClientPc
<1>4. ClientTalk(c)'
  <2>1. QuietMove(c)
    BY <1>3 DEF QuietMove
  <2> QED
    BY <1>1, <1>2, <2>1, ClientTalkKept
<1>5. LostInv'
  <2>1. c \in lost => to \in {"killed", "failed"}
    BY <1>1 DEF LostInv
  <2> QED
    BY <1>2, <1>3, <2>1, LostMoves
<1>6. ASSUME c = conn PROVE Abreast'
  BY <1>1, <1>3, <1>6 DEF Abreast
<1>7. Queued(c) /\ spc # "exited" => to \in Waits
  BY <1>1 DEF QueueInv, Queued, Waits
<1> QED
  BY <1>2, <1>3, <1>4, <1>5, <1>6, <1>7, ClientFrame

\* What is lost is the time, and nothing follows it: the server waits for the
\* confirmation.
LEMMA LosesTimeStep ==
  ASSUME IInv, NEW c \in Client, LosesTime(c)
  PROVE  IInv'
<1> DEFINE s == At("server", c)
           k == At("client", c)
<1>1. /\ cpc[c] = "setup" /\ chan[s] # <<>> /\ lost' = lost \union {c}
      /\ chan' = [chan EXCEPT ![s] = Tail(@)]
      /\ spc' = spc /\ conn' = conn /\ queue' = queue /\ cpc' = cpc
      /\ sent' = sent /\ delivered' = delivered /\ open' = open
  BY DEF LosesTime
<1>2. /\ PcTypes /\ ChanTypes /\ FlowInv /\ LostInv /\ s \in End /\ k \in End /\ s # k
      /\ sent[s] \in {<<>>, <<"time">>, <<"time", "story">>}
      /\ Len(sent[s]) = 2 => delivered[k] = <<"confirm">>
      /\ sent[k] = <<>> /\ delivered[s] = <<>>
  BY <1>1, ClientFacts DEF ServerTalk, ClientTalk
<1>3. chan[s] \in Seq(Msg) /\ sent[s] \in Seq(Msg) /\ <<>> \in Seq(Msg)
  BY <1>2 DEF ChanTypes
<1>4. PICK n \in Nat : n = Len(chan[s]) /\ n # 0
  BY <1>1, <1>3
<1>5. n <= Len(sent[s]) /\ delivered[k] # <<"confirm">>
  <2>1. /\ Len(delivered[s]) + Len(chan[s]) <= Len(sent[s])
        /\ Len(delivered[k]) + Len(chan[k]) <= Len(sent[k])
    BY <1>2 DEF FlowInv, Flows
  <2>2. Len(delivered[s]) = 0 /\ Len(sent[k]) = 0
    BY <1>2, Words
  <2>3. Len(chan[k]) \in Nat /\ Len(sent[s]) \in Nat
    BY <1>2 DEF ChanTypes
  <2>4. n <= Len(sent[s])
    BY <1>4, <2>1, <2>2, <2>3
  <2>5. Len(delivered[k]) # 1
    <3>1. PICK a, b, e : a = Len(delivered[k]) /\ b = Len(chan[k]) /\ e = Len(sent[k])
      OBVIOUS
    <3>2. a + b <= e /\ e = 0 /\ b \in Nat
      BY <2>1, <2>2, <2>3, <3>1
    <3>3. a # 1
      BY <3>2
    <3> QED
      BY <3>1, <3>3
  <2> QED
    BY <2>4, <2>5, Words
<1>6. sent[s] = <<"time">> /\ n = 1
  <2>1. Len(sent[s]) # 2
    BY <1>2, <1>5
  <2>2. sent[s] # <<"time", "story">>
    BY <2>1, Words
  <2>3. sent[s] # <<>>
    <3>1. Len(sent[s]) # 0
      BY <1>3, <1>4, <1>5
    <3> QED
      BY <3>1, Words
  <2>4. sent[s] = <<"time">>
    BY <1>2, <2>2, <2>3
  <2>5. Len(sent[s]) = 1
    BY <2>4, Words
  <2>6. PICK m \in Nat : m = Len(sent[s])
    BY <1>3
  <2>7. n <= m /\ m = 1
    BY <1>5, <2>5, <2>6
  <2>8. n = 1
    <3>1. n # 0
      BY <1>4
    <3>2. n <= 1
      BY <2>7
    <3> QED
      BY <3>1, <3>2
  <2> QED
    BY <2>4, <2>8
<1>7. Tail(chan[s]) = <<>>
  <2>1. Tail(chan[s]) \in Seq(Msg) /\ Len(Tail(chan[s])) = Len(chan[s]) - 1
    BY <1>1, <1>3, HeadTailProperties
  <2>2. Len(Tail(chan[s])) = 0
    BY <1>4, <1>6, <2>1
  <2> QED
    BY <2>1, <2>2, EmptySeq
<1>8. chan'[s] = <<>> /\ \A q \in End : q # s => chan'[q] = chan[q]
  BY <1>1, <1>2, <1>7 DEF ChanTypes
<1>9. ChanTypes' /\ PcTypes'
  BY <1>1, <1>2, <1>3, <1>7 DEF ChanTypes, PcTypes
<1>10. Torn(s)' /\ \A q \in End : Torn(q) => Torn(q)'
  BY <1>1 DEF Torn
<1>11. Flows(delivered[s], <<>>, sent[s])
  <2>1. 0 \in 0 .. Len(chan[s])
    BY <1>4
  <2> QED
    BY <1>2, <1>3, <2>1, CloseFlows DEF ChanTypes, FlowInv
<1>12. FlowInv'
  <2>1. ASSUME NEW q \in End
        PROVE  /\ Flows(delivered[q], chan'[q], sent[q])
               /\ open[q] /\ ~(Torn(q)') => Full(delivered[q], chan'[q], sent[q])
    <3>1. CASE q = s
      BY <1>8, <1>10, <1>11, <3>1
    <3>2. CASE q # s
      BY <1>2, <1>8, <1>10, <3>2 DEF FlowInv
    <3> QED
      BY <3>1, <3>2
  <2> QED
    BY <1>1, <2>1 DEF FlowInv
<1>13. LostInv'
  <2>1. ASSUME NEW d \in lost \union {c}
        PROVE  /\ sent[At("server", d)] = <<"time">> /\ delivered[At("server", d)] = <<>>
               /\ chan'[At("server", d)] = <<>>
               /\ cpc[d] \in {"setup", "time", "killed", "failed"}
    <3>1. CASE d = c
      BY <1>1, <1>2, <1>6, <1>8, <3>1
    <3>2. CASE d # c
      <4>1. d \in lost /\ d \in Client
        BY <1>2, <3>2 DEF PcTypes
      <4>2. At("server", d) \in End /\ At("server", d) # s
        BY <3>2, <4>1, Ends
      <4> QED
        BY <1>2, <1>8, <4>1, <4>2 DEF LostInv
    <3> QED
      BY <3>1, <3>2
  <2> QED
    BY <1>1, <2>1 DEF LostInv
<1>14. QueueInv' /\ TurnInv' /\ Abreast' /\ OneAtATime'
  BY <1>1 DEF IInv, QueueInv, TurnInv, Abreast, OneAtATime
<1>15. TalkInv'
  BY <1>1 DEF IInv, TalkInv, ServerTalk, ClientTalk, Fresh
<1> QED
  BY <1>9, <1>12, <1>13, <1>14, <1>15, TypesNext DEF IInv

LEMMA ClientStep ==
  ASSUME IInv, NEW c \in Client,
         time_client(c) \/ LosesTime(c) \/ ClientCrashes(c) \/ Killed(c) \/ ClientDies(c)
  PROVE  IInv'
<1>1. CASE Connect(c)
  BY <1>1, ConnectStep
<1>2. CASE ConnectFails(c)
  BY <1>2, QuietClient DEF ConnectFails, ClientMoves
<1>3. CASE Connected(c)
  BY <1>3, QuietClient DEF Connected, ClientMoves
<1>4. CASE RecvTime(c)
  BY <1>4, RecvTimeStep
<1>5. CASE SendConfirm(c)
  BY <1>5, SendConfirmStep
<1>6. CASE RecvStory(c)
  BY <1>6, RecvStoryStep
<1>7. CASE ClientClose(c)
  BY <1>7, ClientEnds DEF ClientClose, ClientMoves
<1>8. CASE LosesTime(c)
  BY <1>8, LosesTimeStep
<1>9. CASE ClientCrashes(c)
  BY <1>9, ClientEnds DEF ClientCrashes, ClientMoves
<1>10. CASE Killed(c)
  BY <1>10, ClientEnds DEF Killed, ClientMoves
<1>11. CASE ClientDies(c)
  BY <1>11, ClientEnds DEF ClientDies, ClientMoves
<1> QED
  BY <1>1, <1>2, <1>3, <1>4, <1>5, <1>6, <1>7, <1>8, <1>9, <1>10, <1>11 DEF time_client

-----------------------------------------------------------------------------
LEMMA InitIInv == Init => IInv
<1> SUFFICES ASSUME Init PROVE IInv
  OBVIOUS
<1>1. /\ spc = "starting" /\ conn \in Client /\ queue = <<>> /\ lost = {}
      /\ cpc = [c \in Client |-> "starting"]
      /\ sent = [p \in End |-> <<>>] /\ chan = [p \in End |-> <<>>]
      /\ delivered = [p \in End |-> <<>>] /\ open = [p \in End |-> TRUE]
  BY DEF Init, Channel!Init
<1>2. <<>> \in Seq(Msg) /\ <<>> \in Seq(Client) /\ Len(<<>>) = 0
  OBVIOUS
<1>3. PcTypes
  BY <1>1, <1>2 DEF PcTypes, ServerPc, ClientPc
<1>4. ChanTypes
  BY <1>1, <1>2 DEF ChanTypes
<1>5. FlowInv
  BY <1>1, <1>2 DEF FlowInv, Flows, Full
<1>6. QueueInv /\ TurnInv
  BY <1>1, <1>2 DEF QueueInv, TurnInv, Turn
<1>7. TalkInv
  <2>1. ASSUME NEW c \in Client PROVE ServerTalk(c) /\ ClientTalk(c)
    <3>1. /\ sent[At("server", c)] = <<>> /\ sent[At("client", c)] = <<>>
          /\ delivered[At("server", c)] = <<>> /\ delivered[At("client", c)] = <<>>
          /\ cpc[c] = "starting"
      BY <1>1, Ends
    <3> QED
      BY <1>2, <3>1 DEF ServerTalk, ClientTalk
  <2> QED
    BY <2>1 DEF TalkInv
<1>8. LostInv /\ Abreast
  BY <1>1 DEF LostInv, Abreast
<1>9. OneAtATime
  BY <1>1, Ends DEF OneAtATime
<1> QED
  BY <1>3, <1>4, <1>5, <1>6, <1>7, <1>8, <1>9, Types DEF IInv

LEMMA NextIInv == IInv /\ [Next]_vars => IInv'
<1> SUFFICES ASSUME IInv, [Next]_vars PROVE IInv'
  OBVIOUS
<1>1. CASE time_server \/ ServerDies \/ ServerCrashes
  BY <1>1, ServerStep
<1>2. CASE \E c \in Client :
             time_client(c) \/ LosesTime(c) \/ ClientCrashes(c) \/ Killed(c) \/ ClientDies(c)
  BY <1>2, ClientStep
<1>3. CASE UNCHANGED vars
  <2>1. /\ spc' = spc /\ conn' = conn /\ queue' = queue /\ cpc' = cpc /\ lost' = lost
        /\ sent' = sent /\ chan' = chan /\ delivered' = delivered /\ open' = open
    BY <1>3 DEF vars, chanVars
  <2>2. /\ PcTypes /\ ChanTypes /\ FlowInv /\ LostInv /\ QueueInv /\ TurnInv /\ TalkInv
        /\ Abreast /\ OneAtATime
    BY Types DEF IInv
  <2>3. PcTypes' /\ ChanTypes' /\ FlowInv'
    <3>1. \A p \in End : Torn(p)' <=> Torn(p)
      BY <2>1 DEF Torn
    <3> QED
      BY <2>1, <2>2, <3>1 DEF PcTypes, ChanTypes, FlowInv
  <2>4. LostInv' /\ QueueInv' /\ TurnInv' /\ Abreast' /\ OneAtATime'
    BY <2>1, <2>2 DEF LostInv, QueueInv, TurnInv, Abreast, OneAtATime
  <2>5. TalkInv'
    BY <2>1, <2>2 DEF TalkInv, ServerTalk, ClientTalk, Fresh
  <2> QED
    BY <2>3, <2>4, <2>5, TypesNext DEF IInv
<1> QED
  BY <1>1, <1>2, <1>3 DEF Next

LEMMA Invariance == Spec => []IInv
<1> QED
  BY InitIInv, NextIInv, PTL DEF Spec

(***************************************************************************)
(* The variables keep their types, for any number of clients and any       *)
(* length of the queue: the queue of the listening socket above all.       *)
(***************************************************************************)
THEOREM ServiceTypeCorrect == Spec => []TypeOK
<1>1. IInv => TypeOK
  BY DEF IInv
<1> QED
  BY <1>1, Invariance, PTL

(***************************************************************************)
(* time_server.c and the client that it has accepted are at points of the  *)
(* conversation that belong together; only that client is in a             *)
(* conversation that has begun and is not over; and the conversation with  *)
(* each client keeps its order: the client confirms a time that it has,    *)
(* the story goes to a client that has confirmed, and who is done has the  *)
(* time and the story.                                                     *)
(***************************************************************************)
THEOREM ConversationInTurn == Spec => []InTurn
<1>1. IInv => InTurn
  BY DEF IInv, TalkInv, ServerTalk, ClientTalk, InTurn, InOrder
<1> QED
  BY <1>1, Invariance, PTL
=============================================================================
