---------------------------- MODULE ProbeProofs ----------------------------
(***************************************************************************)
(* The probing loop of pingnetinfo.c for any number of probes and hops, a  *)
(* destination at any hop, any number of strangers and words of any width  *)
(* that holds a packet: the two fixed foldings of the checksum are enough  *)
(* for the packets of the program, whatever its process number.            *)
(***************************************************************************)
EXTENDS Probe, SequenceTheorems, TLAPS

USE ProbeAssumption

-----------------------------------------------------------------------------
(***************************************************************************)
(* The inductive invariant.                                                *)
(***************************************************************************)
\* Where the counters of the loops are.
LoopInv ==
  /\ pc \in {"send", "recv"} => i < num_probes
  /\ pc = "done" => i >= num_probes /\ (flag \/ ttl = MaxHops)

\* Until something times out or intrudes, one probe at most is under way, and
\* nothing else is at the socket but its answer.
OneUnderWay ==
  ~timedOut /\ foreign = 0 =>
    /\ ~wrong
    /\ pc # "recv" => flight = {} /\ inbox = <<>>
    /\ pc = "recv" =>
         \/ flight \subseteq {Current} /\ inbox = <<>>
         \/ flight = {} /\ inbox = <<Answer(Current)>>

\* Messages of the destination answer probes that could reach it.
NotBefore ==
  foreign = 0 =>
    /\ flag => ttl >= Dist
    /\ \A p \in flight : p.ttl <= ttl
    /\ \A n \in 1 .. Len(inbox) : inbox[n].from = Dist => ttl >= Dist

\* The first answer of the destination sets the flag.
NotBeyond ==
  ~timedOut /\ foreign = 0 /\ num_probes > 0 =>
    /\ ttl <= Dist
    /\ i > 0 /\ ttl >= Dist => flag

IInv ==
  TypeOK /\ LoopInv /\ OneUnderWay /\ NotBefore /\ NotBeyond /\ PacketVerifies

-----------------------------------------------------------------------------
(***************************************************************************)
(* The checksum.                                                           *)
(***************************************************************************)
Word == 0 .. UINT16 - 1

LEMMA Division ==
  ASSUME NEW a \in Nat, NEW q \in Nat, NEW r \in Word, a = q * UINT16 + r
  PROVE  a \div UINT16 = q /\ a % UINT16 = r
<1>1. PICK p \in Int, t \in Word :
        p = a \div UINT16 /\ t = a % UINT16 /\ a = UINT16 * p + t
  BY DEF Word
<1>2. UINT16 * (p - q) = r - t
  BY <1>1 DEF Word
<1>3. p - q < 1
  <2>1. p - q >= 1 => UINT16 * (p - q) >= UINT16
    OBVIOUS
  <2> QED
    BY <1>2, <2>1 DEF Word
<1>4. p - q > -1
  <2>1. p - q <= -1 => UINT16 * (p - q) <= -UINT16
    OBVIOUS
  <2> QED
    BY <1>2, <2>1 DEF Word
<1>5. p = q
  BY <1>3, <1>4
<1>6. t = r
  BY <1>1, <1>5 DEF Word
<1> QED
  BY <1>1, <1>5, <1>6

\* Folding takes the largest word off a sum until the sum is a word: two
\* foldings do it for seven words, and never take off the whole of a sum.
LEMMA FoldedFacts ==
  ASSUME NEW sum \in 0 .. 7 * (UINT16 - 1)
  PROVE  /\ Folded(sum) \in Word
         /\ sum > 0 => Folded(sum) > 0
         /\ \E k \in 0 .. 7 : Folded(sum) = sum - k * (UINT16 - 1)
<1>1. PICK q \in 0 .. 6, r \in Word : sum = q * UINT16 + r
  BY DEF Word
<1>2. sum \div UINT16 = q /\ sum % UINT16 = r
  <2>1. sum \in Nat /\ q \in Nat
    BY DEF Word
  <2> QED
    BY <1>1, <2>1, Division
<1>3. q + r \in Nat
  BY DEF Word
<1>4. Folded(sum) = ((q + r) + ((q + r) \div UINT16)) % UINT16
  BY <1>2 DEF Folded
<1>5. CASE q + r < UINT16
  <2>1. q + r = 0 * UINT16 + (q + r) /\ q + r \in Word
    BY <1>3, <1>5 DEF Word
  <2>2. (q + r) \div UINT16 = 0 /\ (q + r) % UINT16 = q + r
    BY <1>3, <2>1, Division
  <2>3. Folded(sum) = q + r
    BY <1>3, <1>4, <2>2
  <2>4. q + r = sum - q * (UINT16 - 1)
    BY <1>1 DEF Word
  <2> QED
    BY <1>1, <2>1, <2>3, <2>4 DEF Word
<1>6. CASE q + r >= UINT16
  <2>1. q # 6
    BY <1>1, <1>6 DEF Word
  <2> DEFINE over == q + r - UINT16
  <2>2. over \in Word /\ over + 1 \in Word
    BY <1>6, <2>1 DEF Word
  <2>3. q + r = 1 * UINT16 + over /\ (q + r) + 1 = 1 * UINT16 + (over + 1)
    BY DEF Word
  <2> HIDE DEF over
  <2>4. (q + r) \div UINT16 = 1
    BY <1>3, <2>2, <2>3, Division
  <2>5. ((q + r) + 1) % UINT16 = over + 1
    BY <1>3, <2>2, <2>3, Division
  <2>6. Folded(sum) = over + 1
    BY <1>4, <2>4, <2>5
  <2>7. over + 1 = sum - (q + 1) * (UINT16 - 1)
    BY <1>1, <1>3 DEF Word, over
  <2>8. q + 1 \in 0 .. 7
    OBVIOUS
  <2>9. over + 1 > 0
    BY <2>2 DEF Word
  <2> QED
    BY <2>2, <2>6, <2>7, <2>8, <2>9
<1> QED
  BY <1>3, <1>5, <1>6

LEMMA SumOfPacket ==
  ASSUME NEW w \in Seq(Word), Len(w) = 7
  PROVE  Sum(w) = w[1] + w[2] + w[3] + w[4] + w[5] + w[6] + w[7]
<1> DEFINE to == [n \in 0 .. 7 |->
                    IF n = 0 THEN 0 ELSE IF n = 1 THEN w[1] ELSE IF n = 2 THEN w[1] + w[2]
                    ELSE IF n = 3 THEN w[1] + w[2] + w[3]
                    ELSE IF n = 4 THEN w[1] + w[2] + w[3] + w[4]
                    ELSE IF n = 5 THEN w[1] + w[2] + w[3] + w[4] + w[5]
                    ELSE IF n = 6 THEN w[1] + w[2] + w[3] + w[4] + w[5] + w[6]
                    ELSE w[1] + w[2] + w[3] + w[4] + w[5] + w[6] + w[7]]
           sum == Sums(w)
<1>1. /\ w[1] \in Int /\ w[2] \in Int /\ w[3] \in Int /\ w[4] \in Int /\ w[5] \in Int
      /\ w[6] \in Int /\ w[7] \in Int
  <2>1. \A n \in 1 .. 7 : w[n] \in Word
    BY ElementOfSeq
  <2> QED
    BY <2>1 DEF Word
<1>2. to = [n \in 0 .. 7 |-> IF n = 0 THEN 0 ELSE to[n - 1] + w[n]]
  BY <1>1
<1> HIDE DEF to
<1>3. sum = CHOOSE s : s = [n \in 0 .. 7 |-> IF n = 0 THEN 0 ELSE s[n - 1] + w[n]]
  BY DEF Sums
<1>4. sum = [n \in 0 .. 7 |-> IF n = 0 THEN 0 ELSE sum[n - 1] + w[n]]
  BY <1>2, <1>3
<1> HIDE DEF sum
<1>5. /\ sum[0] = 0 /\ sum[1] = sum[0] + w[1] /\ sum[2] = sum[1] + w[2]
      /\ sum[3] = sum[2] + w[3] /\ sum[4] = sum[3] + w[4] /\ sum[5] = sum[4] + w[5]
      /\ sum[6] = sum[5] + w[6] /\ sum[7] = sum[6] + w[7]
  BY <1>4
<1>6. Sum(w) = sum[7]
  BY DEF Sum, sum
<1> QED
  BY <1>1, <1>5, <1>6

LEMMA SumTyped ==
  ASSUME NEW w \in Seq(Word), Len(w) = 7
  PROVE  /\ Sum(w) \in 0 .. 7 * (UINT16 - 1)
         /\ checksum(w) \in Word
<1>1. /\ w[1] \in Word /\ w[2] \in Word /\ w[3] \in Word /\ w[4] \in Word /\ w[5] \in Word
      /\ w[6] \in Word /\ w[7] \in Word
  <2>1. \A n \in 1 .. 7 : w[n] \in Word
    BY ElementOfSeq
  <2> QED
    BY <2>1
<1>2. Sum(w) \in 0 .. 7 * (UINT16 - 1)
  <2>1. Sum(w) = w[1] + w[2] + w[3] + w[4] + w[5] + w[6] + w[7]
    BY SumOfPacket
  <2>2. PICK a \in Word, b \in Word, c \in Word, d \in Word :
          a = w[1] /\ b = w[2] /\ c = w[3] /\ d = w[4]
    BY <1>1
  <2>3. PICK e \in Word, f \in Word, g \in Word : e = w[5] /\ f = w[6] /\ g = w[7]
    BY <1>1
  <2>4. Sum(w) = a + b + c + d + e + f + g
    BY <2>1, <2>2, <2>3
  <2>5. a + b + c + d + e + f + g \in 0 .. 7 * (UINT16 - 1)
    BY DEF Word
  <2> QED
    BY <2>4, <2>5
<1>3. Folded(Sum(w)) \in Word
  BY <1>2, FoldedFacts
<1>4. checksum(w) \in Word
  BY <1>3 DEF checksum, Word
<1> QED
  BY <1>2, <1>4

\* A packet z without its checksum, and w with it.
LEMMA ChecksumVerifies ==
  ASSUME NEW z \in Seq(Word), Len(z) = 7, z[2] = 0,
         NEW w \in Seq(Word), Len(w) = 7, w[2] = checksum(z),
         \A n \in 1 .. 7 : n # 2 => w[n] = z[n]
  PROVE  checksum(w) = 0
<1> DEFINE rest == Sum(z)
           sum == checksum(z)
           all == Sum(w)
<1>1. UINT16 - 1 \in Nat /\ UINT16 - 1 >= 5
  OBVIOUS
<1>2. /\ rest \in 0 .. 7 * (UINT16 - 1) /\ all \in 0 .. 7 * (UINT16 - 1)
      /\ sum \in Word /\ sum = UINT16 - 1 - Folded(rest)
  BY SumTyped DEF checksum
<1>3. all = rest + sum
  <2>1. rest = z[1] + z[2] + z[3] + z[4] + z[5] + z[6] + z[7]
    BY SumOfPacket
  <2>2. all = w[1] + w[2] + w[3] + w[4] + w[5] + w[6] + w[7]
    BY SumOfPacket
  <2>3. /\ w[1] = z[1] /\ w[3] = z[3] /\ w[4] = z[4] /\ w[5] = z[5] /\ w[6] = z[6]
        /\ w[7] = z[7]
    OBVIOUS
  <2>4. /\ z[1] \in Int /\ z[3] \in Int /\ z[4] \in Int /\ z[5] \in Int /\ z[6] \in Int
        /\ z[7] \in Int /\ sum \in Int
    <3>1. \A n \in 1 .. 7 : z[n] \in Word
      BY ElementOfSeq
    <3> QED
      BY <1>2, <3>1 DEF Word
  <2> HIDE DEF rest, sum, all
  <2>5. w[2] = sum /\ z[2] = 0
    BY DEF sum
  <2>6. PICK a \in Int, c \in Int, d \in Int, s \in Int :
          a = z[1] /\ c = z[3] /\ d = z[4] /\ s = sum
    BY <2>4
  <2>7. PICK e \in Int, f \in Int, g \in Int : e = z[5] /\ f = z[6] /\ g = z[7]
    BY <2>4
  <2>8. rest = a + 0 + c + d + e + f + g /\ all = a + s + c + d + e + f + g
    BY <2>1, <2>2, <2>3, <2>5, <2>6, <2>7
  <2>9. a + s + c + d + e + f + g = (a + 0 + c + d + e + f + g) + s
    OBVIOUS
  <2> QED
    BY <2>6, <2>8, <2>9
<1> HIDE DEF rest, sum, all
<1>4. PICK k \in 0 .. 7 : Folded(rest) = rest - k * (UINT16 - 1)
  BY <1>2, FoldedFacts
<1>5. all = (k + 1) * (UINT16 - 1) /\ all > 0
  <2>1. all = (k + 1) * (UINT16 - 1)
    BY <1>1, <1>2, <1>3, <1>4 DEF Word
  <2>2. (k + 1) * (UINT16 - 1) > 0
    BY <1>1
  <2> QED
    BY <2>1, <2>2
<1>6. PICK j \in 0 .. 7 : Folded(all) = all - j * (UINT16 - 1)
  BY <1>2, FoldedFacts
<1>7. Folded(all) \in Word /\ Folded(all) > 0
  BY <1>2, <1>5, FoldedFacts
<1>8. Folded(all) = ((k + 1) - j) * (UINT16 - 1)
  BY <1>1, <1>5, <1>6
<1>9. (k + 1) - j = 1
  <2>1. (k + 1) - j <= 0 => ((k + 1) - j) * (UINT16 - 1) <= 0
    BY <1>1
  <2>2. (k + 1) - j >= 2 => ((k + 1) - j) * (UINT16 - 1) > UINT16 - 1
    BY <1>1
  <2> QED
    BY <1>1, <1>7, <1>8, <2>1, <2>2 DEF Word
<1>10. Folded(all) = UINT16 - 1
  BY <1>1, <1>8, <1>9
<1> QED
  BY <1>1, <1>10 DEF checksum, all

-----------------------------------------------------------------------------
(***************************************************************************)
(* The steps.                                                              *)
(***************************************************************************)
Message == [to : SUBSET Probes, from : 0 .. Dist]

LEMMA MessageFacts ==
  /\ \A p \in Probes : Answer(p) \in Message
  /\ \A node \in {0, Dist} : Unasked(node) \in Message
<1>1. ASSUME NEW p \in Probes PROVE Answer(p) \in Message
  <2>1. p.ttl \in 1 .. MaxHops
    BY DEF Probes
  <2>2. (IF p.ttl < Dist THEN p.ttl ELSE Dist) \in 0 .. Dist
    BY <2>1
  <2> QED
    BY <2>2 DEF Answer, Message
<1>2. ASSUME NEW node \in {0, Dist} PROVE Unasked(node) \in Message
  BY DEF Unasked, Message
<1> QED
  BY <1>1, <1>2

\* What the steps of the network are.
LEMMA NetworkFacts ==
  ASSUME TypeOK, network
  PROVE  /\ pc \in {"hop", "send", "recv"} /\ UNCHANGED <<pc, ttl, i, flag, pid, packet, timedOut, wrong>>
         /\ \/ \E p \in flight : /\ flight' = flight \ {p} /\ foreign' = foreign
                                 /\ inbox' = Append(inbox, Answer(p)) \/ inbox' = inbox
            \/ \E node \in {0, Dist} :
                 /\ foreign < MaxForeign /\ foreign' = foreign + 1 /\ flight' = flight
                 /\ inbox' = Append(inbox, Unasked(node))
  BY DEF network, Arrives, GetsLost, Intrudes, Network, TypeOK

LEMMA WordsTyped ==
  ASSUME TypeOK, NEW c \in Word
  PROVE  /\ Words(c) \in Seq(Word) /\ Len(Words(c)) = 7 /\ Words(c)[2] = c
         /\ \A n \in 1 .. 7 : n # 2 => Words(c)[n] = Words(0)[n]
<1>1. i % UINT16 \in Word /\ pid \in Word /\ Echo \in Word /\ He \in Word /\ Ll \in Word /\ O \in Word
  BY DEF TypeOK, Word
<1> QED
  BY <1>1 DEF Words

LEMMA SentPacket ==
  ASSUME TypeOK
  PROVE  /\ Words(checksum(Words(0))) \in Seq(Word)
         /\ checksum(Words(checksum(Words(0)))) = 0
<1>1. 0 \in Word
  BY DEF Word
<1>2. Words(0) \in Seq(Word) /\ Len(Words(0)) = 7 /\ Words(0)[2] = 0
  BY <1>1, WordsTyped
<1>3. PICK c \in Word : c = checksum(Words(0))
  BY <1>2, SumTyped
<1>4. /\ Words(c) \in Seq(Word) /\ Len(Words(c)) = 7 /\ Words(c)[2] = c
      /\ \A n \in 1 .. 7 : n # 2 => Words(c)[n] = Words(0)[n]
  BY WordsTyped
<1>5. checksum(Words(c)) = 0
  BY <1>2, <1>3, <1>4, ChecksumVerifies
<1> QED
  BY <1>3, <1>4, <1>5

LEMMA TypeStep ==
  ASSUME TypeOK, LoopInv, Next
  PROVE  TypeOK'
<1>1. CASE Start \/ NextProbe
  BY <1>1 DEF Start, NextProbe, TypeOK, netVars
<1>2. CASE NextHop
  BY <1>2 DEF NextHop, TypeOK, netVars
<1>3. CASE Finish \/ Fail
  <2>1. <<>> \in Seq([to : SUBSET Probes, from : 0 .. Dist])
    OBVIOUS
  <2> QED
    BY <1>3, <2>1 DEF Finish, Fail, Exit, TypeOK
<1>4. CASE Send
  <2>1. packet' \in Seq(0 .. UINT16 - 1)
    BY <1>4, SentPacket DEF Send, Word
  <2>2. Current \in Probes
    BY DEF Current, Probes, TypeOK
  <2> QED
    BY <1>4, <2>1, <2>2 DEF Send, TypeOK
<1>5. CASE Receive
  <2>1. /\ i < num_probes /\ i' = i + 1 /\ flag' \in BOOLEAN /\ wrong' \in BOOLEAN
        /\ inbox # <<>> /\ inbox' = Tail(inbox) /\ pc' = "hop"
        /\ UNCHANGED <<ttl, pid, packet, flight, foreign, timedOut>>
    BY <1>5 DEF Receive, LoopInv, TypeOK
  <2>2. inbox' \in Seq([to : SUBSET Probes, from : 0 .. Dist])
    BY <2>1 DEF TypeOK
  <2> QED
    BY <2>1, <2>2 DEF TypeOK
<1>6. CASE Timeout
  BY <1>6 DEF Timeout, LoopInv, TypeOK, netVars
<1>7. CASE network
  <2>1. inbox \in Seq(Message)
    BY DEF TypeOK, Message
  <2>2. inbox' \in Seq(Message)
    <3>1. \/ inbox' = inbox \/ \E p \in flight : inbox' = Append(inbox, Answer(p))
          \/ \E node \in {0, Dist} : inbox' = Append(inbox, Unasked(node))
      BY <1>7, NetworkFacts
    <3>2. \A p \in flight : p \in Probes
      BY DEF TypeOK
    <3>3. CASE \E p \in flight : inbox' = Append(inbox, Answer(p))
      <4>1. PICK p \in flight : inbox' = Append(inbox, Answer(p))
        BY <3>3
      <4>2. Answer(p) \in Message
        BY <3>2, MessageFacts
      <4> QED
        BY <2>1, <4>1, <4>2
    <3>4. CASE \E node \in {0, Dist} : inbox' = Append(inbox, Unasked(node))
      <4>1. PICK node \in {0, Dist} : inbox' = Append(inbox, Unasked(node))
        BY <3>4
      <4>2. Unasked(node) \in Message
        BY MessageFacts
      <4> QED
        BY <2>1, <4>1, <4>2
    <3> QED
      BY <2>1, <3>1, <3>3, <3>4
  <2>3. flight' \subseteq Probes /\ foreign' \in 0 .. MaxForeign
    BY <1>7, NetworkFacts DEF TypeOK
  <2>4. UNCHANGED <<pc, ttl, i, flag, pid, packet, timedOut, wrong>>
    BY <1>7, NetworkFacts
  <2> QED
    BY <2>2, <2>3, <2>4 DEF TypeOK, Message
<1> QED
  BY <1>1, <1>2, <1>3, <1>4, <1>5, <1>6, <1>7 DEF Next, main

LEMMA LoopStep ==
  ASSUME TypeOK, LoopInv, Next
  PROVE  LoopInv'
<1>1. CASE Start \/ NextProbe \/ NextHop \/ Send \/ Receive \/ Timeout
  BY <1>1 DEF Start, NextProbe, NextHop, Send, Receive, Timeout, LoopInv
<1>2. CASE Finish \/ Fail
  BY <1>2 DEF Finish, Fail, Exit, LoopInv
<1>3. CASE network
  BY <1>3, NetworkFacts DEF LoopInv
<1> QED
  BY <1>1, <1>2, <1>3 DEF Next, main

LEMMA OneStep ==
  ASSUME TypeOK, OneUnderWay, Next
  PROVE  OneUnderWay'
<1> SUFFICES ASSUME ~timedOut', foreign' = 0
             PROVE  /\ ~wrong'
                    /\ pc' # "recv" => flight' = {} /\ inbox' = <<>>
                    /\ pc' = "recv" =>
                         \/ flight' \subseteq {Current'} /\ inbox' = <<>>
                         \/ flight' = {} /\ inbox' = <<Answer(Current')>>
  BY DEF OneUnderWay, Answer, Current
<1>1. CASE Start \/ NextProbe \/ NextHop
  BY <1>1 DEF Start, NextProbe, NextHop, OneUnderWay, netVars
<1>2. CASE Finish \/ Fail
  BY <1>2 DEF Finish, Fail, Exit, OneUnderWay
<1>3. CASE Send
  BY <1>3 DEF Send, OneUnderWay, Current
<1>4. CASE Receive
  <2>1. ~wrong /\ flight = {} /\ inbox = <<Answer(Current)>>
    BY <1>4 DEF Receive, OneUnderWay
  <2>2. Head(inbox) = Answer(Current) /\ Tail(inbox) = <<>>
    BY <2>1
  <2>3. Current \in Head(inbox).to
    BY <2>2 DEF Answer
  <2> QED
    BY <1>4, <2>1, <2>2, <2>3 DEF Receive
<1>5. CASE Timeout
  BY <1>5 DEF Timeout
<1>6. CASE network
  <2>1. ~timedOut /\ foreign = 0 /\ UNCHANGED <<pc, ttl, i, wrong>> /\ Current' = Current
    BY <1>6, NetworkFacts DEF TypeOK, Current
  <2>2. PICK p \in flight : /\ flight' = flight \ {p}
                            /\ inbox' = Append(inbox, Answer(p)) \/ inbox' = inbox
    BY <1>6, <2>1, NetworkFacts
  <2>3. pc = "recv" /\ ~wrong /\ flight = {Current} /\ inbox = <<>> /\ p = Current
    BY <2>1, <2>2 DEF OneUnderWay
  <2>4. flight' = {} /\ (inbox' = <<Answer(Current)>> \/ inbox' = <<>>)
    BY <2>2, <2>3
  <2> QED
    BY <2>1, <2>3, <2>4
<1> QED
  BY <1>1, <1>2, <1>3, <1>4, <1>5, <1>6 DEF Next, main

LEMMA NotBeforeStep ==
  ASSUME TypeOK, NotBefore, Next
  PROVE  NotBefore'
<1> SUFFICES ASSUME foreign' = 0
             PROVE  /\ flag' => ttl' >= Dist
                    /\ \A p \in flight' : p.ttl <= ttl'
                    /\ \A n \in 1 .. Len(inbox') : inbox'[n].from = Dist => ttl' >= Dist
  BY DEF NotBefore
<1>1. CASE Start \/ NextProbe
  BY <1>1 DEF Start, NextProbe, NotBefore, netVars
<1>2. CASE NextHop
  <2>1. \A p \in flight : p.ttl \in Int
    BY DEF TypeOK, Probes
  <2> QED
    BY <1>2, <2>1 DEF NextHop, NotBefore, TypeOK, netVars
<1>3. CASE Finish \/ Fail
  BY <1>3 DEF Finish, Fail, Exit, NotBefore
<1>4. CASE Send
  BY <1>4 DEF Send, NotBefore, Current, TypeOK
<1>5. CASE Receive
  <2>1. /\ inbox # <<>> /\ inbox' = Tail(inbox) /\ ttl' = ttl /\ flight' = flight
        /\ foreign' = foreign /\ flag' = (flag \/ Head(inbox).from = Dist)
    BY <1>5 DEF Receive
  <2>2. /\ Len(inbox) \in Nat /\ Len(inbox) >= 1 /\ Head(inbox) = inbox[1]
        /\ Len(inbox') = Len(inbox) - 1
        /\ \A n \in 1 .. Len(inbox) - 1 : inbox'[n] = inbox[n + 1]
    BY <2>1 DEF TypeOK
  <2>3. \A n \in 1 .. Len(inbox) : inbox[n].from = Dist => ttl >= Dist
    BY <2>1 DEF NotBefore
  <2>4. ASSUME flag' PROVE ttl >= Dist
    <3>1. CASE flag
      BY <2>1, <3>1 DEF NotBefore
    <3>2. CASE Head(inbox).from = Dist
      <4>1. 1 \in 1 .. Len(inbox)
        BY <2>2
      <4> QED
        BY <2>2, <2>3, <3>2, <4>1
    <3> QED
      BY <2>1, <2>4, <3>1, <3>2
  <2>5. \A n \in 1 .. Len(inbox') : inbox'[n].from = Dist => ttl >= Dist
    <3> TAKE n \in 1 .. Len(inbox')
    <3>1. n + 1 \in 1 .. Len(inbox) /\ inbox'[n] = inbox[n + 1]
      BY <2>2
    <3> QED
      BY <2>3, <3>1
  <2> QED
    BY <2>1, <2>4, <2>5 DEF NotBefore
<1>6. CASE Timeout
  BY <1>6 DEF Timeout, NotBefore, netVars
<1>7. CASE network
  <2>1. foreign = 0 /\ ttl' = ttl /\ flag' = flag
    BY <1>7, NetworkFacts DEF TypeOK
  <2>2. PICK p \in flight : /\ flight' = flight \ {p}
                            /\ inbox' = Append(inbox, Answer(p)) \/ inbox' = inbox
    BY <1>7, <2>1, NetworkFacts DEF TypeOK
  <2>3. p.ttl \in Nat /\ p.ttl <= ttl /\ Len(inbox) \in Nat /\ ttl \in Nat
    BY <2>1 DEF NotBefore, TypeOK, Probes
  <2>4. Answer(p).from = Dist => ttl >= Dist
    BY <2>3 DEF Answer
  <2>5. \A n \in 1 .. Len(inbox) : inbox[n].from = Dist => ttl >= Dist
    BY <2>1 DEF NotBefore
  <2>6. \A n \in 1 .. Len(inbox') : inbox'[n].from = Dist => ttl >= Dist
    <3>1. CASE inbox' = inbox
      BY <2>5, <3>1
    <3>2. CASE inbox' = Append(inbox, Answer(p))
      <4>1. inbox \in Seq(Message) /\ Answer(p) \in Message
        BY MessageFacts DEF TypeOK, Message
      <4>2. /\ Len(inbox') = Len(inbox) + 1 /\ inbox'[Len(inbox) + 1] = Answer(p)
            /\ \A n \in 1 .. Len(inbox) : inbox'[n] = inbox[n]
        BY <3>2, <4>1, AppendProperties
      <4>3. \A n \in 1 .. Len(inbox') : n \in 1 .. Len(inbox) \/ n = Len(inbox) + 1
        BY <2>3, <4>2
      <4> QED
        BY <2>4, <2>5, <4>2, <4>3
    <3> QED
      BY <2>2, <3>1, <3>2
  <2> QED
    BY <2>1, <2>2, <2>6 DEF NotBefore
<1> QED
  BY <1>1, <1>2, <1>3, <1>4, <1>5, <1>6, <1>7 DEF Next, main

LEMMA NotBeyondStep ==
  ASSUME TypeOK, OneUnderWay, NotBeyond, Next
  PROVE  NotBeyond'
<1> SUFFICES ASSUME ~timedOut', foreign' = 0, num_probes > 0
             PROVE  /\ ttl' <= Dist
                    /\ i' > 0 /\ ttl' >= Dist => flag'
  BY DEF NotBeyond
<1>1. CASE Start \/ NextProbe \/ Send
  BY <1>1 DEF Start, NextProbe, Send, NotBeyond, netVars
<1>2. CASE NextHop
  <2>1. /\ ~timedOut /\ foreign = 0 /\ i >= num_probes /\ ~flag /\ ttl' = ttl + 1 /\ i' = 0
        /\ i \in Nat /\ ttl \in Nat
    BY <1>2 DEF NextHop, TypeOK, netVars
  <2>2. ttl < Dist
    BY <2>1 DEF NotBeyond
  <2> QED
    BY <2>1, <2>2
<1>3. CASE Finish \/ Fail
  BY <1>3 DEF Finish, Fail, Exit, NotBeyond
<1>4. CASE Receive
  <2>1. /\ ~timedOut /\ foreign = 0 /\ pc = "recv" /\ inbox # <<>> /\ ttl' = ttl
        /\ flag' = (flag \/ Head(inbox).from = Dist)
    BY <1>4 DEF Receive
  <2>2. inbox = <<Answer(Current)>>
    BY <2>1 DEF OneUnderWay
  <2>3. Head(inbox).from = IF ttl < Dist THEN ttl ELSE Dist
    BY <2>2 DEF Answer, Current
  <2>4. ttl <= Dist /\ ttl \in Nat
    BY <2>1 DEF NotBeyond, TypeOK
  <2>5. ASSUME ttl' >= Dist PROVE flag'
    <3>1. Head(inbox).from = Dist
      BY <2>1, <2>3, <2>4, <2>5
    <3> QED
      BY <2>1, <3>1
  <2> QED
    BY <2>1, <2>4, <2>5
<1>5. CASE Timeout
  BY <1>5 DEF Timeout
<1>6. CASE network
  BY <1>6, NetworkFacts DEF NotBeyond, TypeOK
<1> QED
  BY <1>1, <1>2, <1>3, <1>4, <1>5, <1>6 DEF Next, main

LEMMA PacketStep ==
  ASSUME TypeOK, PacketVerifies, Next
  PROVE  PacketVerifies'
<1>1. CASE Send
  BY <1>1, SentPacket DEF Send, PacketVerifies
<1>2. CASE Start \/ NextProbe \/ NextHop \/ Receive \/ Timeout
  BY <1>2 DEF Start, NextProbe, NextHop, Receive, Timeout, PacketVerifies
<1>3. CASE Finish \/ Fail
  BY <1>3 DEF Finish, Fail, Exit, PacketVerifies
<1>4. CASE network
  BY <1>4, NetworkFacts DEF PacketVerifies
<1> QED
  BY <1>1, <1>2, <1>3, <1>4 DEF Next, main

-----------------------------------------------------------------------------
LEMMA InitIInv == Init => IInv
<1> SUFFICES ASSUME Init PROVE IInv
  OBVIOUS
<1>1. <<>> \in Seq(0 .. UINT16 - 1) /\ <<>> \in Seq([to : SUBSET Probes, from : 0 .. Dist])
  OBVIOUS
<1>2. TypeOK
  <2>1. ttl \in 1 .. MaxHops /\ i \in 0 .. num_probes /\ foreign \in 0 .. MaxForeign
    BY DEF Init
  <2>2. flight \subseteq Probes /\ packet \in Seq(0 .. UINT16 - 1)
    BY <1>1 DEF Init
  <2>3. inbox \in Seq([to : SUBSET Probes, from : 0 .. Dist])
    BY <1>1 DEF Init
  <2> QED
    BY <2>1, <2>2, <2>3 DEF Init, TypeOK
<1>3. LoopInv /\ OneUnderWay /\ NotBefore /\ NotBeyond /\ PacketVerifies
  BY DEF Init, LoopInv, OneUnderWay, NotBefore, NotBeyond, PacketVerifies
<1> QED
  BY <1>2, <1>3 DEF IInv

LEMMA NextIInv == IInv /\ [Next]_vars => IInv'
<1> SUFFICES ASSUME IInv, [Next]_vars PROVE IInv'
  OBVIOUS
<1>1. CASE Next
  BY <1>1, TypeStep, LoopStep, OneStep, NotBeforeStep, NotBeyondStep, PacketStep DEF IInv
<1>2. CASE UNCHANGED vars
  <2>1. /\ pc' = pc /\ ttl' = ttl /\ i' = i /\ flag' = flag /\ pid' = pid /\ packet' = packet
        /\ flight' = flight /\ inbox' = inbox /\ foreign' = foreign
        /\ timedOut' = timedOut /\ wrong' = wrong /\ Current' = Current
    BY <1>2 DEF vars, netVars, Current
  <2>2. TypeOK' /\ LoopInv' /\ NotBefore' /\ NotBeyond' /\ PacketVerifies'
    BY <2>1 DEF IInv, TypeOK, LoopInv, NotBefore, NotBeyond, PacketVerifies
  <2>3. OneUnderWay'
    BY <2>1 DEF IInv, OneUnderWay, Answer
  <2> QED
    BY <2>2, <2>3 DEF IInv
<1> QED
  BY <1>1, <1>2

LEMMA Invariance == Spec => []IInv
<1> QED
  BY InitIInv, NextIInv, PTL DEF Spec

(***************************************************************************)
(* The variables of pingnetinfo.c keep their types: the hop never passes   *)
(* the count of the outer loop, nor a packet's words their width.          *)
(***************************************************************************)
THEOREM ProbeTypeCorrect == Spec => []TypeOK
<1>1. IInv => TypeOK
  BY DEF IInv
<1> QED
  BY <1>1, Invariance, PTL

(***************************************************************************)
(* As long as nothing has timed out and no stranger has written, the       *)
(* message that pingnetinfo.c measures answers the probe it has just sent. *)
(***************************************************************************)
THEOREM MessagesMatched == Spec => []MatchedUntilTimeout
<1>1. IInv => MatchedUntilTimeout
  BY DEF IInv, TypeOK, OneUnderWay, MatchedUntilTimeout
<1> QED
  BY <1>1, Invariance, PTL

(***************************************************************************)
(* Without strangers the loop of pingnetinfo.c does not stop before the    *)
(* destination's hop, and if nothing times out it stops there, or at the   *)
(* last hop it counts to.                                                  *)
(***************************************************************************)
THEOREM StopsThere == Spec => []StopsAtDestination
<1>1. ASSUME IInv PROVE StopsAtDestination
  <2>1. flag /\ foreign = 0 => ttl >= Dist
    BY <1>1 DEF IInv, NotBefore
  <2>2. ASSUME pc = "done", ~timedOut, foreign = 0, num_probes > 0
        PROVE  ttl = IF Dist < MaxHops THEN Dist ELSE MaxHops
    <3>1. /\ ttl \in Nat /\ ttl <= MaxHops /\ i \in Nat /\ i > 0
          /\ flag \/ ttl = MaxHops
      BY <1>1, <2>2 DEF IInv, TypeOK, LoopInv
    <3>2. ttl <= Dist /\ (ttl >= Dist => flag)
      BY <1>1, <2>2, <3>1 DEF IInv, NotBeyond
    <3> QED
      BY <2>1, <2>2, <3>1, <3>2
  <2> QED
    BY <2>1, <2>2 DEF StopsAtDestination
<1> QED
  BY <1>1, Invariance, PTL

(***************************************************************************)
(* Every packet that pingnetinfo.c sends has a checksum its receiver       *)
(* accepts, whatever the process number and the number of the probe: the   *)
(* carries of seven words are gone after two foldings.                     *)
(***************************************************************************)
THEOREM PacketsVerify == Spec => []PacketVerifies
<1>1. IInv => PacketVerifies
  BY DEF IInv
<1> QED
  BY <1>1, Invariance, PTL
=============================================================================
