-------------------------- MODULE HttpServerProofs --------------------------
(***************************************************************************)
(* For any number of children, any files and any requests: what a child of *)
(* MyHTTP.c stores and sends is right as long as no other writes into its  *)
(* file, and the pieces of a PUT stay in order whatever the others do.     *)
(***************************************************************************)
EXTENDS HttpServer, SequenceTheorems, TLAPS

USE ServerAssumption

-----------------------------------------------------------------------------
(***************************************************************************)
(* Sequences of pieces.                                                    *)
(***************************************************************************)
\* A part of what c sends holds the pieces it names, in their order.
LEMMA PartFacts ==
  ASSUME NEW c \in Child \union {Disk}, NEW i \in Nat \ {0}, NEW j \in Nat, i <= j + 1
  PROVE  /\ Part(c, i, j) \in Seq(Piece)
         /\ Len(Part(c, i, j)) = j - i + 1
         /\ \A k \in 1 .. j - i + 1 :
              Part(c, i, j)[k].by = c /\ Part(c, i, j)[k].no = i + k - 1
<1> DEFINE m == j - i + 1
<1>1. m \in Nat
  OBVIOUS
<1>2. \A k \in 1 .. m : [by |-> c, no |-> i + k - 1] \in Piece
  <2> SUFFICES ASSUME NEW k \in 1 .. m PROVE [by |-> c, no |-> i + k - 1] \in Piece
    OBVIOUS
  <2>1. i + k - 1 \in Nat \ {0}
    BY <1>1
  <2> QED
    BY <2>1 DEF Piece
<1>3. Part(c, i, j) = [k \in 1 .. m |-> [by |-> c, no |-> i + k - 1]]
  BY DEF Part
<1> HIDE DEF m
<1> DEFINE f == Part(c, i, j)
<1>4. f \in [1 .. m -> Piece] /\ DOMAIN f = 1 .. m
  BY <1>2, <1>3
<1>5. \A k \in 1 .. m : f[k] = [by |-> c, no |-> i + k - 1]
  BY <1>3
<1> HIDE DEF f
<1>6. f \in Seq(Piece)
  BY <1>1, <1>4, SeqDef
<1>7. Len(f) = m
  <2>1. Len(f) \in Nat /\ 1 .. Len(f) = 1 .. m
    BY <1>4, <1>6, LenProperties
  <2> QED
    BY <1>1, <2>1
<1>8. ASSUME NEW k \in 1 .. m PROVE f[k].by = c /\ f[k].no = i + k - 1
  <2>1. f[k] = [by |-> c, no |-> i + k - 1]
    BY <1>5
  <2>2. \A x : [by |-> c, no |-> x].by = c /\ [by |-> c, no |-> x].no = x
    OBVIOUS
  <2> QED
    BY <2>1, <2>2
<1>9. m = j - i + 1
  BY DEF m
<1> QED
  BY <1>6, <1>7, <1>8, <1>9 DEF f

\* Two parts, one of which begins where the other ends, are one part.
LEMMA PartsJoin ==
  ASSUME NEW c \in Child, NEW g \in Nat, NEW n \in Nat, g <= n
  PROVE  Part(c, 1, g) \o Part(c, g + 1, n) = Part(c, 1, n)
<1> DEFINE s == Part(c, 1, g)
           t == Part(c, g + 1, n)
           u == Part(c, 1, n)
<1>1. s \in Seq(Piece) /\ Len(s) = g
  <2>1. /\ c \in Child \union {Disk} /\ 1 \in Nat \ {0} /\ 1 <= g + 1
    OBVIOUS
  <2>2. g - 1 + 1 = g
    OBVIOUS
  <2> QED
    BY <2>1, <2>2, PartFacts
<1>2. t \in Seq(Piece) /\ Len(t) = n - g
  <2>1. /\ c \in Child \union {Disk} /\ g + 1 \in Nat \ {0} /\ g + 1 <= n + 1
    OBVIOUS
  <2>2. n - (g + 1) + 1 = n - g
    OBVIOUS
  <2> QED
    BY <2>1, <2>2, PartFacts
<1>3. u \in Seq(Piece) /\ Len(u) = n
  <2>1. /\ c \in Child \union {Disk} /\ 1 \in Nat \ {0} /\ 1 <= n + 1
    OBVIOUS
  <2>2. n - 1 + 1 = n
    OBVIOUS
  <2> QED
    BY <2>1, <2>2, PartFacts
<1>4. /\ \A k \in 1 .. g : s[k] = [by |-> c, no |-> k]
      /\ \A k \in 1 .. n - g : t[k] = [by |-> c, no |-> g + k]
      /\ \A k \in 1 .. n : u[k] = [by |-> c, no |-> k]
  <2>1. \A k \in 1 .. n - g : g + 1 + k - 1 = g + k /\ k \in 1 .. (n - (g + 1) + 1)
    OBVIOUS
  <2> QED
    BY <2>1 DEF Part
<1> HIDE DEF s, t, u
<1>5. /\ s \o t \in Seq(Piece) /\ Len(s \o t) = Len(s) + Len(t)
      /\ \A k \in 1 .. Len(s) + Len(t) :
           (s \o t)[k] = IF k <= Len(s) THEN s[k] ELSE t[k - Len(s)]
  BY <1>1, <1>2, ConcatProperties
<1>6. Len(s \o t) = n /\ \A k \in 1 .. n : (s \o t)[k] = u[k]
  <2>1. Len(s) + Len(t) = n
    BY <1>1, <1>2
  <2>2. ASSUME NEW k \in 1 .. n PROVE (s \o t)[k] = u[k]
    <3>1. CASE k <= g
      <4>1. k \in 1 .. g
        BY <3>1
      <4>2. (s \o t)[k] = s[k]
        BY <1>1, <1>5, <2>1, <3>1
      <4> QED
        BY <1>4, <4>1, <4>2
    <3>2. CASE ~(k <= g)
      <4>1. k - g \in 1 .. n - g /\ g + (k - g) = k
        BY <3>2
      <4>2. t[k - g] = [by |-> c, no |-> k]
        BY <1>4, <4>1
      <4>3. (s \o t)[k] = t[k - g]
        BY <1>1, <1>5, <2>1, <3>2
      <4> QED
        BY <1>4, <4>2, <4>3
    <3> QED
      BY <3>1, <3>2
  <2> QED
    BY <1>5, <2>1, <2>2
<1>7. s \o t = u
  BY <1>3, <1>5, <1>6, SeqEqual
<1> QED
  BY <1>7 DEF s, t, u

\* What fclose writes at the beginning of a file covers what is there, and
\* leaves what is behind it.
LEMMA OverFacts ==
  ASSUME NEW s \in Seq(Piece), NEW new \in Seq(Piece)
  PROVE  /\ Over(s, new) \in Seq(Piece)
         /\ Len(Over(s, new)) = IF Len(new) <= Len(s) THEN Len(s) ELSE Len(new)
         /\ \A k \in 1 .. Len(Over(s, new)) :
              Over(s, new)[k] = IF k <= Len(new) THEN new[k] ELSE s[k]
         /\ s = <<>> => Over(s, new) = new
<1> DEFINE n == Len(new)
           rest == SubSeq(s, n + 1, Len(s))
<1>1. n \in Nat /\ Len(s) \in Nat
  BY LenProperties
<1>2. \A k \in n + 1 .. Len(s) : s[k] \in Piece
  BY <1>1, ElementOfSeq
<1>3. /\ rest \in Seq(Piece)
      /\ Len(rest) = IF n + 1 <= Len(s) THEN Len(s) - n ELSE 0
      /\ \A k \in 1 .. Len(s) - n : rest[k] = s[n + k]
  <2>1. /\ rest \in Seq(Piece)
        /\ Len(rest) = IF n + 1 <= Len(s) THEN Len(s) - (n + 1) + 1 ELSE 0
        /\ \A k \in 1 .. Len(s) - (n + 1) + 1 : rest[k] = s[(n + 1) + k - 1]
    <3>1. n + 1 \in Int /\ Len(s) \in Int
      BY <1>1
    <3> HIDE DEF n
    <3> QED
      BY <1>2, <3>1, SubSeqProperties
  <2> QED
    BY <1>1, <2>1
<1> HIDE DEF rest, n
<1>4. Over(s, new) = new \o rest
  BY DEF Over, rest, n
<1>5. /\ new \o rest \in Seq(Piece) /\ Len(new \o rest) = n + Len(rest)
      /\ \A k \in 1 .. n + Len(rest) :
           (new \o rest)[k] = IF k <= n THEN new[k] ELSE rest[k - n]
  BY <1>3, ConcatProperties DEF n
<1>6. Len(Over(s, new)) = IF n <= Len(s) THEN Len(s) ELSE n
  BY <1>1, <1>3, <1>4, <1>5
<1>7. ASSUME NEW k \in 1 .. Len(Over(s, new))
      PROVE  Over(s, new)[k] = IF k <= n THEN new[k] ELSE s[k]
  <2>1. CASE k <= n
    BY <1>1, <1>3, <1>4, <1>5, <2>1
  <2>2. CASE ~(k <= n)
    <3>1. k - n \in 1 .. Len(s) - n /\ n + (k - n) = k /\ k \in 1 .. n + Len(rest)
      BY <1>1, <1>3, <1>6, <2>2
    <3> QED
      BY <1>3, <1>4, <1>5, <2>2, <3>1
  <2> QED
    BY <2>1, <2>2
<1>8. ASSUME s = <<>> PROVE Over(s, new) = new
  <2>1. Len(s) < n + 1 /\ Len(s) \in Int /\ n + 1 \in Int
    BY <1>1, <1>8
  <2>2. rest = <<>>
    BY <2>1, SubSeqEmpty DEF rest
  <2> QED
    BY <1>4, <2>2, ConcatEmptySeq
<1> QED
  BY <1>4, <1>5, <1>6, <1>7, <1>8 DEF n

-----------------------------------------------------------------------------
(***************************************************************************)
(* A step of one child, as the others see it.                              *)
(***************************************************************************)
Frame(c) ==
  /\ TypeOK' /\ request' = request
  /\ \A d \in Child : d # c => /\ pc'[d] = pc[d] /\ got'[d] = got[d]
                               /\ declared'[d] = declared[d] /\ sent'[d] = sent[d]
  /\ pc[c] # "ended" /\ (pc'[c] = "read" => pc[c] \in {"date", "read"})
  /\ got[c] <= got'[c]
  /\ \A p \in Path : store[p] # None => store'[p] # None
  /\ Meets(c)

\* The types that the steps of one child rest on.
LEMMA RequestFacts ==
  ASSUME TypeOK, NEW c \in Child
  PROVE  /\ request[c] \in Requests /\ PathOf(c) \in Path
         /\ request[c].pieces \in Nat
         /\ File(c) \in Seq(Piece) \union {None}
         /\ got[c] \in Nat /\ first[c] \in Nat /\ declared[c] \in Nat
         /\ sent[c] \in Seq(Piece)
         /\ got[c] <= request[c].pieces /\ first[c] <= request[c].pieces
         /\ Youngest(c) \in Nat /\ got[c] <= Youngest(c)
<1>1. request[c] \in Requests /\ got[c] \in Nat /\ first[c] \in Nat
  BY DEF TypeOK
<1>2. request[c] \in
        [method : {"GET", "PUT", "other"}, path : Path, length : Nat, pieces : Nat]
  BY <1>1
<1>3. PathOf(c) \in Path /\ request[c].pieces \in Nat
  BY <1>2 DEF PathOf
<1>4. File(c) \in Seq(Piece) \union {None}
  BY <1>3 DEF File, TypeOK
<1>5. got[c] <= request[c].pieces /\ first[c] <= request[c].pieces
  BY DEF TypeOK
<1>6. Youngest(c) \in Nat /\ got[c] <= Youngest(c)
  BY <1>1, <1>3, <1>5 DEF Youngest
<1> QED
  BY <1>1, <1>3, <1>4, <1>5, <1>6 DEF TypeOK

\* A child whose file another has written to while it used it knows by clash.
LEMMA ClashFacts ==
  ASSUME TypeOK, NEW c \in Child, Meets(c), NEW d \in Child
  PROVE  /\ clash[d] => clash'[d]
         /\ d = c => clash'[d] = clash[d]
         /\ d # c /\ ~clash'[d] /\ Uses(d) => store'[PathOf(d)] = store[PathOf(d)]
<1>1. clash[d] \in BOOLEAN
  BY DEF TypeOK
<1>2. clash'[d] = (clash[d] \/ (d # c /\ Uses(d) /\ store'[PathOf(d)] # store[PathOf(d)]))
  BY DEF Meets
<1> QED
  BY <1>1, <1>2, Zenon

\* What d knows of its file outlives a step of c: either the file is the same,
\* or d has met another.
LEMMA OthersKeep ==
  ASSUME TypeOK, NEW c \in Child, Frame(c), NEW d \in Child, d # c,
         PutInv(d), GetInv(d)
  PROVE  PutInv(d)' /\ GetInv(d)'
<1>1. /\ request'[d] = request[d] /\ pc'[d] = pc[d] /\ got'[d] = got[d]
      /\ declared'[d] = declared[d] /\ sent'[d] = sent[d]
  BY DEF Frame
<1>2. PathOf(d) \in Path /\ PathOf(d)' = PathOf(d)
  BY <1>1, RequestFacts DEF PathOf
<1>3. Asks(d, "PUT")' = Asks(d, "PUT") /\ Asks(d, "GET")' = Asks(d, "GET")
  BY <1>1 DEF Asks
<1>4. File(d) # None => File(d)' # None
  BY <1>2 DEF Frame, File
<1>5. ~clash'[d] => ~clash[d] /\ (Uses(d) => File(d)' = File(d))
  BY <1>2, ClashFacts DEF Frame, File
<1>6. PutInv(d)'
  <2>1. SUFFICES ASSUME pc[d] \in {"write", "receive", "respond"} PROVE PutInv(d)'
    BY <1>1 DEF PutInv
  <2>2. Asks(d, "PUT") /\ File(d) # None /\ Uses(d)
    BY <2>1 DEF PutInv, Uses
  <2>3. ~clash'[d] => File(d)' = Part(d, 1, got'[d])
    BY <1>1, <1>5, <2>1, <2>2 DEF PutInv
  <2> QED
    BY <1>1, <1>3, <1>4, <2>1, <2>2, <2>3 DEF PutInv
<1>7. GetInv(d)'
  <2>1. pc[d] \in {"date", "read"} => Uses(d)
    BY DEF GetInv, Uses, Asks
  <2>2. pc[d] \in {"date", "read"} /\ ~clash'[d] => declared'[d] = Len(File(d)')
    BY <1>1, <1>5, <2>1 DEF GetInv
  <2> QED
    BY <1>1, <1>3, <1>4, <1>5, <2>2 DEF GetInv
<1> QED
  BY <1>6, <1>7

-----------------------------------------------------------------------------
(***************************************************************************)
(* What a step of c does to a file: a piece of the new content is the old  *)
(* one at its place, or one of c that is younger than all that c has       *)
(* written before.                                                         *)
(***************************************************************************)
Renewed(c, lo, hi, s, t) ==
  /\ t \in Seq(Piece) /\ Ascends(t)
  /\ \A k \in 1 .. Len(t) :
       \/ k \in 1 .. Len(s) /\ t[k] = s[k]
       \/ t[k].by = c /\ lo < t[k].no /\ t[k].no <= hi

Content(p) == IF store[p] = None THEN <<>> ELSE store[p]

Writes(c) ==
  \A p \in Path :
    \/ store'[p] = store[p]
    \/ Renewed(c, Youngest(c), Youngest(c)', Content(p), store'[p])

\* The fields of a piece that is in a file.
LEMMA PieceFacts ==
  ASSUME NEW s \in Seq(Piece), NEW k \in 1 .. Len(s)
  PROVE  s[k] \in Piece /\ s[k].by \in Child \union {Disk} /\ s[k].no \in Nat
<1>1. s[k] \in Piece
  BY ElementOfSeq
<1> QED
  BY <1>1 DEF Piece

\* No step makes the youngest piece of any child older.
LEMMA YoungestGrows ==
  ASSUME TypeOK, NEW c \in Child, Frame(c), NEW d \in Child
  PROVE  /\ Youngest(d) \in Nat /\ Youngest(d)' \in Nat /\ Youngest(d) <= Youngest(d)'
         /\ d # c => Youngest(d)' = Youngest(d)
<1>1. Youngest(d) \in Nat
  BY RequestFacts
<1>2. /\ got'[d] \in Nat /\ request'[d] = request[d]
      /\ got'[d] <= request[d].pieces /\ request[d].pieces \in Nat
  <2>1. request[d].pieces \in Nat
    BY RequestFacts
  <2>2. got'[d] \in Nat /\ got'[d] <= request'[d].pieces
    BY DEF Frame, TypeOK
  <2> QED
    BY <2>1, <2>2 DEF Frame
<1>3. CASE d = c
  <2>1. Youngest(d) = got[d] /\ got[d] \in Nat /\ got[d] <= got'[d]
    BY <1>3, RequestFacts DEF Frame, Youngest
  <2> QED
    BY <1>1, <1>2, <1>3, <2>1 DEF Youngest
<1>4. CASE d # c
  <2>1. pc'[d] = pc[d] /\ got'[d] = got[d]
    BY <1>4 DEF Frame
  <2>2. Youngest(d)' = Youngest(d)
    BY <1>2, <2>1 DEF Youngest
  <2> QED
    BY <1>1, <2>2
<1> QED
  BY <1>3, <1>4

\* A bound on the pieces of c may be raised.
LEMMA UpToGrows ==
  ASSUME NEW s \in Seq(Piece), NEW c, NEW m \in Nat, NEW n \in Nat, m <= n, UpTo(s, c, m)
  PROVE  UpTo(s, c, n)
<1> SUFFICES ASSUME NEW k \in 1 .. Len(s), s[k].by = c PROVE s[k].no <= n
  BY DEF UpTo
<1>1. s[k].no \in Nat /\ s[k].no <= m
  BY PieceFacts DEF UpTo
<1> QED
  BY <1>1

\* A file stays in order when c writes what is younger at its end or over its
\* beginning.
LEMMA StoreKept ==
  ASSUME TypeOK, NEW c \in Child, Frame(c), Writes(c), NEW p \in Path, StoreInv(p)
  PROVE  StoreInv(p)'
<1> SUFFICES ASSUME store'[p] # None
             PROVE  /\ Ascends(store'[p])
                    /\ \A d \in Child : UpTo(store'[p], d, Youngest(d)')
  BY DEF StoreInv
<1>1. CASE store'[p] = store[p]
  <2>1. store[p] \in Seq(Piece) /\ Ascends(store[p])
    BY <1>1 DEF StoreInv, TypeOK
  <2>2. ASSUME NEW d \in Child PROVE UpTo(store[p], d, Youngest(d)')
    <3>1. UpTo(store[p], d, Youngest(d))
      BY <1>1 DEF StoreInv
    <3> QED
      BY <2>1, <3>1, YoungestGrows, UpToGrows
  <2> QED
    BY <1>1, <2>1, <2>2
<1>2. CASE Renewed(c, Youngest(c), Youngest(c)', Content(p), store'[p])
  <2> DEFINE t == store'[p]
  <2>1. t \in Seq(Piece) /\ Ascends(t)
    BY <1>2 DEF Renewed
  <2>2. ASSUME NEW d \in Child, NEW k \in 1 .. Len(t), t[k].by = d
        PROVE  t[k].no <= Youngest(d)'
    <3>1. CASE k \in 1 .. Len(Content(p)) /\ t[k] = Content(p)[k]
      <4>1. store[p] # None
        BY <3>1, EmptySeq DEF Content
      <4>2. k \in 1 .. Len(store[p]) /\ t[k] = store[p][k]
        BY <3>1, <4>1 DEF Content
      <4>3. t[k].no <= Youngest(d)
        BY <2>2, <4>1, <4>2 DEF StoreInv, UpTo
      <4>4. t[k].no \in Nat
        BY <2>1, PieceFacts
      <4> QED
        BY <4>3, <4>4, YoungestGrows
    <3>2. CASE t[k].by = c /\ t[k].no <= Youngest(c)'
      BY <2>2, <3>2
    <3> QED
      BY <1>2, <3>1, <3>2 DEF Renewed
  <2> QED
    BY <2>1, <2>2 DEF UpTo
<1> QED
  BY <1>1, <1>2 DEF Writes

\* An answer stays in order, and its file goes on after it, when c writes to
\* that file.
LEMMA SentKept ==
  ASSUME TypeOK, NEW c \in Child, Frame(c), Writes(c),
         NEW d \in Child, GetInv(d), SentInv(d), sent'[d] = sent[d]
  PROVE  SentInv(d)'
<1>1. sent[d] \in Seq(Piece) /\ Ascends(sent[d])
  BY DEF TypeOK, SentInv
<1>2. ASSUME NEW e \in Child PROVE UpTo(sent[d], e, Youngest(e)')
  <2>1. UpTo(sent[d], e, Youngest(e))
    BY DEF SentInv
  <2> QED
    BY <1>1, <2>1, YoungestGrows, UpToGrows
<1>3. ASSUME pc'[d] = "read" PROVE Follows(sent[d], File(d)')
  <2>1. CASE sent[d] = <<>>
    <3>1. Len(sent[d]) = 0
      BY <2>1, EmptySeq
    <3> QED
      BY <3>1 DEF Follows
  <2>2. CASE sent[d] # <<>>
    <3>1. pc[d] = "read"
      BY <1>3, <2>2 DEF Frame, GetInv
    <3>2. Follows(sent[d], File(d)) /\ File(d) # None
      BY <3>1 DEF SentInv, GetInv
    <3>3. PathOf(d) \in Path /\ File(d)' = store'[PathOf(d)]
      BY RequestFacts DEF Frame, File, PathOf
    <3>4. CASE store'[PathOf(d)] = store[PathOf(d)]
      BY <3>2, <3>3, <3>4 DEF File
    <3>5. CASE Renewed(c, Youngest(c), Youngest(c)', Content(PathOf(d)), File(d)')
      <4> DEFINE u == sent[d]
                 t == File(d)'
      <4>1. Content(PathOf(d)) = File(d)
        BY <3>2 DEF Content, File
      <4>2. SUFFICES ASSUME NEW j \in 1 .. Len(u), NEW k \in Len(u) + 1 .. Len(t),
                            u[j].by = t[k].by
                     PROVE  u[j].no < t[k].no
        BY DEF Follows
      <4>3. Len(u) \in Nat /\ t \in Seq(Piece) /\ Len(t) \in Nat
        BY <1>1, <3>5, LenProperties DEF Renewed
      <4>4. k \in 1 .. Len(t)
        BY <4>3
      <4>5. u[j].no \in Nat /\ t[k].no \in Nat
        BY <1>1, <4>3, <4>4, PieceFacts
      <4>6. CASE k \in 1 .. Len(File(d)) /\ t[k] = File(d)[k]
        <5>1. k \in Len(u) + 1 .. Len(File(d))
          <6>1. Len(File(d)) \in Nat
            BY <3>2, RequestFacts, LenProperties
          <6> QED
            BY <4>3, <4>6, <6>1
        <5> QED
          BY <3>2, <4>2, <4>6, <5>1 DEF Follows
      <4>7. CASE t[k].by = c /\ Youngest(c) < t[k].no
        <5>1. u[j].no <= Youngest(c)
          BY <4>2, <4>7 DEF SentInv, UpTo
        <5>2. Youngest(c) \in Nat
          BY RequestFacts
        <5> QED
          BY <4>5, <4>7, <5>1, <5>2
      <4> QED
        BY <3>5, <4>1, <4>4, <4>6, <4>7 DEF Renewed
    <3> QED
      BY <3>3, <3>4, <3>5 DEF Writes
  <2> QED
    BY <2>1, <2>2
<1> QED
  BY <1>1, <1>2, <1>3 DEF SentInv

\* What is left to show of a step of c: what c knows of its own file.
LEMMA WholeStep ==
  ASSUME IInv, NEW c \in Child, Frame(c), Writes(c), PutInv(c)', GetInv(c)',
         sent'[c] = sent[c] \/ SentInv(c)'
  PROVE  IInv'
<1>1. TypeOK /\ TypeOK'
  BY DEF IInv, Frame
<1>2. ASSUME NEW d \in Child PROVE PutInv(d)' /\ GetInv(d)'
  <2>1. CASE d = c
    BY <2>1
  <2>2. CASE d # c
    BY <1>1, <2>2, OthersKeep DEF IInv
  <2> QED
    BY <2>1, <2>2
<1>3. ASSUME NEW d \in Child PROVE SentInv(d)'
  <2>1. CASE sent'[d] = sent[d]
    BY <1>1, <2>1, SentKept DEF IInv
  <2>2. CASE d = c /\ SentInv(c)'
    BY <2>2
  <2> QED
    BY <2>1, <2>2 DEF Frame
<1>4. ASSUME NEW p \in Path PROVE StoreInv(p)'
  BY <1>1, StoreKept DEF IInv
<1> QED
  BY <1>1, <1>2, <1>3, <1>4 DEF IInv

-----------------------------------------------------------------------------
(***************************************************************************)
(* The steps that touch no file and no count.                              *)
(***************************************************************************)
\* A step that only moves c on preserves the invariant if c then knows what
\* GetInv asks.
LEMMA QuietStep ==
  ASSUME IInv, NEW c \in Child, NEW from, NEW to,
         parent' \in {"starting", "accept", "exited"}, request' = request, Meets(c),
         Moves(c, from, to), UNCHANGED <<store, got, first, declared, sent>>,
         from # "ended",
         to \in {"header", "open", "read", "log", "failed", "ended"},
         to = "read" => from = "date", to = "header" => from = "connecting",
         GetInv(c)'
  PROVE  IInv'
<1>1. TypeOK'
  <2>1. pc' \in [Child -> {"connecting", "header", "open", "date", "read", "write",
                         "receive", "respond", "log", "failed", "ended"}]
    BY DEF IInv, TypeOK, Moves
  <2>2. clash' \in [Child -> BOOLEAN]
    BY DEF IInv, TypeOK, Meets
  <2> QED
    BY <2>1, <2>2 DEF IInv, TypeOK
<1>2. pc[c] = from /\ pc'[c] = to /\ \A d \in Child : d # c => pc'[d] = pc[d]
  BY DEF IInv, TypeOK, Moves
<1>3. got[c] <= got'[c]
  BY RequestFacts DEF IInv
<1>4. Frame(c)
  BY <1>1, <1>2, <1>3 DEF Frame
<1>5. Writes(c)
  BY DEF Writes
<1>6. PutInv(c)'
  BY <1>2 DEF PutInv, IInv
<1> QED
  BY <1>4, <1>5, <1>6, WholeStep

\* What a quiet step of c leaves as it is.
LEMMA QuietFacts ==
  ASSUME IInv, NEW c \in Child, NEW from, NEW to, request' = request, Meets(c),
         Moves(c, from, to), UNCHANGED <<store, got, first, declared, sent>>
  PROVE  /\ pc[c] = from /\ pc'[c] = to
         /\ clash'[c] = clash[c] /\ sent'[c] = sent[c] /\ declared'[c] = declared[c]
         /\ File(c)' = File(c)
         /\ Asks(c, "GET")' = Asks(c, "GET") /\ Asks(c, "PUT")' = Asks(c, "PUT")
<1>1. pc[c] = from /\ pc'[c] = to
  BY DEF IInv, TypeOK, Moves
<1>2. clash'[c] = clash[c]
  BY ClashFacts DEF IInv
<1> QED
  BY <1>1, <1>2 DEF File, PathOf, Asks

\* Every way in which a child, or the connection, ends without a line in the log.
LEMMA ExitStep ==
  ASSUME IInv, NEW c \in Child, NEW from, parent' \in {"starting", "accept", "exited"},
         request' = request, Meets(c), Exits(c, from), from # "ended"
  PROVE  IInv'
<1>1. Moves(c, from, "ended") /\ UNCHANGED <<store, got, first, declared, sent>>
  BY DEF Exits
<1>2. GetInv(c)'
  BY <1>1, QuietFacts DEF GetInv
<1> QED
  BY <1>1, <1>2, QuietStep

\* accept and fork.
LEMMA AcceptStep ==
  ASSUME IInv, NEW c \in Child, request' = request, Meets(c), Accept(c)
  PROVE  IInv'
<1>1. /\ Moves(c, "connecting", "header") /\ UNCHANGED <<store, got, first, declared, sent>>
      /\ parent' \in {"starting", "accept", "exited"}
  BY DEF Accept, IInv, TypeOK
<1>2. GetInv(c)'
  BY <1>1, QuietFacts DEF GetInv, IInv
<1> QED
  BY <1>1, <1>2, QuietStep

\* stat: the file is there, or the answer is a header.
LEMMA StatStep ==
  ASSUME IInv, NEW c \in Child, request' = request, Meets(c), UNCHANGED parent, Stat(c)
  PROVE  IInv'
<1>1. parent' \in {"starting", "accept", "exited"}
  BY DEF IInv, TypeOK
<1>2. CASE Exits(c, "header")
  BY <1>1, <1>2, ExitStep
<1>3. CASE /\ File(c) # None /\ Moves(c, "header", "open")
           /\ UNCHANGED <<store, got, first, declared, sent>>
  <2>1. GetInv(c)'
    <3>1. Asks(c, "GET")
      BY DEF Stat
    <3> QED
      BY <1>3, <3>1, QuietFacts DEF GetInv, IInv
  <2> QED
    BY <1>1, <1>3, <2>1, QuietStep
<1> QED
  BY <1>2, <1>3 DEF Stat

\* The header goes out before the first fread.
LEMMA SendHeaderStep ==
  ASSUME IInv, NEW c \in Child, request' = request, Meets(c), UNCHANGED parent, SendHeader(c)
  PROVE  IInv'
<1>1. /\ Moves(c, "date", "read") /\ UNCHANGED <<store, got, first, declared, sent>>
      /\ parent' \in {"starting", "accept", "exited"}
  BY DEF SendHeader, IInv, TypeOK
<1>2. sent[c] = <<>> /\ Len(sent[c]) = 0 /\ declared[c] \in Nat
  BY <1>1, QuietFacts, RequestFacts, EmptySeq DEF GetInv, IInv
<1>3. Len(sent[c]) <= declared[c]
  BY <1>2
<1>4. GetInv(c)'
  BY <1>1, <1>3, QuietFacts DEF GetInv, IInv
<1> QED
  BY <1>1, <1>4, QuietStep

\* At the end of the file as much has been read as ftell announced.
LEMMA ReadEndStep ==
  ASSUME IInv, NEW c \in Child, request' = request, Meets(c), UNCHANGED parent, ReadEnd(c)
  PROVE  IInv'
<1>1. /\ Moves(c, "read", "log") /\ UNCHANGED <<store, got, first, declared, sent>>
      /\ parent' \in {"starting", "accept", "exited"}
  BY DEF ReadEnd, IInv, TypeOK
<1>2. /\ pc[c] = "read" /\ Asks(c, "GET") /\ File(c) # None
      /\ ~clash[c] => declared[c] = Len(File(c)) /\ Len(sent[c]) <= declared[c]
  BY <1>1, QuietFacts DEF GetInv, IInv
<1>3. /\ Len(sent[c]) >= Len(File(c)) /\ Len(sent[c]) \in Nat /\ Len(File(c)) \in Nat
  BY <1>2, RequestFacts, LenProperties DEF ReadEnd, IInv
<1>4. ~clash[c] => Len(sent[c]) = declared[c]
  BY <1>2, <1>3
<1>5. GetInv(c)'
  BY <1>1, <1>4, QuietFacts DEF GetInv
<1> QED
  BY <1>1, <1>5, QuietStep

\* send fails in the answer to a GET or a PUT.
LEMMA SendFailsStep ==
  ASSUME IInv, NEW c \in Child, request' = request, Meets(c), UNCHANGED parent, SendFails(c)
  PROVE  IInv'
<1>1. PICK from \in {"date", "read", "respond"} : Moves(c, from, "failed")
  BY DEF SendFails
<1>2. /\ UNCHANGED <<store, got, first, declared, sent>>
      /\ parent' \in {"starting", "accept", "exited"}
  BY DEF SendFails, IInv, TypeOK
<1>3. CASE from = "date"
  <2>1. sent[c] = <<>> /\ Len(sent[c]) = 0 /\ declared[c] \in Nat
    BY <1>1, <1>2, <1>3, QuietFacts, RequestFacts, EmptySeq DEF GetInv, IInv
  <2>2. Len(sent[c]) <= declared[c]
    BY <2>1
  <2>3. GetInv(c)'
    BY <1>1, <1>2, <1>3, <2>2, QuietFacts DEF GetInv
  <2> QED
    BY <1>1, <1>2, <2>3, QuietStep
<1>4. CASE from = "read"
  <2>1. Asks(c, "GET") /\ (~clash[c] => Len(sent[c]) <= declared[c])
    BY <1>1, <1>2, <1>4, QuietFacts DEF GetInv, IInv
  <2>2. GetInv(c)'
    BY <1>1, <1>2, <1>4, <2>1, QuietFacts DEF GetInv
  <2> QED
    BY <1>1, <1>2, <2>2, QuietStep
<1>5. CASE from = "respond"
  <2>1. ~Asks(c, "GET")
    BY <1>1, <1>2, <1>5, QuietFacts DEF PutInv, IInv, Asks
  <2>2. GetInv(c)'
    BY <1>1, <1>2, <2>1, QuietFacts DEF GetInv
  <2> QED
    BY <1>1, <1>2, <2>2, QuietStep
<1> QED
  BY <1>3, <1>4, <1>5

\* The answer to a PUT.
LEMMA RespondStep ==
  ASSUME IInv, NEW c \in Child, request' = request, Meets(c), UNCHANGED parent, Respond(c)
  PROVE  IInv'
<1>1. /\ Moves(c, "respond", "log") /\ UNCHANGED <<store, got, first, declared, sent>>
      /\ parent' \in {"starting", "accept", "exited"}
  BY DEF Respond, IInv, TypeOK
<1>2. ~Asks(c, "GET")
  BY <1>1, QuietFacts DEF PutInv, IInv, Asks
<1>3. GetInv(c)'
  BY <1>1, <1>2, QuietFacts DEF GetInv
<1> QED
  BY <1>1, <1>3, QuietStep

-----------------------------------------------------------------------------
(***************************************************************************)
(* The steps that write to a file.                                         *)
(***************************************************************************)
Fresh(c, lo, hi, x) ==
  /\ x \in Seq(Piece) /\ Ascends(x)
  /\ \A k \in 1 .. Len(x) : x[k].by = c /\ lo < x[k].no /\ x[k].no <= hi

\* What one chunk writes is younger than all that its child has written before.
LEMMA PartIsFresh ==
  ASSUME NEW c \in Child \union {Disk}, NEW i \in Nat, NEW j \in Nat, i <= j
  PROVE  Fresh(c, i, j, Part(c, i + 1, j))
<1> DEFINE x == Part(c, i + 1, j)
<1>1. /\ x \in Seq(Piece) /\ Len(x) = j - i
      /\ \A k \in 1 .. j - i : x[k].by = c /\ x[k].no = i + k
  <2>1. /\ c \in Child \union {Disk} /\ i + 1 \in Nat \ {0} /\ i + 1 <= j + 1
        /\ j - (i + 1) + 1 = j - i
    OBVIOUS
  <2>2. /\ x \in Seq(Piece) /\ Len(x) = j - i
        /\ \A k \in 1 .. j - i : x[k].by = c /\ x[k].no = (i + 1) + k - 1
    <3>1. /\ x \in Seq(Piece) /\ Len(x) = j - (i + 1) + 1
          /\ \A k \in 1 .. j - (i + 1) + 1 : x[k].by = c /\ x[k].no = (i + 1) + k - 1
      BY <2>1, PartFacts
    <3> QED
      BY <2>1, <3>1
  <2>3. \A k \in 1 .. j - i : (i + 1) + k - 1 = i + k
    OBVIOUS
  <2> HIDE DEF x
  <2> QED
    BY <2>2, <2>3
<1> HIDE DEF x
<1>2. Ascends(x)
  <2> SUFFICES ASSUME NEW k \in 1 .. Len(x), NEW l \in 1 .. Len(x), k < l
               PROVE  x[k].no < x[l].no
    BY DEF Ascends
  <2>1. x[k].no = i + k /\ x[l].no = i + l
    BY <1>1
  <2> QED
    BY <2>1
<1>3. ASSUME NEW k \in 1 .. Len(x) PROVE x[k].by = c /\ i < x[k].no /\ x[k].no <= j
  <2>1. x[k].by = c /\ x[k].no = i + k /\ k \in 1 .. j - i
    BY <1>1
  <2> QED
    BY <2>1
<1> QED
  BY <1>1, <1>2, <1>3 DEF Fresh, x

\* A write with "ab" renews the file.
LEMMA AppendRenews ==
  ASSUME NEW c \in Child, NEW lo \in Nat, NEW hi \in Nat, NEW s \in Seq(Piece),
         Ascends(s), UpTo(s, c, lo), NEW x, Fresh(c, lo, hi, x)
  PROVE  Renewed(c, lo, hi, s, s \o x)
<1> DEFINE t == s \o x
<1>1. /\ t \in Seq(Piece) /\ Len(t) = Len(s) + Len(x) /\ Len(s) \in Nat /\ Len(x) \in Nat
      /\ \A k \in 1 .. Len(t) : t[k] = IF k <= Len(s) THEN s[k] ELSE x[k - Len(s)]
  BY ConcatProperties, LenProperties DEF Fresh
<1> HIDE DEF t
<1>2. ASSUME NEW k \in 1 .. Len(t)
      PROVE  \/ k \in 1 .. Len(s) /\ t[k] = s[k]
             \/ /\ k - Len(s) \in 1 .. Len(x) /\ t[k] = x[k - Len(s)]
                /\ t[k].by = c /\ lo < t[k].no /\ t[k].no <= hi
  BY <1>1 DEF Fresh
<1>3. Ascends(t)
  <2> SUFFICES ASSUME NEW i \in 1 .. Len(t), NEW j \in 1 .. Len(t),
                      i < j, t[i].by = t[j].by
               PROVE  t[i].no < t[j].no
    BY DEF Ascends
  <2>1. t[i].no \in Nat /\ t[j].no \in Nat
    BY <1>1, PieceFacts
  <2>2. CASE j \in 1 .. Len(s)
    <3>1. i \in 1 .. Len(s) /\ t[i] = s[i] /\ t[j] = s[j]
      BY <1>1, <2>2
    <3> QED
      BY <2>2, <3>1 DEF Ascends
  <2>3. CASE i \in 1 .. Len(s) /\ j \notin 1 .. Len(s)
    <3>1. t[j].by = c /\ lo < t[j].no
      BY <1>2, <2>3
    <3>2. t[i] = s[i]
      BY <1>1, <2>3
    <3>3. t[i].no <= lo
      BY <2>3, <3>1, <3>2 DEF UpTo
    <3> QED
      BY <2>1, <3>1, <3>3
  <2>4. CASE i \notin 1 .. Len(s) /\ j \notin 1 .. Len(s)
    <3>1. /\ i - Len(s) \in 1 .. Len(x) /\ t[i] = x[i - Len(s)]
          /\ j - Len(s) \in 1 .. Len(x) /\ t[j] = x[j - Len(s)]
      BY <1>2, <2>4
    <3>2. i - Len(s) < j - Len(s)
      BY <1>1
    <3> QED
      BY <3>1, <3>2 DEF Fresh, Ascends
  <2> QED
    BY <2>2, <2>3, <2>4, <1>1
<1> QED
  BY <1>1, <1>2, <1>3 DEF Renewed, t

\* The first write, with "wb", renews a file that holds nothing of its child.
LEMMA OverRenews ==
  ASSUME NEW c \in Child, NEW hi \in Nat, NEW s \in Seq(Piece),
         Ascends(s), UpTo(s, c, 0), NEW x, Fresh(c, 0, hi, x)
  PROVE  Renewed(c, 0, hi, s, Over(s, x))
<1> DEFINE t == Over(s, x)
<1>1. /\ t \in Seq(Piece) /\ Len(s) \in Nat /\ Len(x) \in Nat
      /\ Len(t) = IF Len(x) <= Len(s) THEN Len(s) ELSE Len(x)
      /\ \A k \in 1 .. Len(t) : t[k] = IF k <= Len(x) THEN x[k] ELSE s[k]
  BY OverFacts, LenProperties DEF Fresh
<1> HIDE DEF t
<1>2. ASSUME NEW k \in 1 .. Len(t)
      PROVE  \/ k \notin 1 .. Len(x) /\ k \in 1 .. Len(s) /\ t[k] = s[k]
             \/ /\ k \in 1 .. Len(x) /\ t[k] = x[k]
                /\ t[k].by = c /\ 0 < t[k].no /\ t[k].no <= hi
  BY <1>1 DEF Fresh
<1>3. Ascends(t)
  <2> SUFFICES ASSUME NEW i \in 1 .. Len(t), NEW j \in 1 .. Len(t),
                      i < j, t[i].by = t[j].by
               PROVE  t[i].no < t[j].no
    BY DEF Ascends
  <2>1. t[i].no \in Nat /\ t[j].no \in Nat
    BY <1>1, PieceFacts
  <2>2. CASE j \in 1 .. Len(x)
    <3>1. i \in 1 .. Len(x) /\ t[i] = x[i] /\ t[j] = x[j]
      BY <1>1, <2>2
    <3> QED
      BY <2>2, <3>1 DEF Fresh, Ascends
  <2>3. CASE i \in 1 .. Len(x) /\ j \notin 1 .. Len(x)
    <3>1. t[i].by = c /\ j \in 1 .. Len(s) /\ t[j] = s[j]
      BY <1>2, <2>3
    <3>2. t[j].no <= 0
      BY <3>1 DEF UpTo
    <3>3. s[j] \in Piece
      BY <3>1, PieceFacts
    <3>4. t[j].no # 0
      BY <3>1, <3>3 DEF Piece
    <3> QED
      BY <2>1, <3>2, <3>4
  <2>4. CASE i \notin 1 .. Len(x) /\ j \notin 1 .. Len(x)
    <3>1. /\ i \in 1 .. Len(s) /\ t[i] = s[i] /\ j \in 1 .. Len(s) /\ t[j] = s[j]
      BY <1>2, <2>4
    <3> QED
      BY <3>1 DEF Ascends
  <2> QED
    BY <2>2, <2>3, <2>4, <1>1
<1> QED
  BY <1>1, <1>2, <1>3 DEF Renewed, t

\* A step of c that renews a file preserves the invariant if c then knows what
\* PutInv asks.
LEMMA WritingStep ==
  ASSUME IInv, NEW c \in Child, NEW from, NEW to, NEW p \in Path, NEW t,
         UNCHANGED <<parent, request, declared, sent>>, Meets(c),
         Moves(c, from, to), from # "ended",
         to \in {"write", "receive", "respond", "ended"},
         to = "ended" \/ from \in {"header", "write", "receive"},
         store' = [store EXCEPT ![p] = t],
         got' \in [Child -> Nat], first' \in [Child -> Nat],
         \A d \in Child : d # c => got'[d] = got[d] /\ first'[d] = first[d],
         got[c] <= got'[c], got'[c] <= request[c].pieces, first'[c] <= request[c].pieces,
         Renewed(c, got[c], Youngest(c)', Content(p), t),
         PutInv(c)'
  PROVE  IInv'
<1>1. pc[c] = from /\ pc'[c] = to /\ \A d \in Child : d # c => pc'[d] = pc[d]
  BY DEF IInv, TypeOK, Moves
<1>2. TypeOK'
  <2>1. pc' \in [Child -> {"connecting", "header", "open", "date", "read", "write",
                         "receive", "respond", "log", "failed", "ended"}]
    BY DEF IInv, TypeOK, Moves
  <2>2. clash' \in [Child -> BOOLEAN]
    BY DEF IInv, TypeOK, Meets
  <2>3. store' \in [Path -> Seq(Piece) \union {None}]
    BY DEF IInv, TypeOK, Renewed
  <2>4. ASSUME NEW d \in Child
        PROVE  got'[d] <= request'[d].pieces /\ first'[d] <= request'[d].pieces
    BY DEF IInv, TypeOK
  <2> QED
    BY <2>1, <2>2, <2>3, <2>4 DEF IInv, TypeOK
<1>3. /\ store'[p] = t /\ t # None
      /\ \A q \in Path : q # p => store'[q] = store[q]
  BY DEF IInv, TypeOK, Renewed
<1>4. Frame(c)
  BY <1>1, <1>2, <1>3 DEF Frame
<1>5. Writes(c)
  <2>1. Youngest(c) = got[c]
    BY <1>1 DEF Youngest
  <2> QED
    BY <1>3, <2>1 DEF Writes
<1>6. GetInv(c)'
  <2>1. CASE to = "ended"
    BY <1>1, <2>1 DEF GetInv
  <2>2. CASE to # "ended"
    BY <1>1, <2>2 DEF GetInv, IInv
  <2> QED
    BY <2>1, <2>2
<1> QED
  BY <1>4, <1>5, <1>6, WholeStep

\* What a step of c leaves of its request, and of what it knows of others.
LEMMA SameRequest ==
  ASSUME IInv, NEW c \in Child, request' = request, Meets(c)
  PROVE  /\ clash'[c] = clash[c] /\ PathOf(c)' = PathOf(c)
         /\ File(c)' = store'[PathOf(c)]
         /\ Asks(c, "GET")' = Asks(c, "GET") /\ Asks(c, "PUT")' = Asks(c, "PUT")
<1>1. clash'[c] = clash[c]
  BY ClashFacts DEF IInv
<1> QED
  BY <1>1 DEF File, PathOf, Asks

\* Before the first piece there is nothing.
LEMMA NoParts ==
  ASSUME NEW c \in Child
  PROVE  Part(c, 1, 0) = <<>>
<1>1. Part(c, 1, 0) \in Seq(Piece) /\ Len(Part(c, 1, 0)) = 0
  <2>1. c \in Child \union {Disk} /\ 1 \in Nat \ {0} /\ 1 <= 0 + 1 /\ 0 - 1 + 1 = 0 /\ 0 \in Nat
    OBVIOUS
  <2> QED
    BY <2>1, PartFacts
<1> QED
  BY <1>1, EmptySeq

\* fopen with "wb" empties the file.
LEMMA TruncateStep ==
  ASSUME IInv, NEW c \in Child, UNCHANGED <<parent, request>>, Meets(c), Truncate(c)
  PROVE  IInv'
<1>1. /\ Moves(c, "header", "write") /\ Asks(c, "PUT")
      /\ store' = [store EXCEPT ![PathOf(c)] = <<>>]
      /\ UNCHANGED <<got, declared, sent>>
  BY DEF Truncate
<1>2. PICK n \in 0 .. request[c].pieces : first' = [first EXCEPT ![c] = n]
  BY DEF Truncate
<1>3. /\ PathOf(c) \in Path /\ request[c].pieces \in Nat /\ got[c] \in Nat
      /\ got[c] <= request[c].pieces
  BY RequestFacts DEF IInv
<1>4. /\ got' \in [Child -> Nat] /\ first' \in [Child -> Nat]
      /\ \A d \in Child : d # c => got'[d] = got[d] /\ first'[d] = first[d]
      /\ got[c] <= got'[c] /\ got'[c] <= request[c].pieces
      /\ first'[c] <= request[c].pieces
  BY <1>1, <1>2, <1>3 DEF IInv, TypeOK
<1>5. Renewed(c, got[c], Youngest(c)', Content(PathOf(c)), <<>>)
  BY EmptySeq DEF Renewed, Ascends
<1>6. PutInv(c)'
  <2>1. pc[c] = "header" /\ pc'[c] = "write" /\ got[c] = 0 /\ got'[c] = 0
    BY <1>1 DEF IInv, TypeOK, Moves, PutInv
  <2>2. File(c)' = <<>>
    BY <1>1, <1>3, SameRequest DEF IInv, TypeOK
  <2>3. <<>> # None
    BY EmptySeq
  <2> QED
    BY <1>1, <2>1, <2>2, <2>3, NoParts, SameRequest DEF PutInv
<1> QED
  BY <1>1, <1>3, <1>4, <1>5, <1>6, WritingStep

\* fclose writes what came with the header.
LEMMA WriteFirstStep ==
  ASSUME IInv, NEW c \in Child, UNCHANGED <<parent, request>>, Meets(c), WriteFirst(c)
  PROVE  IInv'
<1> DEFINE x == Part(c, 1, first[c])
<1>1. /\ Moves(c, "write", "receive")
      /\ store' = [store EXCEPT ![PathOf(c)] = Over(File(c), x)]
      /\ got' = [got EXCEPT ![c] = first[c]]
      /\ UNCHANGED <<first, declared, sent>>
  BY DEF WriteFirst, File
<1>2. /\ PathOf(c) \in Path /\ request[c].pieces \in Nat
      /\ first[c] \in Nat /\ first[c] <= request[c].pieces
  BY RequestFacts DEF IInv
<1>3. pc[c] = "write" /\ pc'[c] = "receive" /\ got[c] = 0
  BY <1>1 DEF IInv, TypeOK, Moves, PutInv
<1>4. /\ Asks(c, "PUT") /\ File(c) # None
      /\ ~clash[c] => File(c) = <<>>
  BY <1>3, NoParts DEF IInv, PutInv
<1>5. /\ File(c) \in Seq(Piece) /\ Ascends(File(c)) /\ UpTo(File(c), c, 0)
      /\ Content(PathOf(c)) = File(c)
  <2>1. File(c) \in Seq(Piece) /\ Content(PathOf(c)) = File(c)
    BY <1>4, RequestFacts DEF IInv, Content, File
  <2>2. Ascends(File(c)) /\ UpTo(File(c), c, Youngest(c))
    BY <1>2, <1>4 DEF IInv, StoreInv, File
  <2>3. Youngest(c) = 0
    BY <1>3 DEF Youngest
  <2> QED
    BY <2>1, <2>2, <2>3
<1>6. Fresh(c, 0, first[c], x)
  <2>1. 0 \in Nat /\ 0 <= first[c] /\ 0 + 1 = 1
    BY <1>2
  <2> QED
    BY <1>2, <2>1, PartIsFresh
<1> HIDE DEF x
<1>7. /\ got' \in [Child -> Nat] /\ first' \in [Child -> Nat]
      /\ \A d \in Child : d # c => got'[d] = got[d] /\ first'[d] = first[d]
      /\ got'[c] = first[c] /\ got[c] <= got'[c] /\ got'[c] <= request[c].pieces
      /\ first'[c] <= request[c].pieces
  BY <1>1, <1>2, <1>3 DEF IInv, TypeOK
<1>8. Renewed(c, got[c], Youngest(c)', Content(PathOf(c)), Over(File(c), x))
  <2>1. Youngest(c)' = first[c]
    BY <1>3, <1>7 DEF Youngest
  <2> QED
    BY <1>2, <1>3, <1>5, <1>6, <2>1, OverRenews
<1>9. PutInv(c)'
  <2>1. File(c)' = Over(File(c), x) /\ Over(File(c), x) \in Seq(Piece)
    BY <1>1, <1>2, <1>8, SameRequest DEF IInv, TypeOK, Renewed
  <2>2. ~clash[c] => Over(File(c), x) = x
    BY <1>4, <1>5, <1>6, OverFacts DEF Fresh
  <2> QED
    BY <1>3, <1>4, <1>7, <2>1, <2>2, SameRequest DEF PutInv, x
<1> QED
  BY <1>1, <1>2, <1>7, <1>8, <1>9, WritingStep

\* A later chunk is appended.
LEMMA AppendChunkStep ==
  ASSUME IInv, NEW c \in Child, UNCHANGED <<parent, request>>, Meets(c), AppendChunk(c)
  PROVE  IInv'
<1>1. PICK n \in got[c] + 1 .. request[c].pieces :
        /\ Moves(c, "receive", IF n >= request[c].length THEN "respond" ELSE "receive")
        /\ store' = [store EXCEPT ![PathOf(c)] = @ \o Part(c, got[c] + 1, n)]
        /\ got' = [got EXCEPT ![c] = n]
        /\ UNCHANGED <<first, declared, sent>>
  BY DEF AppendChunk
<1> DEFINE to == IF n >= request[c].length THEN "respond" ELSE "receive"
           x == Part(c, got[c] + 1, n)
           t == File(c) \o x
<1>2. /\ PathOf(c) \in Path /\ request[c].pieces \in Nat
      /\ first[c] <= request[c].pieces
      /\ got[c] \in Nat /\ n \in Nat /\ got[c] <= n /\ n <= request[c].pieces
  BY <1>1, RequestFacts DEF IInv
<1>3. pc[c] = "receive" /\ pc'[c] = to
  BY <1>1 DEF IInv, TypeOK, Moves
<1>4. /\ Asks(c, "PUT") /\ File(c) # None
      /\ ~clash[c] => File(c) = Part(c, 1, got[c])
  BY <1>3 DEF IInv, PutInv
<1>5. /\ File(c) \in Seq(Piece) /\ Ascends(File(c)) /\ UpTo(File(c), c, got[c])
      /\ Content(PathOf(c)) = File(c)
  <2>1. File(c) \in Seq(Piece) /\ Content(PathOf(c)) = File(c)
    BY <1>4, RequestFacts DEF IInv, Content, File
  <2>2. Ascends(File(c)) /\ UpTo(File(c), c, Youngest(c))
    BY <1>2, <1>4 DEF IInv, StoreInv, File
  <2>3. Youngest(c) = got[c]
    BY <1>3 DEF Youngest
  <2> QED
    BY <2>1, <2>2, <2>3
<1>6. Fresh(c, got[c], n, x)
  BY <1>2, PartIsFresh
<1>7. ~clash[c] => t = Part(c, 1, n)
  BY <1>2, <1>4, PartsJoin
<1>8. store' = [store EXCEPT ![PathOf(c)] = t]
  BY <1>1 DEF File
<1> HIDE DEF x
<1>9. /\ got' \in [Child -> Nat] /\ first' \in [Child -> Nat]
      /\ \A d \in Child : d # c => got'[d] = got[d] /\ first'[d] = first[d]
      /\ got'[c] = n /\ got[c] <= got'[c] /\ got'[c] <= request[c].pieces
      /\ first'[c] <= request[c].pieces
  BY <1>1, <1>2 DEF IInv, TypeOK
<1>10. Renewed(c, got[c], Youngest(c)', Content(PathOf(c)), t)
  <2>1. Youngest(c)' = n
    BY <1>3, <1>9 DEF Youngest
  <2> QED
    BY <1>2, <1>5, <1>6, <2>1, AppendRenews
<1> HIDE DEF t
<1>11. PutInv(c)'
  <2>1. File(c)' = t /\ t \in Seq(Piece)
    BY <1>2, <1>8, <1>10, SameRequest DEF IInv, TypeOK, Renewed
  <2>2. request'[c].length = request[c].length
    OBVIOUS
  <2> QED
    BY <1>3, <1>4, <1>7, <1>9, <2>1, <2>2, SameRequest DEF PutInv
<1>12. /\ Moves(c, "receive", to) /\ to \in {"write", "receive", "respond", "ended"}
       /\ UNCHANGED <<parent, request, declared, sent>>
       /\ "receive" # "ended" /\ "receive" \in {"header", "write", "receive"}
  BY <1>1
<1> HIDE DEF to
<1> QED
  BY <1>2, <1>8, <1>9, <1>10, <1>11, <1>12, WritingStep

\* exit writes the line of the log, which a request may have named as its file.
LEMMA logRequestStep ==
  ASSUME IInv, NEW c \in Child, UNCHANGED <<parent, request>>, Meets(c), logRequest(c)
  PROVE  IInv'
<1> DEFINE x == <<[by |-> c, no |-> request[c].pieces + 1]>>
           t == Content(Log) \o x
<1>1. PICK from \in {"log", "failed"} : Moves(c, from, "ended")
  BY DEF logRequest
<1>2. store' = [store EXCEPT ![Log] = t] /\ UNCHANGED <<got, first, declared, sent>>
  BY DEF logRequest, Content, IInv, TypeOK
<1>3. /\ request[c].pieces \in Nat /\ got[c] \in Nat
      /\ got[c] <= request[c].pieces /\ first[c] <= request[c].pieces
  BY RequestFacts DEF IInv
<1>4. pc[c] = from /\ pc'[c] = "ended"
  BY <1>1 DEF IInv, TypeOK, Moves
<1>5. /\ Content(Log) \in Seq(Piece) /\ Ascends(Content(Log))
      /\ UpTo(Content(Log), c, got[c])
  <2>1. CASE store[Log] = None
    <3>1. Content(Log) = <<>> /\ Len(Content(Log)) = 0
      BY <2>1, EmptySeq DEF Content
    <3> QED
      BY <3>1, EmptySeq DEF Ascends, UpTo
  <2>2. CASE store[Log] # None
    <3>1. Content(Log) \in Seq(Piece) /\ Content(Log) = store[Log]
      BY <2>2 DEF Content, IInv, TypeOK
    <3>2. Youngest(c) = got[c]
      BY <1>1, <1>4 DEF Youngest
    <3> QED
      BY <2>2, <3>1, <3>2 DEF IInv, StoreInv
  <2> QED
    BY <2>1, <2>2
<1>6. Fresh(c, got[c], request[c].pieces + 1, x)
  <2> DEFINE l == [by |-> c, no |-> request[c].pieces + 1]
  <2>1. l \in Piece /\ l.by = c /\ l.no = request[c].pieces + 1
    BY <1>3 DEF Piece
  <2> HIDE DEF l
  <2>2. <<l>> \in Seq(Piece) /\ Len(<<l>>) = 1 /\ <<l>>[1] = l
    BY <2>1
  <2>3. Fresh(c, got[c], request[c].pieces + 1, <<l>>)
    BY <1>3, <2>1, <2>2 DEF Fresh, Ascends
  <2> QED
    BY <2>3 DEF l
<1> HIDE DEF x
<1>7. Renewed(c, got[c], Youngest(c)', Content(Log), t)
  <2>1. Youngest(c)' = request[c].pieces + 1 /\ request[c].pieces + 1 \in Nat
    BY <1>3, <1>4 DEF Youngest
  <2> QED
    BY <1>3, <1>5, <1>6, <2>1, AppendRenews
<1>8. PutInv(c)'
  BY <1>4 DEF PutInv
<1>9. /\ got' \in [Child -> Nat] /\ first' \in [Child -> Nat]
      /\ \A d \in Child : d # c => got'[d] = got[d] /\ first'[d] = first[d]
      /\ got[c] <= got'[c] /\ got'[c] <= request[c].pieces
      /\ first'[c] <= request[c].pieces
  BY <1>2, <1>3 DEF IInv, TypeOK
<1> HIDE DEF t
<1>10. /\ Log \in Path /\ from # "ended"
       /\ UNCHANGED <<parent, request, declared, sent>>
  BY <1>2
<1>11. store' = [store EXCEPT ![Log] = t]
  BY <1>2
<1> QED
  BY <1>1, <1>7, <1>8, <1>9, <1>10, <1>11, WritingStep

-----------------------------------------------------------------------------
(***************************************************************************)
(* The steps of a GET that count.                                          *)
(***************************************************************************)
\* ftell is the length of the file, as long as nobody writes to it.
LEMMA MeasureStep ==
  ASSUME IInv, NEW c \in Child, UNCHANGED <<parent, request>>, Meets(c), Measure(c)
  PROVE  IInv'
<1>1. /\ Moves(c, "open", "date") /\ declared' = [declared EXCEPT ![c] = Len(File(c))]
      /\ UNCHANGED <<store, got, first, sent>>
  BY DEF Measure
<1>2. /\ pc[c] = "open" /\ pc'[c] = "date" /\ \A d \in Child : d # c => pc'[d] = pc[d]
      /\ Asks(c, "GET") /\ File(c) # None /\ sent[c] = <<>>
  BY <1>1 DEF Moves, IInv, TypeOK, GetInv
<1>3. Len(File(c)) \in Nat
  BY <1>2, RequestFacts, LenProperties DEF IInv
<1>4. TypeOK'
  <2>1. pc' \in [Child -> {"connecting", "header", "open", "date", "read", "write",
                         "receive", "respond", "log", "failed", "ended"}]
    BY <1>1 DEF IInv, TypeOK, Moves
  <2>2. clash' \in [Child -> BOOLEAN]
    BY DEF IInv, TypeOK, Meets
  <2> QED
    BY <1>1, <1>3, <2>1, <2>2 DEF IInv, TypeOK
<1>5. declared'[c] = Len(File(c)) /\ \A d \in Child : d # c => declared'[d] = declared[d]
  BY <1>1 DEF IInv, TypeOK
<1>6. got[c] <= got'[c]
  BY <1>1, RequestFacts DEF IInv
<1>7. Frame(c)
  BY <1>1, <1>2, <1>4, <1>5, <1>6 DEF Frame
<1>8. Writes(c)
  BY <1>1 DEF Writes
<1>9. PutInv(c)'
  BY <1>2 DEF PutInv
<1>10. GetInv(c)'
  <2>1. File(c)' = File(c) /\ sent'[c] = sent[c]
    BY <1>1, SameRequest DEF File
  <2> QED
    BY <1>2, <1>5, <2>1, SameRequest DEF GetInv
<1> QED
  BY <1>1, <1>7, <1>8, <1>9, <1>10, WholeStep

\* fread goes on in the file, whatever the others have done to it.
LEMMA ReadOnStep ==
  ASSUME IInv, NEW c \in Child, UNCHANGED <<parent, request>>, Meets(c), ReadOn(c)
  PROVE  IInv'
<1> DEFINE s == File(c)
           u == sent[c]
<1>1. /\ Moves(c, "read", "read") /\ UNCHANGED <<store, got, first, declared>>
  BY DEF ReadOn
<1>2. PICK n \in Len(u) + 1 .. Len(s) :
        sent' = [sent EXCEPT ![c] = u \o SubSeq(s, Len(u) + 1, n)]
  BY DEF ReadOn
<1> DEFINE v == u \o SubSeq(s, Len(u) + 1, n)
<1>3. /\ pc[c] = "read" /\ pc'[c] = "read" /\ \A d \in Child : d # c => pc'[d] = pc[d]
      /\ Asks(c, "GET") /\ s # None
      /\ ~clash[c] => declared[c] = Len(s)
  BY <1>1 DEF Moves, IInv, TypeOK, GetInv
<1>4. /\ u \in Seq(Piece) /\ Ascends(u) /\ Follows(u, s)
      /\ \A d \in Child : UpTo(u, d, Youngest(d))
  BY <1>3 DEF IInv, TypeOK, SentInv
<1>5. /\ s \in Seq(Piece) /\ Ascends(s)
      /\ \A d \in Child : UpTo(s, d, Youngest(d))
  <2>1. PathOf(c) \in Path /\ s \in Seq(Piece)
    BY <1>3, RequestFacts DEF IInv
  <2> QED
    BY <1>3, <2>1 DEF IInv, StoreInv, File
<1>6. Len(u) \in Nat /\ Len(s) \in Nat /\ n \in Nat /\ Len(u) < n /\ n <= Len(s)
  <2>1. Len(u) \in Nat /\ Len(s) \in Nat
    BY <1>4, <1>5, LenProperties
  <2> HIDE DEF u, s
  <2> QED
    BY <1>2, <2>1
<1> HIDE DEF u, s
<1>7. /\ v \in Seq(Piece) /\ Len(v) = n
      /\ \A k \in 1 .. n : v[k] = IF k <= Len(u) THEN u[k] ELSE s[k]
  <2> DEFINE w == SubSeq(s, Len(u) + 1, n)
  <2>1. Len(u) + 1 \in Int /\ n \in Int /\ \A i \in Len(u) + 1 .. n : s[i] \in Piece
    <3>1. ASSUME NEW i \in Len(u) + 1 .. n PROVE s[i] \in Piece
      <4>1. i \in 1 .. Len(s)
        BY <1>6
      <4> QED
        BY <1>5, <4>1, ElementOfSeq
    <3> QED
      BY <1>6, <3>1
  <2>2. /\ w \in Seq(Piece)
        /\ Len(w) = IF Len(u) + 1 <= n THEN n - (Len(u) + 1) + 1 ELSE 0
        /\ \A i \in 1 .. n - (Len(u) + 1) + 1 : w[i] = s[(Len(u) + 1) + i - 1]
    BY <2>1, SubSeqProperties
  <2>3. Len(w) = n - Len(u) /\ \A i \in 1 .. n - Len(u) : w[i] = s[Len(u) + i]
    BY <1>6, <2>2
  <2> HIDE DEF w
  <2>4. /\ u \o w \in Seq(Piece) /\ Len(u \o w) = Len(u) + Len(w)
        /\ \A k \in 1 .. Len(u) + Len(w) :
             (u \o w)[k] = IF k <= Len(u) THEN u[k] ELSE w[k - Len(u)]
    BY <1>4, <2>2, ConcatProperties
  <2>5. ASSUME NEW k \in 1 .. n
        PROVE  (u \o w)[k] = IF k <= Len(u) THEN u[k] ELSE s[k]
    <3>1. CASE k <= Len(u)
      BY <1>6, <2>3, <2>4, <3>1
    <3>2. CASE ~(k <= Len(u))
      <4>1. k - Len(u) \in 1 .. n - Len(u) /\ Len(u) + (k - Len(u)) = k
        BY <1>6, <3>2
      <4> QED
        BY <1>6, <2>3, <2>4, <3>2, <4>1
    <3> QED
      BY <3>1, <3>2
  <2>6. Len(u \o w) = n
    BY <1>6, <2>3, <2>4
  <2> QED
    BY <2>4, <2>5, <2>6 DEF w
<1>8. /\ sent' \in [Child -> Seq(Piece)] /\ sent'[c] = v
      /\ \A d \in Child : d # c => sent'[d] = sent[d]
  BY <1>2, <1>7 DEF IInv, TypeOK, u
<1> HIDE DEF v
<1>9. TypeOK'
  <2>1. pc' \in [Child -> {"connecting", "header", "open", "date", "read", "write",
                         "receive", "respond", "log", "failed", "ended"}]
    BY <1>1 DEF IInv, TypeOK, Moves
  <2>2. clash' \in [Child -> BOOLEAN]
    BY DEF IInv, TypeOK, Meets
  <2> QED
    BY <1>1, <1>8, <2>1, <2>2 DEF IInv, TypeOK
<1>10. got[c] <= got'[c]
  BY <1>1, RequestFacts DEF IInv
<1>11. Frame(c)
  BY <1>1, <1>3, <1>8, <1>9, <1>10 DEF Frame
<1>12. Writes(c)
  BY <1>1 DEF Writes
<1>13. PutInv(c)'
  BY <1>3 DEF PutInv
<1>14. File(c)' = s
  BY <1>1, SameRequest DEF File, s
<1>15. GetInv(c)'
  <2>1. declared'[c] = declared[c] /\ (~clash[c] => Len(v) <= declared[c])
    BY <1>1, <1>3, <1>6, <1>7
  <2> QED
    BY <1>3, <1>8, <1>14, <2>1, SameRequest DEF GetInv
<1>16. SentInv(c)'
  <2>1. Ascends(v)
    <3> SUFFICES ASSUME NEW i \in 1 .. n, NEW j \in 1 .. n, i < j, v[i].by = v[j].by
                 PROVE  v[i].no < v[j].no
      BY <1>7 DEF Ascends
    <3>1. CASE j <= Len(u)
      <4>1. i \in 1 .. Len(u) /\ j \in 1 .. Len(u) /\ v[i] = u[i] /\ v[j] = u[j]
        BY <1>6, <1>7, <3>1
      <4> QED
        BY <1>4, <4>1 DEF Ascends
    <3>2. CASE i <= Len(u) /\ ~(j <= Len(u))
      <4>1. /\ i \in 1 .. Len(u) /\ j \in Len(u) + 1 .. Len(s)
            /\ v[i] = u[i] /\ v[j] = s[j]
        BY <1>6, <1>7, <3>2
      <4> QED
        BY <1>4, <4>1 DEF Follows
    <3>3. CASE ~(i <= Len(u)) /\ ~(j <= Len(u))
      <4>1. i \in 1 .. Len(s) /\ j \in 1 .. Len(s) /\ v[i] = s[i] /\ v[j] = s[j]
        BY <1>6, <1>7, <3>3
      <4> QED
        BY <1>5, <4>1 DEF Ascends
    <3>4. i \in Nat /\ j \in Nat /\ Len(u) \in Nat
      BY <1>6
    <3> QED
      BY <3>1, <3>2, <3>3, <3>4
  <2>2. ASSUME NEW d \in Child PROVE UpTo(v, d, Youngest(d)')
    <3>1. UpTo(v, d, Youngest(d))
      <4> SUFFICES ASSUME NEW k \in 1 .. n, v[k].by = d PROVE v[k].no <= Youngest(d)
        BY <1>7 DEF UpTo
      <4>1. CASE k <= Len(u)
        <5>1. k \in 1 .. Len(u) /\ v[k] = u[k]
          BY <1>6, <1>7, <4>1
        <5> QED
          BY <1>4, <5>1 DEF UpTo
      <4>2. CASE ~(k <= Len(u))
        <5>1. k \in 1 .. Len(s) /\ v[k] = s[k]
          BY <1>6, <1>7, <4>2
        <5> QED
          BY <1>5, <5>1 DEF UpTo
      <4> QED
        BY <4>1, <4>2
    <3>2. TypeOK
      BY DEF IInv
    <3> QED
      BY <1>7, <1>11, <3>1, <3>2, YoungestGrows, UpToGrows
  <2>3. Follows(v, s)
    <3> SUFFICES ASSUME NEW j \in 1 .. n, NEW k \in n + 1 .. Len(s), v[j].by = s[k].by
                 PROVE  v[j].no < s[k].no
      BY <1>7 DEF Follows
    <3>1. CASE j <= Len(u)
      <4>1. j \in 1 .. Len(u) /\ k \in Len(u) + 1 .. Len(s) /\ v[j] = u[j]
        BY <1>6, <1>7, <3>1
      <4> QED
        BY <1>4, <4>1 DEF Follows
    <3>2. CASE ~(j <= Len(u))
      <4>1. j \in 1 .. Len(s) /\ k \in 1 .. Len(s) /\ j < k /\ v[j] = s[j]
        BY <1>6, <1>7, <3>2
      <4> QED
        BY <1>5, <4>1 DEF Ascends
    <3> QED
      BY <3>1, <3>2
  <2> QED
    BY <1>8, <1>14, <2>1, <2>2, <2>3 DEF SentInv
<1> QED
  BY <1>11, <1>12, <1>13, <1>15, <1>16, WholeStep

-----------------------------------------------------------------------------
(***************************************************************************)
(* The theorems.                                                           *)
(***************************************************************************)
\* The files as the server finds them, and children not yet forked.
LEMMA InitIInv == Init => IInv
<1> SUFFICES ASSUME Init PROVE IInv
  OBVIOUS
<1> DEFINE old == Part(Disk, 1, 2)
<1>1. Fresh(Disk, 0, 2, old)
  <2>1. Disk \in Child \union {Disk} /\ 0 \in Nat /\ 2 \in Nat /\ 0 <= 2 /\ 0 + 1 = 1
    OBVIOUS
  <2> QED
    BY <2>1, PartIsFresh
<1> HIDE DEF old
<1>2. store \in [Path -> {None, old}]
  BY DEF Init, old
<1>3. old \in Seq(Piece) /\ Ascends(old) /\ \A c \in Child, n \in Nat : UpTo(old, c, n)
  BY <1>1 DEF Fresh, UpTo
<1>4. \A c \in Child : request[c].pieces \in Nat
  <2> SUFFICES ASSUME NEW c \in Child PROVE request[c].pieces \in Nat
    OBVIOUS
  <2>1. request[c] \in Requests
    BY DEF Init
  <2>2. request[c] \in
          [method : {"GET", "PUT", "other"}, path : Path, length : Nat, pieces : Nat]
    BY <2>1
  <2> QED
    BY <2>2
<1>5. TypeOK
  BY <1>2, <1>3, <1>4, EmptySeq DEF Init, TypeOK
<1>6. ASSUME NEW c \in Child PROVE PutInv(c) /\ GetInv(c)
  BY DEF Init, PutInv, GetInv
<1>7. ASSUME NEW c \in Child PROVE SentInv(c)
  <2>1. pc[c] = "connecting" /\ sent[c] = <<>> /\ Len(sent[c]) = 0
    BY EmptySeq DEF Init
  <2> QED
    BY <2>1 DEF SentInv, Ascends, UpTo
<1>8. ASSUME NEW p \in Path PROVE StoreInv(p)
  <2>1. \A c \in Child : Youngest(c) \in Nat
    BY <1>5, RequestFacts
  <2>2. store[p] # None => store[p] = old
    BY <1>2
  <2> QED
    BY <1>3, <2>1, <2>2 DEF StoreInv
<1> QED
  BY <1>5, <1>6, <1>7, <1>8 DEF IInv

\* Every step of the parent and of a child preserves the invariant.
LEMMA NextIInv == IInv /\ [Next]_vars => IInv'
<1> SUFFICES ASSUME IInv, [Next]_vars PROVE IInv'
  OBVIOUS
<1>1. CASE (Listen \/ ParentFails) /\ UNCHANGED <<request, clash>>
  BY <1>1 DEF Listen, ParentFails, IInv, TypeOK, PutInv, GetInv, StoreInv, SentInv,
              Youngest, File, PathOf, Asks
<1>2. ASSUME NEW c \in Child, Meets(c), UNCHANGED request,
             \/ Accept(c) \/ ForkFails(c)
             \/ (getRequest(c) \/ answer(c)) /\ UNCHANGED parent
      PROVE  IInv'
  <2> USE <1>2
  <2>0. parent \in {"starting", "accept", "exited"}
    BY DEF IInv, TypeOK
  <2>1. CASE Accept(c)
    BY <2>1, AcceptStep
  <2>2. CASE ForkFails(c)
    BY <2>0, <2>2, ExitStep DEF ForkFails
  <2>3. CASE getRequest(c) /\ UNCHANGED parent
    <3> USE <2>3
    <3>1. CASE BadRequest(c)
      BY <2>0, <3>1, ExitStep DEF BadRequest
    <3>2. CASE Stat(c)
      BY <3>2, StatStep
    <3>3. CASE Forbidden(c)
      BY <2>0, <3>3, ExitStep DEF Forbidden
    <3>4. CASE Truncate(c)
      BY <3>4, TruncateStep
    <3>5. CASE WriteFirst(c)
      BY <3>5, WriteFirstStep
    <3>6. CASE AppendChunk(c)
      BY <3>6, AppendChunkStep
    <3>7. CASE Disconnected(c)
      BY <2>0, <3>7, ExitStep DEF Disconnected
    <3> QED
      BY <3>1, <3>2, <3>3, <3>4, <3>5, <3>6, <3>7 DEF getRequest
  <2>4. CASE answer(c) /\ UNCHANGED parent
    <3> USE <2>4
    <3>1. CASE Measure(c)
      BY <3>1, MeasureStep
    <3>2. CASE CannotOpen(c)
      BY <2>0, <3>2, ExitStep DEF CannotOpen
    <3>3. CASE SendHeader(c)
      BY <3>3, SendHeaderStep
    <3>4. CASE ReadOn(c)
      BY <3>4, ReadOnStep
    <3>5. CASE ReadEnd(c)
      BY <3>5, ReadEndStep
    <3>6. CASE SendFails(c)
      BY <3>6, SendFailsStep
    <3>7. CASE Respond(c)
      BY <3>7, RespondStep
    <3>8. CASE logRequest(c)
      BY <3>8, logRequestStep
    <3>9. CASE Killed(c)
      BY <2>0, <3>9, ExitStep DEF Killed
    <3> QED
      BY <3>1, <3>2, <3>3, <3>4, <3>5, <3>6, <3>7, <3>8, <3>9 DEF answer
  <2> QED
    BY <2>1, <2>2, <2>3, <2>4
<1>3. CASE UNCHANGED vars
  BY <1>3 DEF vars, IInv, TypeOK, PutInv, GetInv, StoreInv, SentInv, Youngest,
              File, PathOf, Asks
<1> QED
  BY <1>1, <1>2, <1>3 DEF Next

\* What each child of MyHTTP.c knows of its file, and the order of the pieces in
\* the files and in the answers, hold in every reachable state.
THEOREM Invariance == Spec => []IInv
BY InitIInv, NextIInv, PTL DEF Spec

\* The variables of the parent, the children and the files have their types,
\* whatever length the clients announce.
THEOREM TypeCorrect == Spec => []TypeOK
<1>1. IInv => TypeOK
  BY DEF IInv
<1> QED
  BY <1>1, Invariance, PTL

\* A PUT into whose file no other child has written stores exactly what has been
\* received of it, and reaches the answer 200 only with at least as much stored as
\* was announced.
THEOREM PutAloneStores == Spec => []PutAlone
<1>1. IInv => PutAlone
  BY DEF IInv, PutInv, PutAlone
<1> QED
  BY <1>1, Invariance, PTL

\* The Content-Length of a GET is what its answer holds, if no other child has
\* written to the file between the ftell and the last fread.
THEOREM GetAloneMeasures == Spec => []GetAlone
<1>1. ASSUME IInv PROVE GetAlone
  BY <1>1 DEF IInv, GetInv, GetAlone
<1> QED
  BY <1>1, Invariance, PTL

\* Whatever the children write into the same file or the log, the pieces of one
\* PUT stay in the order in which they came, none of them twice, in every file and
\* in every answer.
THEOREM PiecesInOrder == Spec => []InOrder
<1>1. IInv => InOrder
  BY DEF IInv, StoreInv, SentInv, InOrder
<1> QED
  BY <1>1, Invariance, PTL
=============================================================================
