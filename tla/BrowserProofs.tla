--------------------------- MODULE BrowserProofs ---------------------------
(***************************************************************************)
(* Header and file of every command of MyBrowser.c arrive at MyHTTP.c, and *)
(* those of the answer at MyBrowser.c, as they were sent: for any number   *)
(* of commands, files of any content, any size of the chunks, and wherever *)
(* recv cuts the stream.  What arrives is what the user has typed, and     *)
(* what a PUT has stored is what a GET opens.                              *)
(***************************************************************************)
EXTENDS Browser, SequenceTheorems, FiniteSetTheorems, TLAPS

USE ExchangeAssumption

-----------------------------------------------------------------------------
(***************************************************************************)
(* Induction.  The theorems of the library have an operator as parameter,  *)
(* to which the provers cannot give a value; with a set in its place they  *)
(* can.                                                                    *)
(***************************************************************************)
\* A set of numbers has a least one: n stands for the finite set 0 .. n - 1,
\* and the inclusion of finite sets is well-founded.
LEMMA LeastNumber ==
  ASSUME NEW T, T \subseteq Nat, T # {}
  PROVE  \E x \in T : \A y \in T : x <= y
<1> DEFINE U == {0 .. n - 1 : n \in T}
           R == StrictSubsetOrdering(Nat)
           F == FiniteSubsetsOf(Nat)
<1>1. IsWellFoundedOn(R, F)
  BY FS_StrictSubsetOrderingWellFounded
<1>2. U \subseteq F
  <2> SUFFICES ASSUME NEW n \in T PROVE 0 .. n - 1 \in F
    OBVIOUS
  <2>1. IsFiniteSet(0 .. n - 1)
    BY FS_Interval
  <2> QED
    BY <2>1 DEF FiniteSubsetsOf
<1>3. U # {}
  OBVIOUS
<1>4. \E x \in U : \A y \in U : ~(<<y, x>> \in R)
  <2> HIDE DEF U, R, F
  <2> QED
    BY <1>1, <1>2, <1>3, WFMin
<1>5. PICK m \in T : \A y \in U : ~(<<y, 0 .. m - 1>> \in R)
  BY <1>4
<1>6. ASSUME NEW n \in T, ~(m <= n) PROVE FALSE
  <2>1. m \in Nat /\ n \in Nat /\ n < m
    BY <1>6
  <2>2. 0 .. n - 1 \subseteq 0 .. m - 1 /\ n \in 0 .. m - 1 /\ n \notin 0 .. n - 1
    BY <2>1
  <2>3. 0 .. n - 1 \in U
    OBVIOUS
  <2>4. <<0 .. n - 1, 0 .. m - 1>> \in R
    BY <2>1, <2>2 DEF StrictSubsetOrdering
  <2> QED
    BY <1>5, <2>3, <2>4
<1> QED
  BY <1>6

LEMMA SetInduction ==
  ASSUME NEW S, 0 \in S, \A n \in Nat : n \in S => n + 1 \in S
  PROVE  Nat \subseteq S
<1> SUFFICES ASSUME Nat \ S # {} PROVE FALSE
  OBVIOUS
<1> DEFINE T == Nat \ S
<1>1. PICK m \in T : \A y \in T : m <= y
  <2>1. T \subseteq Nat /\ T # {}
    OBVIOUS
  <2> HIDE DEF T
  <2> QED
    BY <2>1, LeastNumber
<1>2. m # 0 /\ m - 1 \in Nat /\ ~(m <= m - 1) /\ (m - 1) + 1 = m
  OBVIOUS
<1>3. m - 1 \in S
  BY <1>1, <1>2
<1> QED
  BY <1>2, <1>3

-----------------------------------------------------------------------------
(***************************************************************************)
(* The search for the blank line.                                          *)
(***************************************************************************)
\* Counts is the function that its definition describes.
LEMMA CountsIs ==
  ASSUME NEW cnt, NEW chunk, NEW m \in Nat, Len(chunk) = m
  PROVE  Counts(cnt, chunk) =
           [i \in 0 .. m |-> IF i = 0 THEN cnt ELSE Count(Counts(cnt, chunk)[i - 1], chunk[i])]
<1> DEFINE Fits(c, n) ==
             c = [i \in 0 .. n |-> IF i = 0 THEN cnt ELSE Count(c[i - 1], chunk[i])]
           S == {n \in Nat : \E c : Fits(c, n)}
<1>1. 0 \in S
  <2> DEFINE c == [i \in 0 .. 0 |-> cnt]
  <2>1. Fits(c, 0)
    OBVIOUS
  <2> QED
    BY <2>1
<1>2. ASSUME NEW n \in Nat, n \in S PROVE n + 1 \in S
  <2>1. PICK c : Fits(c, n)
    BY <1>2
  <2> DEFINE c2 == [i \in 0 .. n + 1 |-> IF i <= n THEN c[i] ELSE Count(c[n], chunk[i])]
  <2>2. \A i \in 0 .. n : c2[i] = c[i]
    OBVIOUS
  <2>3. \A i \in 0 .. n + 1 :
          c2[i] = IF i = 0 THEN cnt ELSE Count(c2[i - 1], chunk[i])
    <3> SUFFICES ASSUME NEW i \in 0 .. n + 1
                 PROVE  c2[i] = IF i = 0 THEN cnt ELSE Count(c2[i - 1], chunk[i])
      OBVIOUS
    <3>1. CASE i \in 0 .. n
      <4>1. i # 0 => i - 1 \in 0 .. n
        BY <3>1
      <4>2. c[i] = IF i = 0 THEN cnt ELSE Count(c[i - 1], chunk[i])
        BY <2>1, <3>1
      <4> HIDE DEF c2
      <4> QED
        BY <2>2, <3>1, <4>1, <4>2
    <3>2. CASE i = n + 1
      <4>1. c2[i] = Count(c[n], chunk[i]) /\ i - 1 = n /\ n \in 0 .. n /\ i # 0
        BY <3>2
      <4> HIDE DEF c2
      <4> QED
        BY <2>2, <4>1
    <3> QED
      BY <3>1, <3>2
  <2>4. Fits(c2, n + 1)
    BY <2>3
  <2>5. \E c3 : Fits(c3, n + 1)
    <3> HIDE DEF c2
    <3> QED
      BY <2>4
  <2>6. n + 1 \in Nat
    OBVIOUS
  <2> HIDE DEF Fits
  <2> QED
    BY <2>5, <2>6
<1>3. \A n \in Nat : n \in S
  <2> HIDE DEF S
  <2> QED
    BY <1>1, <1>2, SetInduction
<1>4. \E c : Fits(c, m)
  BY <1>3
<1> QED
  BY <1>4 DEF Counts

\* The value of cnt after i bytes of the header.
CntAt(i) == IF i \in {0, 1, 4} THEN 0 ELSE IF i = 7 THEN 2 ELSE 1

\* t are the bytes of s behind the first k.
Part(t, s, k) == k + Len(t) <= Len(s) /\ \A i \in 1 .. Len(t) : t[i] = s[k + i]

LEMMA HeaderIs ==
  /\ Header \in Seq(Bytes) /\ Len(Header) = 8
  /\ Header[1] = "c" /\ Header[2] = "r" /\ Header[3] = "n" /\ Header[4] = "c"
  /\ Header[5] = "r" /\ Header[6] = "n" /\ Header[7] = "r" /\ Header[8] = "n"
  BY DEF Header, Bytes

LEMMA CountHeader ==
  ASSUME NEW i \in 0 .. 6
  PROVE  Count(CntAt(i), Header[i + 1]) = CntAt(i + 1)
<1>1. i \in {0, 1, 2, 3, 4, 5, 6}
  OBVIOUS
<1> QED
  BY <1>1, HeaderIs DEF Count, CntAt

\* The chunk begins p bytes into the header.
InHeader(chunk, p) == \A j \in 1 .. Len(chunk) : p + j <= 8 => chunk[j] = Header[p + j]

LEMMA CountsOfHeader ==
  ASSUME NEW chunk, NEW m \in Nat, Len(chunk) = m, NEW p \in 0 .. 6,
         InHeader(chunk, p)
  PROVE  \A j \in 0 .. m : p + j <= 7 => Counts(CntAt(p), chunk)[j] = CntAt(p + j)
<1> DEFINE c == Counts(CntAt(p), chunk)
           S == {j \in Nat : j <= m /\ p + j <= 7 => c[j] = CntAt(p + j)}
<1>1. /\ c[0] = CntAt(p)
      /\ \A i \in 0 .. m : i # 0 => c[i] = Count(c[i - 1], chunk[i])
  BY CountsIs
<1>2. 0 \in S
  BY <1>1
<1>3. ASSUME NEW n \in Nat, n \in S PROVE n + 1 \in S
  <2> SUFFICES ASSUME n + 1 <= m, p + (n + 1) <= 7 PROVE c[n + 1] = CntAt(p + (n + 1))
    OBVIOUS
  <2>1. /\ n + 1 \in 0 .. m /\ n + 1 # 0 /\ (n + 1) - 1 = n /\ p + n \in 0 .. 6
        /\ n + 1 \in 1 .. m /\ p + (n + 1) = (p + n) + 1
    OBVIOUS
  <2>2. c[n] = CntAt(p + n)
    BY <1>3, <2>1
  <2>3. c[n + 1] = Count(c[n], chunk[n + 1])
    BY <1>1, <2>1
  <2>4. chunk[n + 1] = Header[(p + n) + 1]
    BY <2>1 DEF InHeader
  <2> HIDE DEF c
  <2> QED
    BY <2>1, <2>2, <2>3, <2>4, CountHeader
<1>4. \A j \in Nat : j \in S
  <2> HIDE DEF S
  <2> QED
    BY <1>2, <1>3, SetInduction
<1> QED
  BY <1>4

LEMMA HeaderBytesIs ==
  ASSUME NEW chunk, NEW m \in Nat, Len(chunk) = m, NEW p \in 0 .. 6,
         InHeader(chunk, p)
  PROVE  HeaderBytes(CntAt(p), chunk) = IF p + m < 7 THEN m ELSE 7 - p
<1> DEFINE c == Counts(CntAt(p), chunk)
           ends == {i \in 1 .. m : c[i] = 2}
<1>1. \A j \in 0 .. m : p + j <= 7 => c[j] = CntAt(p + j)
  BY CountsOfHeader
<1>2. \A j \in 1 .. m : p + j < 7 => j \notin ends
  BY <1>1 DEF CntAt
<1>3. CASE p + m < 7
  <2>1. ends = {}
    BY <1>2, <1>3
  <2> QED
    BY <1>3, <2>1 DEF HeaderBytes
<1>4. CASE ~(p + m < 7)
  <2>1. 7 - p \in 1 .. m /\ p + (7 - p) = 7
    BY <1>4
  <2>2. 7 - p \in ends
    BY <1>1, <2>1 DEF CntAt
  <2>3. \A j \in ends : 7 - p <= j
    BY <1>2
  <2> HIDE DEF ends
  <2>4. \A x \in ends : (\A y \in ends : x <= y) => x = 7 - p
    <3>1. \A x \in ends : x \in Int
      BY DEF ends
    <3> QED
      BY <2>2, <2>3, <3>1
  <2>5. Min(ends) = 7 - p
    BY <2>2, <2>3, <2>4 DEF Min
  <2> QED
    BY <1>4, <2>2, <2>5 DEF HeaderBytes, ends
<1> QED
  BY <1>3, <1>4

-----------------------------------------------------------------------------
(***************************************************************************)
(* Parts of a stream.                                                      *)
(***************************************************************************)
\* The first n bytes of a sequence, and the others.
LEMMA Cut ==
  ASSUME NEW t \in Seq(Bytes), NEW n \in 0 .. Len(t)
  PROVE  /\ SubSeq(t, 1, n) \in Seq(Bytes) /\ Len(SubSeq(t, 1, n)) = n
         /\ \A i \in 1 .. n : SubSeq(t, 1, n)[i] = t[i]
         /\ SubSeq(t, n + 1, Len(t)) \in Seq(Bytes)
         /\ Len(SubSeq(t, n + 1, Len(t))) = Len(t) - n
         /\ \A i \in 1 .. Len(t) - n : SubSeq(t, n + 1, Len(t))[i] = t[n + i]
<1>1. PICK m \in Nat : m = Len(t)
  OBVIOUS
<1>2. \A i \in 1 .. m : t[i] \in Bytes
  BY <1>1, ElementOfSeq
<1>3. n \in Int /\ n + 1 \in Int /\ m \in Int /\ 1 \in Int /\ n <= m /\ 0 <= n
  BY <1>1
<1>4. /\ SubSeq(t, 1, n) \in Seq(Bytes) /\ Len(SubSeq(t, 1, n)) = n
      /\ \A i \in 1 .. n : SubSeq(t, 1, n)[i] = t[i]
  <2>1. \A i \in 1 .. n : t[i] \in Bytes
    BY <1>2, <1>3
  <2>2. /\ SubSeq(t, 1, n) \in Seq(Bytes)
        /\ Len(SubSeq(t, 1, n)) = IF 1 <= n THEN n - 1 + 1 ELSE 0
        /\ \A i \in 1 .. n - 1 + 1 : SubSeq(t, 1, n)[i] = t[1 + i - 1]
    BY <1>3, <2>1, SubSeqProperties
  <2>3. \A i \in 1 .. n : i \in 1 .. n - 1 + 1 /\ 1 + i - 1 = i
    BY <1>3
  <2> DEFINE u == SubSeq(t, 1, n)
  <2> HIDE DEF u
  <2> QED
    BY <1>3, <2>2, <2>3 DEF u
<1>5. /\ SubSeq(t, n + 1, m) \in Seq(Bytes) /\ Len(SubSeq(t, n + 1, m)) = m - n
      /\ \A i \in 1 .. m - n : SubSeq(t, n + 1, m)[i] = t[n + i]
  <2>1. \A i \in n + 1 .. m : t[i] \in Bytes
    BY <1>2, <1>3
  <2>2. /\ SubSeq(t, n + 1, m) \in Seq(Bytes)
        /\ Len(SubSeq(t, n + 1, m)) = IF n + 1 <= m THEN m - (n + 1) + 1 ELSE 0
        /\ \A i \in 1 .. m - (n + 1) + 1 : SubSeq(t, n + 1, m)[i] = t[n + 1 + i - 1]
    BY <1>3, <2>1, SubSeqProperties
  <2>3. \A i \in 1 .. m - n : i \in 1 .. m - (n + 1) + 1 /\ n + 1 + i - 1 = n + i
    BY <1>3
  <2>4. (IF n + 1 <= m THEN m - (n + 1) + 1 ELSE 0) = m - n
    BY <1>3
  <2> QED
    BY <2>2, <2>3, <2>4
<1> QED
  BY <1>1, <1>4, <1>5

\* The first n bytes of a part, and the others, are parts.
LEMMA PartCut ==
  ASSUME NEW t \in Seq(Bytes), NEW s, NEW k \in Nat, Len(s) \in Nat, Part(t, s, k),
         NEW n \in 0 .. Len(t)
  PROVE  /\ Part(SubSeq(t, 1, n), s, k)
         /\ Part(SubSeq(t, n + 1, Len(t)), s, k + n)
<1>1. PICK m \in Nat : m = Len(t)
  OBVIOUS
<1> DEFINE a == SubSeq(t, 1, n)
           b == SubSeq(t, n + 1, Len(t))
<1>2. /\ Len(a) = n /\ Len(b) = m - n
      /\ \A i \in 1 .. n : a[i] = t[i]
      /\ \A i \in 1 .. m - n : b[i] = t[n + i]
  BY <1>1, Cut
<1>3. n \in Int /\ 0 <= n /\ n <= m /\ k + m <= Len(s) /\ \A i \in 1 .. m : t[i] = s[k + i]
  BY <1>1 DEF Part
<1> HIDE DEF a, b
<1>4. Part(a, s, k)
  <2>1. \A i \in 1 .. n : i \in 1 .. m
    BY <1>3
  <2>2. \A i \in 1 .. n : a[i] = s[k + i]
    BY <1>2, <1>3, <2>1
  <2>3. k + n <= Len(s)
    BY <1>3
  <2> QED
    BY <1>2, <2>2, <2>3 DEF Part
<1>5. Part(b, s, k + n)
  <2>1. \A i \in 1 .. m - n : n + i \in 1 .. m /\ k + (n + i) = (k + n) + i
    BY <1>3
  <2>2. ASSUME NEW i \in 1 .. m - n PROVE b[i] = s[(k + n) + i]
    <3>1. b[i] = t[n + i] /\ n + i \in 1 .. m
      BY <1>2, <2>1
    <3>2. t[n + i] = s[k + (n + i)]
      BY <1>3, <3>1
    <3> QED
      BY <2>1, <3>1, <3>2
  <2>3. (k + n) + (m - n) <= Len(s)
    BY <1>3
  <2> QED
    BY <1>2, <2>2, <2>3 DEF Part
<1> QED
  BY <1>4, <1>5 DEF a, b

\* Two parts one behind the other are a part.
LEMMA PartJoin ==
  ASSUME NEW t \in Seq(Bytes), NEW u \in Seq(Bytes), NEW s, NEW k \in Nat, Len(s) \in Nat,
         Part(t, s, k), Part(u, s, k + Len(t))
  PROVE  t \o u \in Seq(Bytes) /\ Len(t \o u) = Len(t) + Len(u) /\ Part(t \o u, s, k)
<1>1. /\ Len(t) \in Nat /\ Len(u) \in Nat
      /\ t \o u \in Seq(Bytes) /\ Len(t \o u) = Len(t) + Len(u)
      /\ \A i \in 1 .. Len(t) + Len(u) :
           (t \o u)[i] = IF i <= Len(t) THEN t[i] ELSE u[i - Len(t)]
  BY ConcatProperties
<1>2. ASSUME NEW i \in 1 .. Len(t) + Len(u) PROVE (t \o u)[i] = s[k + i]
  <2>1. CASE i <= Len(t)
    BY <1>1, <2>1 DEF Part
  <2>2. CASE ~(i <= Len(t))
    <3>1. i - Len(t) \in 1 .. Len(u) /\ (k + Len(t)) + (i - Len(t)) = k + i
      BY <1>1, <2>2
    <3> QED
      BY <1>1, <2>2, <3>1 DEF Part
  <2> QED
    BY <2>1, <2>2
<1> QED
  BY <1>1, <1>2 DEF Part

\* What follows a header in a stream.
LEMMA BehindHeader ==
  ASSUME NEW body \in Seq(Bytes)
  PROVE  /\ Header \o body \in Seq(Bytes) /\ Len(Header \o body) = 8 + Len(body)
         /\ Len(Header \o body) \in Nat
         /\ \A i \in 1 .. 8 : (Header \o body)[i] = Header[i]
         /\ \A i \in 1 .. Len(body) : (Header \o body)[8 + i] = body[i]
<1>1. /\ Header \o body \in Seq(Bytes) /\ Len(Header \o body) = 8 + Len(body)
      /\ \A i \in 1 .. 8 + Len(body) :
           (Header \o body)[i] = IF i <= 8 THEN Header[i] ELSE body[i - 8]
  <2>1. PICK h \in Seq(Bytes) : h = Header /\ Len(h) = 8
    BY HeaderIs
  <2>2. /\ h \o body \in Seq(Bytes) /\ Len(h \o body) = Len(h) + Len(body)
        /\ \A i \in 1 .. Len(h) + Len(body) :
             (h \o body)[i] = IF i <= Len(h) THEN h[i] ELSE body[i - Len(h)]
    BY ConcatProperties
  <2> QED
    BY <2>1, <2>2
<1>2. Len(body) \in Nat
  OBVIOUS
<1>3. /\ \A i \in 1 .. 8 : i \in 1 .. 8 + Len(body)
      /\ \A i \in 1 .. Len(body) : 8 + i \in 1 .. 8 + Len(body) /\ ~(8 + i <= 8) /\ (8 + i) - 8 = i
  BY <1>2
<1> QED
  BY <1>1, <1>2, <1>3

LEMMA PartBehindHeader ==
  ASSUME NEW t \in Seq(Bytes), NEW body \in Seq(Bytes), NEW k \in Nat
  PROVE  Part(t, Header \o body, 8 + k) <=> Part(t, body, k)
<1>1. Len(t) \in Nat /\ Len(body) \in Nat
  OBVIOUS
<1>2. k + Len(t) <= Len(body) =>
        \A i \in 1 .. Len(t) : (Header \o body)[(8 + k) + i] = body[k + i]
  <2> SUFFICES ASSUME k + Len(t) <= Len(body), NEW i \in 1 .. Len(t)
               PROVE  (Header \o body)[(8 + k) + i] = body[k + i]
    OBVIOUS
  <2>1. k + i \in 1 .. Len(body) /\ (8 + k) + i = 8 + (k + i)
    BY <1>1
  <2> QED
    BY <2>1, BehindHeader
<1>3. (8 + k) + Len(t) <= Len(Header \o body) <=> k + Len(t) <= Len(body)
  <2> DEFINE m == Len(Header \o body)
  <2>1. m = 8 + Len(body)
    BY BehindHeader
  <2> HIDE DEF m
  <2>2. (8 + k) + Len(t) <= m <=> k + Len(t) <= Len(body)
    BY <1>1, <2>1
  <2> QED
    BY <2>2 DEF m
<1>4. ASSUME Part(t, Header \o body, 8 + k) PROVE Part(t, body, k)
  <2>1. /\ k + Len(t) <= Len(body)
        /\ \A i \in 1 .. Len(t) : t[i] = (Header \o body)[(8 + k) + i]
    BY <1>3, <1>4 DEF Part
  <2>2. \A i \in 1 .. Len(t) : t[i] = body[k + i]
    BY <1>2, <2>1
  <2> QED
    BY <2>1, <2>2 DEF Part
<1>5. ASSUME Part(t, body, k) PROVE Part(t, Header \o body, 8 + k)
  <2>1. /\ k + Len(t) <= Len(body)
        /\ \A i \in 1 .. Len(t) : t[i] = body[k + i]
    BY <1>5 DEF Part
  <2>2. \A i \in 1 .. Len(t) : t[i] = (Header \o body)[(8 + k) + i]
    BY <1>2, <2>1
  <2> QED
    BY <1>3, <2>1, <2>2 DEF Part
<1> QED
  BY <1>4, <1>5

-----------------------------------------------------------------------------
(***************************************************************************)
(* The receiving loop, while it gets a header and, behind it, a body.      *)
(***************************************************************************)
LoopType ==
  [cnt : 0 .. 2, htemp : Seq(Bytes), found : BOOLEAN, total : Int, torn : BOOLEAN]

\* What the loop holds is the header, or a beginning of it.
HeadInv(l) ==
  IF l.found THEN l.htemp = Header
  ELSE /\ Len(l.htemp) < 7 /\ Part(l.htemp, Header, 0)
       /\ l.cnt = CntAt(Len(l.htemp)) /\ l.total = 0 /\ ~l.torn

\* How much of the stream it has taken.
Taken(l) == IF l.found THEN 8 + l.total ELSE Len(l.htemp)

\* The file f is what the loop has taken of the body.
Stored(l, f, body) ==
  l.found => /\ f \in Seq(Bytes)
             /\ ~l.torn => l.total \in Nat /\ Len(f) = l.total /\ Part(f, body, 0)

\* What is written of the chunk in which the header ends is the beginning of
\* the file.
RestStored(l, chunk, body) ==
  \A rest \in Rest(l, chunk) : Stored(Scan(l, chunk), rest, body)

LEMMA CntAtType == ASSUME NEW i \in Nat PROVE CntAt(i) \in 0 .. 2
  BY DEF CntAt

\* What a chunk holds of the header.
LEMMA ChunkOfHeader ==
  ASSUME NEW chunk \in Seq(Bytes), NEW body \in Seq(Bytes), NEW p \in 0 .. 6,
         Part(chunk, Header \o body, p)
  PROVE  InHeader(chunk, p)
<1>1. PICK m \in Nat : m = Len(chunk)
  OBVIOUS
<1> SUFFICES ASSUME NEW j \in 1 .. m, p + j <= 8 PROVE chunk[j] = Header[p + j]
  BY <1>1 DEF InHeader
<1>2. chunk[j] = (Header \o body)[p + j]
  BY <1>1 DEF Part
<1>3. p + j \in 1 .. 8
  OBVIOUS
<1> QED
  BY <1>2, <1>3, BehindHeader

\* The header goes on behind the chunk.
LEMMA ScanMore ==
  ASSUME NEW l \in LoopType, ~l.found, HeadInv(l),
         NEW chunk \in Seq(Bytes), NEW body \in Seq(Bytes),
         Part(chunk, Header \o body, Taken(l)), Taken(l) + Len(chunk) < 7
  PROVE  LET r == Scan(l, chunk)
         IN  r \in LoopType /\ ~r.found /\ HeadInv(r) /\ Taken(r) = Taken(l) + Len(chunk)
<1>1. PICK m \in Nat : m = Len(chunk)
  OBVIOUS
<1>2. PICK h \in Seq(Bytes) : h = l.htemp
  BY DEF LoopType
<1>3. PICK p \in 0 .. 6 : p = Len(h) /\ p = Taken(l) /\ l.cnt = CntAt(p) /\ p + m < 7
  <2>1. Len(h) = Taken(l) /\ Len(h) < 7 /\ l.cnt = CntAt(Len(h))
    BY <1>2 DEF HeadInv, Taken
  <2>2. PICK n \in Nat : n = Len(h)
    OBVIOUS
  <2>3. n \in 0 .. 6
    BY <2>1, <2>2
  <2> QED
    BY <1>1, <2>1, <2>2, <2>3
<1>4. InHeader(chunk, p)
  BY <1>1, <1>3, ChunkOfHeader
<1>5. HeaderBytes(l.cnt, chunk) = m
  BY <1>1, <1>3, <1>4, HeaderBytesIs
<1>6. Counts(l.cnt, chunk)[m] = CntAt(p + m)
  <2>1. m \in 0 .. m /\ p + m <= 7
    BY <1>3
  <2>2. \A j \in 0 .. m : p + j <= 7 => Counts(CntAt(p), chunk)[j] = CntAt(p + j)
    BY <1>1, <1>4, CountsOfHeader
  <2>3. Counts(CntAt(p), chunk)[m] = CntAt(p + m)
    BY <2>1, <2>2
  <2> QED
    BY <1>3, <2>3
<1>7. CntAt(p + m) # 2 /\ CntAt(p + m) \in 0 .. 2
  BY <1>3 DEF CntAt
<1>8. SubSeq(chunk, 1, m) = chunk
  BY <1>1, SubSeqFull
<1>9. h \o chunk \in Seq(Bytes) /\ Len(h \o chunk) = p + m /\ Part(h \o chunk, Header, 0)
  <2>1. Part(h, Header, 0)
    BY <1>2 DEF HeadInv
  <2>2. Part(chunk, Header, 0 + Len(h))
    <3>1. \A j \in 1 .. m : chunk[j] = Header[p + j]
      BY <1>1, <1>3, <1>4 DEF InHeader
    <3>2. 0 + Len(h) = p
      BY <1>3
    <3>3. Part(chunk, Header, p)
      BY <1>1, <1>3, <3>1, HeaderIs DEF Part
    <3> QED
      BY <3>2, <3>3
  <2> QED
    <3>1. 0 \in Nat /\ Len(Header) \in Nat
      BY HeaderIs
    <3>2. h \o chunk \in Seq(Bytes) /\ Len(h \o chunk) = Len(h) + Len(chunk) /\ Part(h \o chunk, Header, 0)
      BY <2>1, <2>2, <3>1, PartJoin
    <3> QED
      BY <1>1, <1>3, <3>2
<1>10. h \o chunk \o <<>> = h \o chunk
  BY <1>9, ConcatEmptySeq
<1>11. Scan(l, chunk) = [cnt |-> CntAt(p + m), htemp |-> h \o chunk, found |-> FALSE,
                         total |-> 0, torn |-> FALSE]
  BY <1>2, <1>5, <1>6, <1>7, <1>8, <1>10 DEF Scan
<1> DEFINE r == Scan(l, chunk)
<1>12. /\ r.cnt = CntAt(p + m) /\ r.htemp = h \o chunk /\ ~r.found
       /\ r.total = 0 /\ ~r.torn /\ r \in LoopType
  BY <1>7, <1>9, <1>11 DEF LoopType
<1> HIDE DEF r
<1>13. HeadInv(r) /\ Taken(r) = p + m
  BY <1>3, <1>9, <1>12 DEF HeadInv, Taken
<1> QED
  BY <1>1, <1>3, <1>12, <1>13 DEF r

\* It ends in the chunk, or with it (torn).
LEMMA ScanEnd ==
  ASSUME NEW l \in LoopType, ~l.found, HeadInv(l),
         NEW chunk \in Seq(Bytes), NEW body \in Seq(Bytes),
         Part(chunk, Header \o body, Taken(l)), ~(Taken(l) + Len(chunk) < 7)
  PROVE  LET r == Scan(l, chunk)
         IN  /\ r \in LoopType /\ r.found /\ HeadInv(r)
             /\ Taken(r) = Taken(l) + Len(chunk)
             /\ RestStored(l, chunk, body)
<1>1. PICK m \in Nat : m = Len(chunk)
  OBVIOUS
<1>2. PICK h \in Seq(Bytes) : h = l.htemp
  BY DEF LoopType
<1>3. PICK p \in 0 .. 6 : p = Len(h) /\ p = Taken(l) /\ l.cnt = CntAt(p) /\ ~(p + m < 7)
  <2>1. Len(h) = Taken(l) /\ Len(h) < 7 /\ l.cnt = CntAt(Len(h))
    BY <1>2 DEF HeadInv, Taken
  <2>2. PICK n \in Nat : n = Len(h)
    OBVIOUS
  <2>3. n \in 0 .. 6
    BY <2>1, <2>2
  <2> QED
    BY <1>1, <2>1, <2>2, <2>3
<1>4. InHeader(chunk, p)
  BY <1>1, <1>3, ChunkOfHeader
<1>5. PICK k \in 1 .. m : k = 7 - p
  BY <1>3
<1>6. HeaderBytes(l.cnt, chunk) = k
  BY <1>1, <1>3, <1>4, <1>5, HeaderBytesIs
<1>7. Counts(l.cnt, chunk)[k] = 2
  <2>1. k \in 0 .. m /\ p + k <= 7 /\ p + k = 7
    BY <1>3, <1>5
  <2>2. \A j \in 0 .. m : p + j <= 7 => Counts(CntAt(p), chunk)[j] = CntAt(p + j)
    BY <1>1, <1>4, CountsOfHeader
  <2>3. Counts(CntAt(p), chunk)[k] = CntAt(p + k)
    BY <2>1, <2>2
  <2>4. CntAt(7) = 2
    BY DEF CntAt
  <2> QED
    BY <1>3, <2>1, <2>3, <2>4
<1> DEFINE a == SubSeq(chunk, 1, k)
<1>8. a \in Seq(Bytes) /\ Len(a) = k /\ \A i \in 1 .. k : a[i] = chunk[i]
  <2>1. k \in 0 .. Len(chunk)
    BY <1>1
  <2> QED
    BY <2>1, Cut
<1>9. h \o a \o <<"n">> = Header
  <2> HIDE DEF a
  <2>1. Part(h, Header, 0)
    BY <1>2 DEF HeadInv
  <2>2. Part(a, Header, 0 + Len(h))
    <3>1. ASSUME NEW i \in 1 .. k PROVE a[i] = Header[p + i]
      <4>1. i \in 1 .. m /\ p + i <= 8
        BY <1>3, <1>5
      <4> QED
        BY <1>1, <1>4, <1>8, <4>1 DEF InHeader
    <3>2. 0 + Len(h) = p /\ p + k <= 8
      BY <1>3, <1>5
    <3> QED
      BY <1>8, <3>1, <3>2, HeaderIs DEF Part
  <2>3. /\ h \o a \in Seq(Bytes) /\ Len(h \o a) = p + k /\ Part(h \o a, Header, 0)
    <3>1. 0 \in Nat /\ Len(Header) \in Nat
      BY HeaderIs
    <3>2. h \o a \in Seq(Bytes) /\ Len(h \o a) = Len(h) + Len(a) /\ Part(h \o a, Header, 0)
      BY <1>8, <2>1, <2>2, <3>1, PartJoin
    <3> QED
      BY <1>3, <1>8, <3>2
  <2> DEFINE g == h \o a
  <2>4. g \in Seq(Bytes) /\ Len(g) = 7 /\ Part(g, Header, 0)
    BY <1>3, <1>5, <2>3
  <2> HIDE DEF g
  <2>5. <<"n">> \in Seq(Bytes) /\ Len(<<"n">>) = 1 /\ <<"n">>[1] = "n"
    BY DEF Bytes
  <2>6. /\ g \o <<"n">> \in Seq(Bytes) /\ Len(g \o <<"n">>) = 8
        /\ \A i \in 1 .. 7 : (g \o <<"n">>)[i] = Header[i]
        /\ (g \o <<"n">>)[8] = "n"
    <3>1. PICK n \in Seq(Bytes) : n = <<"n">> /\ Len(n) = 1 /\ n[1] = "n"
      BY <2>5
    <3>2. /\ g \o n \in Seq(Bytes) /\ Len(g \o n) = Len(g) + Len(n)
          /\ \A i \in 1 .. Len(g) + Len(n) :
               (g \o n)[i] = IF i <= Len(g) THEN g[i] ELSE n[i - Len(g)]
      BY <2>4, ConcatProperties
    <3>3. \A i \in 1 .. 7 : g[i] = Header[i]
      BY <2>4 DEF Part
    <3> QED
      BY <2>4, <3>1, <3>2, <3>3
  <2>7. PICK u \in Seq(Bytes) : u = g \o <<"n">> /\ Len(u) = 8
    BY <2>6
  <2>8. \A i \in 1 .. 8 : u[i] = Header[i]
    BY <2>6, <2>7, HeaderIs
  <2>9. u = Header
    BY <2>7, <2>8, HeaderIs, SeqEqual
  <2> QED
    BY <2>7, <2>9 DEF g
<1>10. Scan(l, chunk) = [cnt |-> 2, htemp |-> Header, found |-> TRUE,
                         total |-> m - k - 1, torn |-> (k = m)]
  BY <1>1, <1>2, <1>6, <1>7, <1>9 DEF Scan
<1> DEFINE r == Scan(l, chunk)
<1>11. /\ r.htemp = Header /\ r.found /\ r.total = m - k - 1 /\ (r.torn <=> k = m)
       /\ r \in LoopType
  <2>1. PICK n \in Int : n = m - k - 1
    OBVIOUS
  <2>2. PICK e \in BOOLEAN : e = (k = m)
    OBVIOUS
  <2>3. r = [cnt |-> 2, htemp |-> Header, found |-> TRUE, total |-> n, torn |-> e]
    BY <1>10, <2>1, <2>2
  <2>4. 2 \in 0 .. 2 /\ TRUE \in BOOLEAN /\ Header \in Seq(Bytes)
    BY HeaderIs
  <2>5. r \in LoopType
    BY <2>3, <2>4 DEF LoopType
  <2>6. r.htemp = Header /\ r.found /\ r.total = n /\ r.torn = e
    BY <2>3
  <2> QED
    BY <2>1, <2>2, <2>5, <2>6
<1>12. RestStored(l, chunk, body)
  <2> SUFFICES \A rest \in Rest(l, chunk) : Stored(r, rest, body)
    BY DEF RestStored
  <2>1. CASE k = m
    <3>1. Rest(l, chunk) = {<<>>, <<"garbage">>}
      BY <1>1, <1>6, <2>1 DEF Rest
    <3>2. <<>> \in Seq(Bytes) /\ <<"garbage">> \in Seq(Bytes)
      BY DEF Bytes
    <3>3. \A rest \in Seq(Bytes) : Stored(r, rest, body)
      <4> HIDE DEF r
      <4> QED
        BY <1>11, <2>1 DEF Stored
    <3> HIDE DEF r
    <3> QED
      BY <3>1, <3>2, <3>3
  <2>2. CASE k # m
    <3>1. PICK n \in 0 .. Len(chunk) : n = 8 - p /\ n + 1 = k + 2 /\ Len(chunk) - n = m - k - 1
      <4>1. 8 - p \in 0 .. m /\ (8 - p) + 1 = k + 2 /\ m - (8 - p) = m - k - 1
        BY <1>3, <1>5, <2>2
      <4> QED
        BY <1>1, <4>1
    <3> DEFINE b == SubSeq(chunk, n + 1, Len(chunk))
    <3>2. Rest(l, chunk) = {b}
      BY <1>1, <1>6, <2>2, <3>1 DEF Rest
    <3>3. b \in Seq(Bytes) /\ Len(b) = m - k - 1
      BY <3>1, Cut
    <3>4. Part(b, body, 0)
      <4>0. p \in Nat
        OBVIOUS
      <4>1. Len(Header \o body) \in Nat
        BY BehindHeader
      <4>2. Part(b, Header \o body, p + n)
        BY <1>3, <4>0, <4>1, PartCut
      <4>3. p + n = 8 + 0
        BY <1>3, <3>1
      <4>4. Part(b, Header \o body, 8 + 0)
        BY <4>2, <4>3
      <4> HIDE DEF b
      <4> QED
        BY <3>3, <4>4, PartBehindHeader
    <3>5. m - k - 1 \in Nat
      BY <2>2
    <3> HIDE DEF b, r
    <3> QED
      BY <1>11, <2>2, <3>2, <3>3, <3>4, <3>5 DEF Stored
  <2> QED
    BY <2>1, <2>2
<1> HIDE DEF r
<1>13. HeadInv(r) /\ Taken(r) = p + m
  <2>1. 8 + (m - k - 1) = p + m
    BY <1>3, <1>5
  <2> QED
    BY <1>11, <2>1 DEF HeadInv, Taken
<1> QED
  BY <1>1, <1>3, <1>11, <1>12, <1>13 DEF r

-----------------------------------------------------------------------------
(***************************************************************************)
(* A stream on its way: what the receiver has taken of it, what the net    *)
(* holds and what the sender has left, one behind the other.               *)
(***************************************************************************)
OnWay(l, n, body) == Taken(l) \in Nat /\ Part(n, Header \o body, Taken(l))

\* How much of it has been sent.
Sent(l, n) == Taken(l) + Len(n)

\* u is the end of a body.
LastPart(u, body) == \E k \in Nat : k + Len(u) = Len(body) /\ Part(u, body, k)

\* A recv takes the chunk of n, and leaves the rest.
Prefix(chunk, n) == \E k \in 1 .. Len(n) : chunk = SubSeq(n, 1, k)
Left(n, chunk) == SubSeq(n, Len(chunk) + 1, Len(n))

\* The loop takes a chunk of the net.
LEMMA TakeChunk ==
  ASSUME NEW l \in LoopType, NEW r \in LoopType, NEW n \in Seq(Bytes), NEW body \in Seq(Bytes),
         OnWay(l, n, body), NEW chunk, Prefix(chunk, n), Taken(r) = Taken(l) + Len(chunk)
  PROVE  /\ Left(n, chunk) \in Seq(Bytes) /\ OnWay(r, Left(n, chunk), body)
         /\ Sent(r, Left(n, chunk)) = Sent(l, n)
<1>0. PICK k \in 1 .. Len(n) : chunk = SubSeq(n, 1, k)
  BY DEF Prefix
<1>1. PICK t \in Nat : t = Taken(l)
  BY DEF OnWay
<1>2. PICK len \in Nat : len = Len(n)
  OBVIOUS
<1>3. k \in 0 .. Len(n)
  OBVIOUS
<1>4. Len(chunk) = k
  BY <1>0, <1>3, Cut
<1> DEFINE m == SubSeq(n, k + 1, Len(n))
<1>5. m \in Seq(Bytes) /\ Len(m) = Len(n) - k
  BY <1>3, Cut
<1>6. Part(m, Header \o body, t + k)
  <2>1. Len(Header \o body) \in Nat
    BY BehindHeader
  <2>2. Part(n, Header \o body, t)
    BY <1>1 DEF OnWay
  <2> QED
    BY <1>3, <2>1, <2>2, PartCut
<1>7. Taken(r) = t + k /\ t + k \in Nat
  BY <1>1, <1>2, <1>4
<1> HIDE DEF m
<1>8. OnWay(r, m, body)
  BY <1>6, <1>7 DEF OnWay
<1>9. Sent(r, m) = Sent(l, n)
  BY <1>1, <1>2, <1>5, <1>7 DEF Sent
<1> QED
  BY <1>4, <1>5, <1>8, <1>9 DEF m, Left

\* A chunk while the loop looks for the blank line.
LEMMA TakeHeader ==
  ASSUME NEW l \in LoopType, ~l.found, HeadInv(l),
         NEW n \in Seq(Bytes), NEW body \in Seq(Bytes), OnWay(l, n, body),
         NEW chunk, Prefix(chunk, n)
  PROVE  LET r == Scan(l, chunk)
         IN  /\ r \in LoopType /\ HeadInv(r)
             /\ Left(n, chunk) \in Seq(Bytes) /\ OnWay(r, Left(n, chunk), body)
             /\ Sent(r, Left(n, chunk)) = Sent(l, n)
             /\ r.found => RestStored(l, chunk, body)
<1>0. PICK k \in 1 .. Len(n) : chunk = SubSeq(n, 1, k)
  BY DEF Prefix
<1>1. k \in 0 .. Len(n)
  OBVIOUS
<1>2. chunk \in Seq(Bytes)
  BY <1>0, <1>1, Cut
<1>3. Part(chunk, Header \o body, Taken(l))
  <2>1. Len(Header \o body) \in Nat
    BY BehindHeader
  <2>2. Part(n, Header \o body, Taken(l)) /\ Taken(l) \in Nat
    BY DEF OnWay
  <2> QED
    BY <1>0, <1>1, <2>1, <2>2, PartCut
<1> DEFINE r == Scan(l, chunk)
<1>4. /\ r \in LoopType /\ HeadInv(r) /\ Taken(r) = Taken(l) + Len(chunk)
      /\ r.found => RestStored(l, chunk, body)
  <2>1. CASE Taken(l) + Len(chunk) < 7
    BY <1>2, <1>3, <2>1, ScanMore
  <2>2. CASE ~(Taken(l) + Len(chunk) < 7)
    BY <1>2, <1>3, <2>2, ScanEnd
  <2> QED
    BY <2>1, <2>2
<1>5. /\ Left(n, chunk) \in Seq(Bytes) /\ OnWay(r, Left(n, chunk), body)
      /\ Sent(r, Left(n, chunk)) = Sent(l, n)
  <2> HIDE DEF r
  <2> QED
    BY <1>4, TakeChunk
<1> QED
  BY <1>4, <1>5

\* A chunk of the body, which is appended to the file.
LEMMA TakeBody ==
  ASSUME NEW l \in LoopType, l.found, HeadInv(l), NEW f \in Seq(Bytes), NEW body \in Seq(Bytes),
         NEW n \in Seq(Bytes), NEW chunk, Prefix(chunk, n)
  PROVE  LET r == [l EXCEPT !.total = @ + Len(chunk)]
             m == Left(n, chunk)
         IN  /\ r \in LoopType /\ HeadInv(r) /\ r.found /\ r.torn = l.torn
             /\ m \in Seq(Bytes) /\ f \o chunk \in Seq(Bytes)
             /\ OnWay(l, n, body) /\ Stored(l, f, body) /\ ~l.torn =>
                  OnWay(r, m, body) /\ Sent(r, m) = Sent(l, n) /\ Stored(r, f \o chunk, body)
<1>0. PICK k \in 1 .. Len(n) : chunk = SubSeq(n, 1, k)
  BY DEF Prefix
<1>1. k \in 0 .. Len(n)
  OBVIOUS
<1>2. chunk \in Seq(Bytes) /\ Len(chunk) = k /\ f \o chunk \in Seq(Bytes)
  BY <1>0, <1>1, Cut, ConcatProperties
<1>3. Left(n, chunk) \in Seq(Bytes)
  BY <1>1, <1>2, Cut DEF Left
<1>4. PICK t \in Int : t = l.total
  BY DEF LoopType
<1> DEFINE r == [l EXCEPT !.total = @ + Len(chunk)]
<1>5. /\ r \in LoopType /\ r.found /\ r.torn = l.torn /\ r.htemp = l.htemp
      /\ r.total = t + k
  <2>1. t + k \in Int /\ l.total + Len(chunk) = t + k
    BY <1>2, <1>4
  <2>2. r = [l EXCEPT !.total = t + k]
    BY <2>1
  <2> HIDE DEF r
  <2> QED
    BY <2>1, <2>2 DEF LoopType
<1> HIDE DEF r
<1>6. HeadInv(r)
  BY <1>5 DEF HeadInv
<1>7. ASSUME OnWay(l, n, body), Stored(l, f, body), ~l.torn
      PROVE  /\ Taken(r) = Taken(l) + Len(chunk)
             /\ Stored(r, f \o chunk, body)
  <2>1. Taken(l) = 8 + t /\ Taken(r) = 8 + (t + k)
    BY <1>4, <1>5 DEF Taken
  <2>2. Taken(r) = Taken(l) + Len(chunk)
    BY <1>2, <2>1
  <2>3. t \in Nat /\ Len(f) = t /\ Part(f, body, 0)
    BY <1>4, <1>7 DEF Stored
  <2>4. Part(chunk, Header \o body, 8 + t)
    <3>1. Len(Header \o body) \in Nat /\ 8 + t \in Nat
      BY <2>3, BehindHeader
    <3>2. Part(n, Header \o body, 8 + t)
      BY <1>7, <2>1 DEF OnWay
    <3> QED
      BY <1>0, <1>1, <3>1, <3>2, PartCut
  <2>5. Part(chunk, body, t)
    BY <1>2, <2>3, <2>4, PartBehindHeader
  <2>6. /\ Len(f \o chunk) = t + k /\ Part(f \o chunk, body, 0)
    <3>1. 0 \in Nat /\ Len(body) \in Nat /\ 0 + Len(f) = t
      BY <2>3
    <3>2. Part(chunk, body, 0 + Len(f))
      BY <2>5, <3>1
    <3>3. Len(f \o chunk) = Len(f) + Len(chunk) /\ Part(f \o chunk, body, 0)
      BY <1>2, <2>3, <3>1, <3>2, PartJoin
    <3> QED
      BY <1>2, <2>3, <3>3
  <2>7. t + k \in Nat
    BY <2>3
  <2> QED
    BY <1>2, <1>5, <2>2, <2>6, <2>7 DEF Stored
<1>8. ASSUME OnWay(l, n, body), Stored(l, f, body), ~l.torn
      PROVE  OnWay(r, Left(n, chunk), body) /\ Sent(r, Left(n, chunk)) = Sent(l, n)
  <2>1. Taken(r) = Taken(l) + Len(chunk)
    BY <1>7, <1>8
  <2> QED
    BY <1>5, <1>8, <2>1, TakeChunk
<1> QED
  BY <1>2, <1>3, <1>5, <1>6, <1>7, <1>8 DEF r

\* The header is sent.
LEMMA GiveHeader ==
  ASSUME NEW l \in LoopType, NEW n \in Seq(Bytes), NEW body \in Seq(Bytes), NEW old,
         OnWay(l, n, old), Sent(l, n) = 0
  PROVE  n \o Header \in Seq(Bytes) /\ OnWay(l, n \o Header, body) /\ Sent(l, n \o Header) = 8
<1>1. PICK t \in Nat : t = Taken(l)
  BY DEF OnWay
<1>2. PICK len \in Nat : len = Len(n)
  OBVIOUS
<1>3. t = 0 /\ len = 0
  BY <1>1, <1>2 DEF Sent
<1>4. n = <<>>
  BY <1>2, <1>3, EmptySeq
<1>5. n \o Header = Header
  BY <1>4, HeaderIs, ConcatEmptySeq
<1>6. Part(Header, Header \o body, 0)
  <2>1. 0 + 8 <= Len(Header \o body)
    <3>1. Len(body) \in Nat
      OBVIOUS
    <3> QED
      BY <3>1, BehindHeader
  <2>2. \A i \in 1 .. 8 : Header[i] = (Header \o body)[0 + i]
    BY BehindHeader
  <2> QED
    BY <2>1, <2>2, HeaderIs DEF Part
<1> QED
  BY <1>1, <1>3, <1>5, <1>6, HeaderIs DEF OnWay, Sent

\* A send takes the first k bytes of u, and leaves the others.
Front(u, k) == SubSeq(u, 1, k)
After(u, k) == SubSeq(u, k + 1, Len(u))

LEMMA LastPartAll ==
  ASSUME NEW body \in Seq(Bytes)
  PROVE  LastPart(body, body)
<1>1. 0 \in Nat /\ 0 + Len(body) = Len(body) /\ Len(body) <= Len(body)
  OBVIOUS
<1>2. \A i \in 1 .. Len(body) : 0 + i = i
  OBVIOUS
<1>3. Part(body, body, 0)
  BY <1>1, <1>2 DEF Part
<1> QED
  BY <1>1, <1>3 DEF LastPart

LEMMA LastPartCut ==
  ASSUME NEW body \in Seq(Bytes), NEW u \in Seq(Bytes), LastPart(u, body), NEW k \in 0 .. Len(u)
  PROVE  /\ Front(u, k) \in Seq(Bytes) /\ After(u, k) \in Seq(Bytes)
         /\ LastPart(After(u, k), body)
<1>1. PICK uu \in Nat : uu = Len(u)
  OBVIOUS
<1>2. PICK bb \in Nat : bb = Len(body)
  OBVIOUS
<1>3. PICK j \in Nat : j + uu = bb /\ Part(u, body, j)
  BY <1>1, <1>2 DEF LastPart
<1>4. /\ Front(u, k) \in Seq(Bytes) /\ After(u, k) \in Seq(Bytes)
      /\ Len(After(u, k)) = uu - k /\ k \in 0 .. uu
  BY <1>1, Cut DEF Front, After
<1>5. Part(After(u, k), body, j + k)
  BY <1>2, <1>3, PartCut DEF After
<1>6. j + k \in Nat /\ (j + k) + (uu - k) = bb
  BY <1>3, <1>4
<1> QED
  BY <1>2, <1>4, <1>5, <1>6 DEF LastPart

\* The first k bytes of what is left of the body are sent.
LEMMA GiveBody ==
  ASSUME NEW l \in LoopType, NEW n \in Seq(Bytes), NEW body \in Seq(Bytes), NEW u \in Seq(Bytes),
         OnWay(l, n, body), LastPart(u, body), Sent(l, n) + Len(u) = 8 + Len(body),
         NEW k \in 0 .. Len(u)
  PROVE  /\ n \o Front(u, k) \in Seq(Bytes)
         /\ OnWay(l, n \o Front(u, k), body)
         /\ Sent(l, n \o Front(u, k)) + Len(After(u, k)) = 8 + Len(body)
<1> DEFINE c == SubSeq(u, 1, k)
           v == SubSeq(u, k + 1, Len(u))
<1>1. PICK t \in Nat : t = Taken(l)
  BY DEF OnWay
<1>2. PICK nn \in Nat : nn = Len(n)
  OBVIOUS
<1>3. PICK uu \in Nat : uu = Len(u)
  OBVIOUS
<1>4. PICK bb \in Nat : bb = Len(body)
  OBVIOUS
<1>5. PICK j \in Nat : j + uu = bb /\ Part(u, body, j)
  BY <1>3, <1>4 DEF LastPart
<1>6. c \in Seq(Bytes) /\ v \in Seq(Bytes) /\ Len(c) = k /\ Len(v) = uu - k /\ k \in 0 .. uu
  BY <1>3, Cut
<1>7. Part(c, body, j) /\ Part(v, body, j + k)
  BY <1>4, <1>5, PartCut
<1> HIDE DEF c, v
<1>9. t + nn = 8 + j
  BY <1>1, <1>2, <1>3, <1>4, <1>5 DEF Sent
<1>10. Part(c, Header \o body, t + nn)
  BY <1>6, <1>7, <1>9, PartBehindHeader
<1>11. n \o c \in Seq(Bytes) /\ Len(n \o c) = nn + k /\ Part(n \o c, Header \o body, t)
  <2>1. Len(Header \o body) \in Nat
    BY BehindHeader
  <2>2. Part(n, Header \o body, t)
    BY <1>1 DEF OnWay
  <2>3. Part(c, Header \o body, t + Len(n))
    BY <1>2, <1>10
  <2>4. /\ n \o c \in Seq(Bytes) /\ Len(n \o c) = Len(n) + Len(c)
        /\ Part(n \o c, Header \o body, t)
    BY <1>6, <2>1, <2>2, <2>3, PartJoin
  <2> QED
    BY <1>2, <1>6, <2>4
<1>12. OnWay(l, n \o c, body)
  BY <1>1, <1>11 DEF OnWay
<1>13. Sent(l, n \o c) + Len(v) = 8 + Len(body)
  <2>1. t + (nn + k) + (uu - k) = 8 + bb
    BY <1>5, <1>6, <1>9
  <2> QED
    BY <1>1, <1>4, <1>6, <1>11, <2>1 DEF Sent
<1> QED
  BY <1>11, <1>12, <1>13 DEF c, v, Front, After

-----------------------------------------------------------------------------
(***************************************************************************)
(* The inductive invariant.                                                *)
(***************************************************************************)
Accesses == {"allowed", "forbidden", "old", "closed"}

TypeInv ==
  /\ cmd \in [method : {"GET", "PUT"}, length : Nat, access : Accesses]
  /\ cmd.access \in Access(cmd.method)
  /\ bpc \in {"start", "sendfile", "getresponse", "ended"}
  /\ cpc \in {"getRequest", "respond", "sendfile", "ended"}
  /\ file \in [Side -> Seq(Bytes) \union {None}]
  /\ reply.status \in {0, 200, 304, 403, 404} /\ content_len(reply) \in Nat \union {-1}
  /\ loop \in [Side -> LoopType]
  /\ unsent \in [Side -> Seq(Bytes)] /\ net \in [Side -> Seq(Bytes)]
  /\ gone \in [Side -> BOOLEAN]
  /\ result \in {"none", "timeout", "disconnected", "header", "opened"}

\* The child stores the browser's file; the browser gets the child's.
Stores  == cmd.method = "PUT" /\ Refusal = 0
Fetches == cmd.method = "GET" /\ reply.status = 200

\* What follows the header to either side.
ToChild   == IF cmd.method = "PUT" THEN file["browser"] ELSE <<>>
ToBrowser == IF Fetches THEN file["child"] ELSE <<>>

CmdInv ==
  /\ cmd.method = "PUT" => file["browser"] # None /\ cmd.length = Len(file["browser"])
  /\ gone["browser"] => bpc = "ended"
  /\ gone["child"] => cpc = "ended"

\* The child answers when it has the header and, of a PUT, as much as it says.
ChildInv ==
  /\ cpc = "getRequest" /\ loop["child"].found => Stores
  /\ cpc \in {"getRequest", "respond"} => reply = NoReply /\ loop["browser"] = NoLoop["browser"]
  /\ cpc \in {"respond", "sendfile"} \/ reply.status = 200 =>
       /\ loop["child"].found /\ Refusal = 0
       /\ cmd.method = "PUT" => loop["child"].total >= cmd.length
  /\ Fetches => content_len(reply) = Len(file["child"])
  /\ cpc = "sendfile" => reply.status = 200 /\ LastPart(unsent["child"], ToBrowser)

\* The browser gets a file from an answer of 200, and opens it when it has as
\* much of it as the answer says.
BrowserInv ==
  /\ bpc \in {"start", "getresponse"} => unsent["browser"] = <<>>
  /\ bpc = "sendfile" => cmd.method = "PUT" /\ LastPart(unsent["browser"], file["browser"])
  /\ bpc \in {"start", "sendfile"} => ~loop["browser"].found
  /\ bpc = "getresponse" /\ loop["browser"].found => Fetches
  /\ result = "opened" =>
       Fetches /\ loop["browser"].found /\ loop["browser"].total >= content_len(reply)

\* The stream to the child, and what the child has stored.
ToChildInv ==
  /\ HeadInv(loop["child"])
  /\ Stores => Stored(loop["child"], file["child"], file["browser"])
  /\ ~gone["child"] /\ (loop["child"].found => Stores /\ ~loop["child"].torn) =>
       /\ OnWay(loop["child"], net["child"], ToChild)
       /\ bpc = "start" => Sent(loop["child"], net["child"]) = 0
       /\ bpc \in {"sendfile", "getresponse"} =>
            Sent(loop["child"], net["child"]) + Len(unsent["browser"]) = 8 + Len(ToChild)

\* The same to the browser.
ToBrowserInv ==
  /\ HeadInv(loop["browser"])
  /\ Fetches => Stored(loop["browser"], file["browser"], file["child"])
  /\ ~gone["browser"] /\ (loop["browser"].found => Fetches /\ ~loop["browser"].torn) =>
       /\ OnWay(loop["browser"], net["browser"], ToBrowser)
       /\ cpc \in {"getRequest", "respond"} => Sent(loop["browser"], net["browser"]) = 0
       /\ cpc = "sendfile" =>
            Sent(loop["browser"], net["browser"]) + Len(unsent["child"]) = 8 + Len(ToBrowser)

IInv == TypeInv /\ CmdInv /\ ChildInv /\ BrowserInv /\ ToChildInv /\ ToBrowserInv

-----------------------------------------------------------------------------
(***************************************************************************)
(* What a step leaves alone.                                               *)
(***************************************************************************)
LEMMA RefusalFrame ==
  ASSUME cmd' = cmd, cmd.method = "GET" => file'["child"] = file["child"]
  PROVE  Refusal' = Refusal
  BY DEF Refusal

LEMMA Facts ==
  ASSUME IInv
  PROVE  /\ \A s \in Side : /\ loop[s] \in LoopType /\ unsent[s] \in Seq(Bytes)
                            /\ net[s] \in Seq(Bytes) /\ gone[s] \in BOOLEAN
         /\ "child" \in Side /\ "browser" \in Side
         /\ cmd.method = "PUT" \/ cmd.method = "GET"
         /\ cmd.method = "PUT" => file["browser"] \in Seq(Bytes)
         /\ cmd.method = "GET" /\ Refusal = 0 => file["child"] \in Seq(Bytes)
         /\ Fetches => file["child"] \in Seq(Bytes)
         /\ ToChild \in Seq(Bytes) /\ ToBrowser \in Seq(Bytes)
<1>1. "child" \in Side /\ "browser" \in Side
  BY DEF Side
<1>2. \A s \in Side : /\ loop[s] \in LoopType /\ unsent[s] \in Seq(Bytes)
                      /\ net[s] \in Seq(Bytes) /\ gone[s] \in BOOLEAN
  BY DEF IInv, TypeInv
<1>3. cmd.method = "PUT" \/ cmd.method = "GET"
  BY DEF IInv, TypeInv
<1>4. \A s \in Side : file[s] \in Seq(Bytes) \/ file[s] = None
  BY DEF IInv, TypeInv
<1>5. cmd.method = "PUT" => file["browser"] \in Seq(Bytes)
  BY <1>1, <1>4 DEF IInv, CmdInv
<1>6. cmd.method = "GET" /\ Refusal = 0 => file["child"] \in Seq(Bytes)
  BY <1>1, <1>4 DEF Refusal
<1>7. Fetches => file["child"] \in Seq(Bytes)
  BY <1>6 DEF IInv, ChildInv, Fetches
<1>8. ToChild \in Seq(Bytes)
  BY <1>5 DEF ToChild
<1>9. ToBrowser \in Seq(Bytes)
  BY <1>7 DEF ToBrowser
<1> QED
  BY <1>1, <1>2, <1>3, <1>5, <1>6, <1>7, <1>8, <1>9

LEMMA ToChildFrame ==
  ASSUME ToChildInv, cmd' = cmd, cmd.method \in {"GET", "PUT"},
         cmd.method = "GET" => file'["child"] = file["child"],
         cmd.method = "PUT" => file'["browser"] = file["browser"],
         file'["child"] = file["child"],
         loop'["child"] = loop["child"], net'["child"] = net["child"],
         unsent'["browser"] = unsent["browser"], gone'["child"] = gone["child"],
         bpc' \in {bpc, "ended"}
  PROVE  ToChildInv'
<1>1. Stores' <=> Stores
  BY RefusalFrame DEF Stores
<1>2. ToChild' = ToChild
  BY DEF ToChild
<1>3. Stores => file'["browser"] = file["browser"]
  BY DEF Stores
<1>4. bpc' = "start" => bpc = "start"
  OBVIOUS
<1>5. bpc' \in {"sendfile", "getresponse"} => bpc \in {"sendfile", "getresponse"}
  OBVIOUS
<1> QED
  BY <1>1, <1>2, <1>3, <1>4, <1>5 DEF ToChildInv

\* The child has closed.
LEMMA ToChildClosed ==
  ASSUME gone'["child"], HeadInv(loop'["child"]),
         Stores' => Stored(loop'["child"], file'["child"], file'["browser"])
  PROVE  ToChildInv'
  BY DEF ToChildInv

LEMMA ToBrowserFrame ==
  ASSUME ToBrowserInv, cmd' = cmd, cmd.method \in {"GET", "PUT"}, reply' = reply,
         cmd.method = "GET" => file'["child"] = file["child"],
         file'["browser"] = file["browser"],
         loop'["browser"] = loop["browser"], net'["browser"] = net["browser"],
         unsent'["child"] = unsent["child"], gone'["browser"] = gone["browser"],
         cpc' \in {cpc, "ended"} \/ (cpc = "getRequest" /\ cpc' = "respond")
  PROVE  ToBrowserInv'
<1>1. (Fetches' <=> Fetches) /\ (Fetches => file'["child"] = file["child"])
  BY DEF Fetches
<1>2. ToBrowser' = ToBrowser
  BY <1>1 DEF ToBrowser
<1>3. cpc' \in {"getRequest", "respond"} => cpc \in {"getRequest", "respond"}
  OBVIOUS
<1>4. cpc' = "sendfile" => cpc = "sendfile"
  OBVIOUS
<1> QED
  BY <1>1, <1>2, <1>3, <1>4 DEF ToBrowserInv

\* The browser has closed.
LEMMA ToBrowserClosed ==
  ASSUME gone'["browser"], HeadInv(loop'["browser"]),
         Fetches' => Stored(loop'["browser"], file'["browser"], file'["child"])
  PROVE  ToBrowserInv'
  BY DEF ToBrowserInv

LEMMA BrowserFrame ==
  ASSUME BrowserInv, cmd' = cmd, reply' = reply, loop'["browser"] = loop["browser"],
         unsent'["browser"] = unsent["browser"], bpc' = bpc, result' = result,
         cmd.method = "PUT" => file'["browser"] = file["browser"]
  PROVE  BrowserInv'
  BY DEF BrowserInv, Fetches

LEMMA ChildFrame ==
  ASSUME ChildInv, cmd' = cmd, reply' = reply, loop'["child"] = loop["child"],
         loop'["browser"] = loop["browser"] \/ cpc \notin {"getRequest", "respond"},
         unsent'["child"] = unsent["child"], cpc' = cpc,
         file'["child"] = file["child"]
  PROVE  ChildInv'
<1>1. Refusal' = Refusal
  BY RefusalFrame
<1>2. (Stores' <=> Stores) /\ (Fetches' <=> Fetches)
  BY <1>1 DEF Stores, Fetches
<1>3. ToBrowser' = ToBrowser
  BY <1>2 DEF ToBrowser
<1> QED
  BY <1>1, <1>2, <1>3 DEF ChildInv

-----------------------------------------------------------------------------
(***************************************************************************)
(* The steps of the child.                                                 *)
(***************************************************************************)
LEMMA ChildEndsStep ==
  ASSUME IInv, ChildEnds,
         UNCHANGED <<cmd, bpc, file, reply, loop, unsent, net, result>>
  PROVE  IInv'
<1>1. /\ cpc' = "ended" /\ gone'["child"] /\ gone'["browser"] = gone["browser"]
      /\ gone' \in [Side -> BOOLEAN]
  BY DEF ChildEnds, IInv, TypeInv, Side
<1>2. cmd.method \in {"GET", "PUT"}
  BY Facts
<1>3. TypeInv'
  BY <1>1 DEF IInv, TypeInv
<1>4. CmdInv'
  BY <1>1 DEF IInv, CmdInv
<1>5. Refusal' = Refusal
  BY RefusalFrame
<1>6. (Stores' <=> Stores) /\ (Fetches' <=> Fetches)
  BY <1>5 DEF Stores, Fetches
<1>7. ChildInv'
  BY <1>1, <1>5, <1>6 DEF IInv, ChildInv
<1>8. BrowserInv'
  BY BrowserFrame DEF IInv
<1>9. ToChildInv'
  BY <1>1, <1>6, ToChildClosed DEF IInv, ToChildInv
<1>10. ToBrowserInv'
  <2>1. ToBrowserInv /\ cpc' \in {cpc, "ended"}
    BY <1>1 DEF IInv
  <2> QED
    BY <1>1, <1>2, <2>1, ToBrowserFrame
<1> QED
  BY <1>3, <1>4, <1>7, <1>8, <1>9, <1>10 DEF IInv

LEMMA MinOfTwo ==
  ASSUME NEW a \in Int, NEW b \in Int
  PROVE  Min({a, b}) = IF a <= b THEN a ELSE b
<1>1. PICK c \in {a, b} : c = IF a <= b THEN a ELSE b
  OBVIOUS
<1>2. \A y \in {a, b} : c <= y
  BY <1>1
<1>3. \A x \in {a, b} : (\A y \in {a, b} : x <= y) => x = c
  BY <1>1
<1> DEFINE S == {a, b}
<1>4. c \in S /\ (\A y \in S : c <= y) /\ \A x \in S : (\A y \in S : x <= y) => x = c
  BY <1>2, <1>3
<1> HIDE DEF S
<1>5. Min(S) = c
  BY <1>4 DEF Min
<1> QED
  BY <1>1, <1>5 DEF S

\* What recv returns is the beginning of what the net holds.
LEMMA ChunkIs ==
  ASSUME IInv, NEW s \in Side, NEW chunk \in Chunks(s)
  PROVE  Prefix(chunk, net[s])
<1>1. PICK len \in Nat : len = Len(net[s])
  BY Facts
<1>2. PICK n \in 1 .. Min({CHUNKSIZE, len}) : chunk = SubSeq(net[s], 1, n)
  BY <1>1 DEF Chunks
<1>3. Min({CHUNKSIZE, len}) \in Int /\ Min({CHUNKSIZE, len}) <= len
  <2>1. CHUNKSIZE \in Int /\ len \in Int
    OBVIOUS
  <2> QED
    BY <2>1, MinOfTwo
<1>4. n \in 1 .. Len(net[s])
  BY <1>1, <1>3
<1> QED
  BY <1>2, <1>4 DEF Prefix

LEMMA ChildReceives ==
  ASSUME IInv, cpc = "getRequest", ~loop["child"].found, NEW chunk \in Chunks("child")
  PROVE  LET r == Scan(loop["child"], chunk)
             m == Left(net["child"], chunk)
         IN  /\ r \in LoopType /\ HeadInv(r)
             /\ m \in Seq(Bytes) /\ OnWay(r, m, ToChild)
             /\ Sent(r, m) = Sent(loop["child"], net["child"])
             /\ r.found => RestStored(loop["child"], chunk, ToChild)
<1>1. /\ loop["child"] \in LoopType /\ net["child"] \in Seq(Bytes) /\ ToChild \in Seq(Bytes)
      /\ HeadInv(loop["child"]) /\ "child" \in Side
  BY Facts DEF IInv, ToChildInv
<1>2. ~gone["child"]
  BY DEF IInv, CmdInv
<1>3. OnWay(loop["child"], net["child"], ToChild)
  BY <1>2 DEF IInv, ToChildInv
<1>4. Prefix(chunk, net["child"])
  BY <1>1, ChunkIs
<1>5. PICK l : l = loop["child"]
  OBVIOUS
<1>6. PICK n : n = net["child"]
  OBVIOUS
<1>7. PICK body : body = ToChild
  OBVIOUS
<1>8. /\ l \in LoopType /\ n \in Seq(Bytes) /\ body \in Seq(Bytes) /\ HeadInv(l) /\ ~l.found
      /\ OnWay(l, n, body) /\ Prefix(chunk, n)
  BY <1>1, <1>3, <1>4, <1>5, <1>6, <1>7
<1>9. LET r == Scan(l, chunk)
      IN  /\ r \in LoopType /\ HeadInv(r)
          /\ Left(n, chunk) \in Seq(Bytes) /\ OnWay(r, Left(n, chunk), body)
          /\ Sent(r, Left(n, chunk)) = Sent(l, n)
          /\ r.found => RestStored(l, chunk, body)
  BY <1>8, TakeHeader
<1> QED
  BY <1>5, <1>6, <1>7, <1>9

LEMMA CHeaderStep ==
  ASSUME IInv, cpc = "getRequest", NEW chunk \in Chunks("child"), CHeader(chunk),
         UNCHANGED <<cmd, bpc, unsent, result>>
  PROVE  IInv'
<1>1. ~loop["child"].found /\ ~Scan(loop["child"], chunk).found
  BY DEF CHeader, MoreHeader
<1>2. /\ loop["child"] \in LoopType /\ "child" \in Side /\ "browser" \in Side
      /\ cmd.method \in {"GET", "PUT"}
  BY Facts
<1>3. PICK r : r = Scan(loop["child"], chunk)
  OBVIOUS
<1>4. PICK m : m = Left(net["child"], chunk)
  OBVIOUS
<1>5. /\ r \in LoopType /\ ~r.found /\ HeadInv(r)
      /\ m \in Seq(Bytes) /\ OnWay(r, m, ToChild)
      /\ Sent(r, m) = Sent(loop["child"], net["child"])
  BY <1>1, <1>3, <1>4, ChildReceives
<1>6. /\ loop' = [loop EXCEPT !["child"] = r] /\ net' = [net EXCEPT !["child"] = m]
      /\ UNCHANGED <<cpc, file, reply, gone>>
  BY <1>3, <1>4 DEF CHeader, MoreHeader, Take, Left
<1>7. /\ loop'["child"] = r /\ loop'["browser"] = loop["browser"]
      /\ net'["child"] = m /\ net'["browser"] = net["browser"]
      /\ loop' \in [Side -> LoopType] /\ net' \in [Side -> Seq(Bytes)]
  BY <1>2, <1>5, <1>6 DEF IInv, TypeInv, Side
<1>8. TypeInv'
  BY <1>6, <1>7 DEF IInv, TypeInv
<1>9. CmdInv'
  BY <1>6 DEF IInv, CmdInv
<1>10. Refusal' = Refusal
  BY <1>6, RefusalFrame
<1>11. (Stores' <=> Stores) /\ (Fetches' <=> Fetches)
  BY <1>6, <1>10 DEF Stores, Fetches
<1>12. ChildInv'
  BY <1>5, <1>6, <1>7, <1>10, <1>11 DEF IInv, ChildInv, NoReply
<1>13. BrowserInv'
  BY <1>6, <1>7, BrowserFrame DEF IInv
<1>14. ToChildInv'
  <2>1. ToChild' = ToChild
    BY <1>6 DEF ToChild
  <2>2. ~gone["child"] /\ ~gone'["child"]
    BY <1>6 DEF IInv, CmdInv
  <2>3. Stored(r, file["child"], file["browser"])
    BY <1>5 DEF Stored
  <2> QED
    BY <1>1, <1>5, <1>6, <1>7, <2>1, <2>2, <2>3 DEF IInv, ToChildInv
<1>15. ToBrowserInv'
  BY <1>2, <1>6, <1>7, ToBrowserFrame DEF IInv
<1> QED
  BY <1>8, <1>9, <1>12, <1>13, <1>14, <1>15 DEF IInv

LEMMA ContentLen ==
  /\ content_len(NoReply) = -1
  /\ \A status : content_len(Refused(status)) = -1
  /\ content_len(Puts) = -1
  /\ \A type, length : content_len(Gets(type, length)) = length
<1>1. content_len(NoReply) = -1
  BY DEF content_len, Named, NoReply
<1>2. ASSUME NEW status PROVE content_len(Refused(status)) = -1
  BY DEF content_len, Named, Refused
<1>3. content_len(Puts) = -1
  <2>1. Named(Puts, {"Content-Length"}) = {}
    <3>1. /\ DOMAIN Puts.lines = 1 .. 4
          /\ Puts.lines[1][1] = "Cache-Control" /\ Puts.lines[2][1] = "Connection"
          /\ Puts.lines[3][1] = "Expires" /\ Puts.lines[4][1] = "Date"
      BY DEF Puts
    <3>2. \A i \in 1 .. 4 : i \in {1, 2, 3, 4}
      OBVIOUS
    <3> QED
      BY <3>1, <3>2 DEF Named
  <2> QED
    BY <2>1 DEF content_len
<1>4. ASSUME NEW type, NEW length PROVE content_len(Gets(type, length)) = length
  <2>1. Named(Gets(type, length), {"Content-Length"}) = {2}
    BY DEF Named, Gets
  <2>2. Min({2, 2}) = 2
    BY MinOfTwo
  <2>3. Gets(type, length).lines[2][2][1] = length
    BY DEF Gets
  <2> QED
    BY <2>1, <2>2, <2>3 DEF content_len
<1> QED
  BY <1>1, <1>2, <1>3, <1>4

\* A refusal: nothing but the header goes to the browser.
LEMMA RefuseStep ==
  ASSUME IInv, cpc \in {"getRequest", "respond"}, ~Stores, NEW status \in {304, 403, 404},
         NEW chunk, Left(net["child"], chunk) \in Seq(Bytes), Refuse(status, chunk),
         NEW r \in LoopType, HeadInv(r), loop' = [loop EXCEPT !["child"] = r],
         UNCHANGED <<cmd, bpc, file, unsent, result>>
  PROVE  IInv'
<1>1. /\ net["browser"] \in Seq(Bytes) /\ loop["browser"] \in LoopType
      /\ "child" \in Side /\ "browser" \in Side /\ cmd.method \in {"GET", "PUT"}
      /\ ToBrowser \in Seq(Bytes)
  BY Facts
<1>2. reply = NoReply /\ loop["browser"] = NoLoop["browser"] /\ ~Fetches
  BY DEF IInv, ChildInv, Fetches, NoReply
<1>3. ~loop["browser"].found
  BY <1>1, <1>2 DEF NoLoop
<1>4. net["browser"] \o Header \in Seq(Bytes)
  BY <1>1, HeaderIs, ConcatProperties
<1>5. PICK n \in Seq(Bytes) : /\ gone["browser"] => n = net["browser"]
                              /\ ~gone["browser"] => n = net["browser"] \o Header
  <2>1. CASE gone["browser"]
    BY <1>1, <2>1
  <2>2. CASE ~gone["browser"]
    BY <1>4, <2>2
  <2> QED
    BY <2>1, <2>2
<1>6. PICK m \in Seq(Bytes) : m = Left(net["child"], chunk)
  OBVIOUS
<1>7. /\ net' = [net EXCEPT !["child"] = m, !["browser"] = n]
      /\ reply' = Refused(status) /\ cpc' = "ended" /\ gone' = [gone EXCEPT !["child"] = TRUE]
  <2>1. CASE gone["browser"]
    <3>1. net' = [net EXCEPT !["child"] = m, !["browser"] = @]
      BY <1>6, <2>1 DEF Refuse, Left
    <3>2. net \in [Side -> Seq(Bytes)]
      BY DEF IInv, TypeInv
    <3>3. n = net["browser"]
      BY <1>5, <2>1
    <3>4. net' = [net EXCEPT !["child"] = m, !["browser"] = n]
      BY <3>1, <3>2, <3>3 DEF Side
    <3> QED
      BY <3>4 DEF Refuse, ChildEnds
  <2>2. CASE ~gone["browser"]
    <3>1. net' = [net EXCEPT !["child"] = m, !["browser"] = @ \o Header]
      BY <1>6, <2>2 DEF Refuse, Left
    <3>2. net \in [Side -> Seq(Bytes)]
      BY DEF IInv, TypeInv
    <3>3. net' = [net EXCEPT !["child"] = m, !["browser"] = n]
      BY <1>1, <1>5, <2>2, <3>1, <3>2
    <3> QED
      BY <3>3 DEF Refuse, ChildEnds
  <2> QED
    BY <2>1, <2>2
<1>8. /\ loop'["child"] = r /\ loop'["browser"] = loop["browser"]
      /\ net'["child"] = m /\ net'["browser"] = n
      /\ gone'["child"] /\ gone'["browser"] = gone["browser"]
      /\ loop' \in [Side -> LoopType] /\ net' \in [Side -> Seq(Bytes)]
      /\ gone' \in [Side -> BOOLEAN]
  BY <1>1, <1>5, <1>7 DEF IInv, TypeInv, Side
<1>9. reply'.status = status /\ content_len(reply') = -1
  BY <1>7, ContentLen DEF Refused
<1>10. TypeInv'
  <2>1. status \in {0, 200, 304, 403, 404} /\ -1 \in Nat \union {-1}
    OBVIOUS
  <2>2. /\ cmd' \in [method : {"GET", "PUT"}, length : Nat, access : Accesses]
        /\ (cmd.access \in Access(cmd.method))'
        /\ bpc' \in {"start", "sendfile", "getresponse", "ended"}
        /\ file' \in [Side -> Seq(Bytes) \union {None}]
        /\ unsent' \in [Side -> Seq(Bytes)]
        /\ result' \in {"none", "timeout", "disconnected", "header", "opened"}
    BY DEF IInv, TypeInv, Access
  <2>3. reply'.status \in {0, 200, 304, 403, 404} /\ content_len(reply)' \in Nat \union {-1}
    BY <1>9, <2>1
  <2> QED
    BY <1>7, <1>8, <2>2, <2>3 DEF TypeInv
<1>11. CmdInv'
  BY <1>7, <1>8 DEF IInv, CmdInv
<1>12. Refusal' = Refusal
  BY RefusalFrame
<1>13. ~Stores' /\ ~Fetches'
  BY <1>9, <1>12 DEF Stores, Fetches
<1>14. ChildInv'
  BY <1>7, <1>9, <1>13 DEF ChildInv
<1>15. BrowserInv'
  BY <1>2, <1>3, <1>8 DEF IInv, BrowserInv
<1>16. ToChildInv'
  BY <1>8, <1>13, ToChildClosed
<1>17. ToBrowserInv'
  <2>1. ToBrowser' = <<>> /\ <<>> \in Seq(Bytes)
    BY <1>13 DEF ToBrowser
  <2>2. HeadInv(loop["browser"])
    BY DEF IInv, ToBrowserInv
  <2>3. ~gone["browser"] => OnWay(loop["browser"], n, <<>>)
    <3> SUFFICES ASSUME ~gone["browser"] PROVE OnWay(loop["browser"], n, <<>>)
      OBVIOUS
    <3>1. /\ OnWay(loop["browser"], net["browser"], ToBrowser)
          /\ Sent(loop["browser"], net["browser"]) = 0
      BY <1>3 DEF IInv, ToBrowserInv
    <3>2. PICK l \in LoopType : l = loop["browser"]
      BY <1>1
    <3>3. PICK e \in Seq(Bytes) : e = <<>>
      BY <2>1
    <3>4. PICK u \in Seq(Bytes) : u = net["browser"]
      BY <1>1
    <3>5. PICK old : old = ToBrowser
      OBVIOUS
    <3>6. OnWay(l, u, old) /\ Sent(l, u) = 0
      BY <3>1, <3>2, <3>4, <3>5
    <3>7. OnWay(l, u \o Header, e)
      BY <3>6, GiveHeader
    <3> QED
      BY <1>5, <3>2, <3>3, <3>4, <3>7
  <2> QED
    BY <1>7, <1>8, <1>13, <2>1, <2>2, <2>3 DEF ToBrowserInv
<1> QED
  BY <1>10, <1>11, <1>14, <1>15, <1>16, <1>17 DEF IInv

LEMMA CRefuseStep ==
  ASSUME IInv, cpc = "getRequest", NEW chunk \in Chunks("child"), CRefuse(chunk),
         UNCHANGED <<cmd, bpc, unsent, result>>
  PROVE  IInv'
<1>1. PICK r : r = Scan(loop["child"], chunk)
  OBVIOUS
<1>2. /\ ~loop["child"].found /\ Refusal # 0 /\ loop' = [loop EXCEPT !["child"] = r]
      /\ Refuse(Refusal, chunk) /\ UNCHANGED file
  BY <1>1 DEF CRefuse
<1>3. r \in LoopType /\ HeadInv(r) /\ Left(net["child"], chunk) \in Seq(Bytes)
  BY <1>1, <1>2, ChildReceives
<1>4. Refusal \in {304, 403, 404} /\ ~Stores
  BY <1>2 DEF Refusal, Stores
<1> QED
  BY <1>2, <1>3, <1>4, RefuseStep

LEMMA CNotOpenedStep ==
  ASSUME IInv, CNotOpened, UNCHANGED <<cmd, bpc, result>>
  PROVE  IInv'
<1>1. /\ cpc = "respond" /\ cmd.access = "closed" /\ Refuse(404, <<>>)
      /\ UNCHANGED <<file, loop, unsent>>
  BY DEF CNotOpened
<1>2. ~Stores
  BY <1>1 DEF IInv, TypeInv, Access, Stores
<1>3. PICK r : r = loop["child"]
  OBVIOUS
<1>4. r \in LoopType /\ HeadInv(r) /\ net["child"] \in Seq(Bytes)
  BY <1>3, Facts DEF IInv, ToChildInv
<1>5. Left(net["child"], <<>>) \in Seq(Bytes)
  <2>1. 0 \in 0 .. Len(net["child"]) /\ Len(<<>>) = 0
    BY <1>4
  <2> QED
    BY <1>4, <2>1, Cut DEF Left
<1>6. loop' = [loop EXCEPT !["child"] = r]
  BY <1>1, <1>3 DEF IInv, TypeInv
<1>7. cpc \in {"getRequest", "respond"} /\ UNCHANGED <<cmd, bpc, file, unsent, result>>
  BY <1>1
<1>8. PICK e : e = <<>>
  OBVIOUS
<1>9. PICK status \in {304, 403, 404} : status = 404
  OBVIOUS
<1>10. Left(net["child"], e) \in Seq(Bytes) /\ Refuse(status, e)
  BY <1>1, <1>5, <1>8, <1>9
<1> QED
  BY <1>2, <1>4, <1>6, <1>7, <1>10, RefuseStep

\* getRequest has the header of a GET.
LEMMA CGetStep ==
  ASSUME IInv, cpc = "getRequest", NEW chunk \in Chunks("child"), CGet(chunk),
         UNCHANGED <<cmd, bpc, unsent, result>>
  PROVE  IInv'
<1>1. /\ ~loop["child"].found /\ Scan(loop["child"], chunk).found
      /\ Refusal = 0 /\ cmd.method = "GET"
  BY DEF CGet
<1>2. "child" \in Side /\ "browser" \in Side /\ cmd.method \in {"GET", "PUT"}
  BY Facts
<1>3. PICK r : r = Scan(loop["child"], chunk)
  OBVIOUS
<1>4. r \in LoopType /\ HeadInv(r) /\ r.found /\ Left(net["child"], chunk) \in Seq(Bytes)
  BY <1>1, <1>3, ChildReceives
<1>5. PICK m \in Seq(Bytes) : m = Left(net["child"], chunk)
  BY <1>4
<1>6. /\ loop' = [loop EXCEPT !["child"] = r] /\ net' = [net EXCEPT !["child"] = m]
      /\ cpc' = "respond" /\ UNCHANGED <<file, reply, gone>>
  BY <1>3, <1>5 DEF CGet, Take, Left
<1>7. /\ loop'["child"] = r /\ loop'["browser"] = loop["browser"]
      /\ net'["child"] = m /\ net'["browser"] = net["browser"]
      /\ loop' \in [Side -> LoopType] /\ net' \in [Side -> Seq(Bytes)]
  BY <1>2, <1>4, <1>6 DEF IInv, TypeInv, Side
<1>8. TypeInv'
  BY <1>6, <1>7 DEF IInv, TypeInv
<1>9. CmdInv'
  BY <1>6 DEF IInv, CmdInv
<1>10. Refusal' = Refusal
  BY <1>6, RefusalFrame
<1>11. (Stores' <=> Stores) /\ (Fetches' <=> Fetches) /\ ~Stores
  BY <1>1, <1>6, <1>10 DEF Stores, Fetches
<1>12. ChildInv'
  <2>1. reply = NoReply /\ loop["browser"] = NoLoop["browser"] /\ ~Fetches
    BY DEF IInv, ChildInv, Fetches, NoReply
  <2> QED
    BY <1>1, <1>4, <1>6, <1>7, <1>10, <1>11, <2>1 DEF ChildInv
<1>13. BrowserInv'
  BY <1>6, <1>7, BrowserFrame DEF IInv
<1>14. ToChildInv'
  BY <1>4, <1>7, <1>11 DEF ToChildInv
<1>15. ToBrowserInv'
  BY <1>2, <1>6, <1>7, ToBrowserFrame DEF IInv
<1> QED
  BY <1>8, <1>9, <1>12, <1>13, <1>14, <1>15 DEF IInv

\* It has that of a PUT: the file gets what has come behind it.
LEMMA CPutStep ==
  ASSUME IInv, cpc = "getRequest", NEW chunk \in Chunks("child"), CPut(chunk),
         UNCHANGED <<cmd, bpc, unsent, result>>
  PROVE  IInv'
<1>1. /\ ~loop["child"].found /\ Scan(loop["child"], chunk).found
      /\ Refusal = 0 /\ cmd.method = "PUT"
  BY DEF CPut
<1>2. "child" \in Side /\ "browser" \in Side /\ cmd.method \in {"GET", "PUT"}
  BY Facts
<1>3. PICK r : r = Scan(loop["child"], chunk)
  OBVIOUS
<1>4. PICK m : m = Left(net["child"], chunk)
  OBVIOUS
<1>5. /\ r \in LoopType /\ HeadInv(r) /\ r.found
      /\ m \in Seq(Bytes) /\ OnWay(r, m, ToChild)
      /\ Sent(r, m) = Sent(loop["child"], net["child"])
      /\ RestStored(loop["child"], chunk, ToChild)
  BY <1>1, <1>3, <1>4, ChildReceives
<1>6. PICK rest \in Rest(loop["child"], chunk) : file' = [file EXCEPT !["child"] = rest]
  BY DEF CPut, FirstOfBody
<1>7. Stored(r, rest, ToChild) /\ rest \in Seq(Bytes)
  <2>1. Stored(r, rest, ToChild)
    BY <1>3, <1>5, <1>6 DEF RestStored
  <2> QED
    BY <1>5, <2>1 DEF Stored
<1>8. /\ loop' = [loop EXCEPT !["child"] = r] /\ net' = [net EXCEPT !["child"] = m]
      /\ UNCHANGED <<cpc, reply, gone>>
  BY <1>3, <1>4 DEF CPut, FirstOfBody, Take, Left
<1>9. /\ loop'["child"] = r /\ loop'["browser"] = loop["browser"]
      /\ net'["child"] = m /\ net'["browser"] = net["browser"]
      /\ file'["child"] = rest /\ file'["browser"] = file["browser"]
      /\ loop' \in [Side -> LoopType] /\ net' \in [Side -> Seq(Bytes)]
      /\ file' \in [Side -> Seq(Bytes) \union {None}]
  BY <1>2, <1>5, <1>6, <1>7, <1>8 DEF IInv, TypeInv, Side
<1>10. TypeInv'
  BY <1>8, <1>9 DEF IInv, TypeInv
<1>11. CmdInv'
  BY <1>8, <1>9 DEF IInv, CmdInv
<1>12. Refusal' = Refusal
  BY <1>1, RefusalFrame
<1>13. Stores /\ Stores' /\ ~Fetches /\ ~Fetches'
  BY <1>1, <1>12 DEF Stores, Fetches
<1>14. ChildInv'
  <2>1. reply = NoReply /\ loop["browser"] = NoLoop["browser"] /\ reply.status = 0
    BY DEF IInv, ChildInv, NoReply
  <2> QED
    BY <1>8, <1>9, <1>13, <2>1 DEF ChildInv
<1>15. BrowserInv'
  BY <1>8, <1>9, BrowserFrame DEF IInv
<1>16. ToChildInv'
  <2>1. ToChild' = ToChild /\ ToChild = file["browser"]
    BY <1>1, <1>9 DEF ToChild
  <2>2. ~gone["child"] /\ ~gone'["child"]
    BY <1>8 DEF IInv, CmdInv
  <2> QED
    BY <1>1, <1>5, <1>7, <1>8, <1>9, <1>13, <2>1, <2>2 DEF IInv, ToChildInv
<1>17. ToBrowserInv'
  BY <1>1, <1>2, <1>8, <1>9, ToBrowserFrame DEF IInv
<1> QED
  BY <1>10, <1>11, <1>14, <1>15, <1>16, <1>17 DEF IInv

\* The file of a PUT gets more.
LEMMA CBodyStep ==
  ASSUME IInv, cpc = "getRequest", NEW chunk \in Chunks("child"), CBody(chunk),
         UNCHANGED <<cmd, bpc, unsent, result>>
  PROVE  IInv'
<1>1. loop["child"].found /\ Stores
  BY DEF CBody, MoreBody, IInv, ChildInv
<1>2. /\ loop["child"] \in LoopType /\ net["child"] \in Seq(Bytes) /\ ToChild \in Seq(Bytes)
      /\ "child" \in Side /\ "browser" \in Side /\ cmd.method \in {"GET", "PUT"}
  BY Facts
<1>3. cmd.method = "PUT" /\ ToChild = file["browser"] /\ Refusal = 0
  BY <1>1 DEF Stores, ToChild
<1>4. HeadInv(loop["child"]) /\ Stored(loop["child"], file["child"], ToChild)
  BY <1>1, <1>3 DEF IInv, ToChildInv
<1>5. file["child"] \in Seq(Bytes)
  BY <1>1, <1>4 DEF Stored
<1>6. Prefix(chunk, net["child"])
  BY <1>2, ChunkIs
<1>7. PICK r : r = [loop["child"] EXCEPT !.total = @ + Len(chunk)]
  OBVIOUS
<1>8. PICK m : m = Left(net["child"], chunk)
  OBVIOUS
<1>9. PICK f : f = file["child"] \o chunk
  OBVIOUS
<1>10. /\ r \in LoopType /\ HeadInv(r) /\ r.found /\ r.torn = loop["child"].torn
       /\ m \in Seq(Bytes) /\ f \in Seq(Bytes)
       /\ OnWay(loop["child"], net["child"], ToChild) /\ ~loop["child"].torn =>
            /\ OnWay(r, m, ToChild) /\ Sent(r, m) = Sent(loop["child"], net["child"])
            /\ Stored(r, f, ToChild)
  <2>1. PICK l \in LoopType : l = loop["child"]
    BY <1>2
  <2>2. PICK n \in Seq(Bytes) : n = net["child"]
    BY <1>2
  <2>3. PICK g \in Seq(Bytes) : g = file["child"]
    BY <1>5
  <2>4. PICK body \in Seq(Bytes) : body = ToChild
    BY <1>2
  <2>5. l.found /\ HeadInv(l) /\ Prefix(chunk, n) /\ Stored(l, g, body)
    BY <1>1, <1>4, <1>6, <2>1, <2>2, <2>3, <2>4
  <2>6. r = [l EXCEPT !.total = @ + Len(chunk)] /\ m = Left(n, chunk) /\ f = g \o chunk
    BY <1>7, <1>8, <1>9, <2>1, <2>2, <2>3
  <2>7. /\ r \in LoopType /\ HeadInv(r) /\ r.found /\ r.torn = l.torn
        /\ m \in Seq(Bytes) /\ f \in Seq(Bytes)
        /\ OnWay(l, n, body) /\ Stored(l, g, body) /\ ~l.torn =>
             OnWay(r, m, body) /\ Sent(r, m) = Sent(l, n) /\ Stored(r, f, body)
    BY <2>5, <2>6, TakeBody
  <2> QED
    BY <2>1, <2>2, <2>4, <2>5, <2>7
<1>11. /\ loop' = [loop EXCEPT !["child"] = r] /\ net' = [net EXCEPT !["child"] = m]
       /\ file' = [file EXCEPT !["child"] = f]
       /\ cpc' = IF loop'["child"].total >= cmd.length THEN "respond" ELSE "getRequest"
       /\ UNCHANGED <<reply, gone>>
  <2>1. loop' = [loop EXCEPT !["child"].total = @ + Len(chunk)]
    BY DEF CBody, MoreBody
  <2>2. loop' = [loop EXCEPT !["child"] = r]
    BY <1>7, <2>1
  <2> QED
    BY <1>8, <1>9, <2>2 DEF CBody, MoreBody, Take, Left
<1>12. /\ loop'["child"] = r /\ loop'["browser"] = loop["browser"]
       /\ net'["child"] = m /\ net'["browser"] = net["browser"]
       /\ file'["child"] = f /\ file'["browser"] = file["browser"]
       /\ loop' \in [Side -> LoopType] /\ net' \in [Side -> Seq(Bytes)]
       /\ file' \in [Side -> Seq(Bytes) \union {None}]
  BY <1>2, <1>10, <1>11 DEF IInv, TypeInv, Side
<1>13. /\ cpc' \in {"getRequest", "respond"}
       /\ cpc' = "respond" => r.total >= cmd.length
  BY <1>11, <1>12
<1>14. TypeInv'
  BY <1>11, <1>12, <1>13 DEF IInv, TypeInv
<1>15. CmdInv'
  BY <1>11, <1>12 DEF IInv, CmdInv
<1>16. Refusal' = Refusal
  BY <1>3, RefusalFrame
<1>17. Stores /\ Stores' /\ ~Fetches /\ ~Fetches'
  BY <1>3, <1>16 DEF Stores, Fetches
<1>18. ChildInv'
  <2>1. reply = NoReply /\ loop["browser"] = NoLoop["browser"] /\ reply.status = 0
    BY DEF IInv, ChildInv, NoReply
  <2> QED
    BY <1>3, <1>10, <1>11, <1>12, <1>13, <1>16, <1>17, <2>1 DEF ChildInv
<1>19. BrowserInv'
  BY <1>11, <1>12, BrowserFrame DEF IInv
<1>20. ToChildInv'
  <2>1. ToChild' = ToChild
    BY <1>3, <1>12 DEF ToChild
  <2>2. ~gone["child"]
    BY DEF IInv, CmdInv
  <2>3. CASE loop["child"].torn
    <3>1. Stored(r, f, ToChild)
      BY <1>10, <2>3 DEF Stored
    <3> QED
      BY <1>3, <1>10, <1>12, <2>3, <3>1 DEF ToChildInv
  <2>4. CASE ~loop["child"].torn
    <3>1. /\ OnWay(loop["child"], net["child"], ToChild)
          /\ bpc = "start" => Sent(loop["child"], net["child"]) = 0
          /\ bpc \in {"sendfile", "getresponse"} =>
               Sent(loop["child"], net["child"]) + Len(unsent["browser"]) = 8 + Len(ToChild)
      BY <1>1, <2>2, <2>4 DEF IInv, ToChildInv
    <3>2. /\ OnWay(r, m, ToChild) /\ Sent(r, m) = Sent(loop["child"], net["child"])
          /\ Stored(r, f, ToChild)
      BY <1>10, <2>4, <3>1
    <3> QED
      BY <1>3, <1>10, <1>12, <2>1, <3>1, <3>2 DEF ToChildInv
  <2> QED
    BY <2>3, <2>4
<1>21. ToBrowserInv'
  BY <1>2, <1>3, <1>11, <1>12, <1>13, ToBrowserFrame DEF IInv
<1> QED
  BY <1>14, <1>15, <1>18, <1>19, <1>20, <1>21 DEF IInv

\* What net holds for the browser after a send of the child.
LEMMA ChildSent ==
  ASSUME IInv, NEW c, net["browser"] \o c \in Seq(Bytes), ChildSends(c)
  PROVE  /\ net' \in [Side -> Seq(Bytes)] /\ net'["child"] = net["child"]
         /\ ~gone["browser"] => net'["browser"] = net["browser"] \o c
<1>1. net \in [Side -> Seq(Bytes)] /\ "browser" \in Side /\ "child" \in Side
  BY DEF IInv, TypeInv, Side
<1>2. CASE gone["browser"]
  <2>1. net' = [net EXCEPT !["browser"] = @]
    BY <1>2 DEF ChildSends
  <2> QED
    BY <1>1, <1>2, <2>1
<1>3. CASE ~gone["browser"]
  <2>1. net' = [net EXCEPT !["browser"] = @ \o c]
    BY <1>3 DEF ChildSends
  <2> QED
    BY <1>1, <2>1
<1> QED
  BY <1>2, <1>3

LEMMA CRespondStep ==
  ASSUME IInv, CRespond, UNCHANGED <<cmd, bpc, result>>
  PROVE  IInv'
<1>1. cpc = "respond" /\ cpc' = "sendfile" /\ ChildSends(Header) /\ UNCHANGED <<file, loop, gone>>
  BY DEF CRespond
<1>2. /\ loop["browser"] \in LoopType /\ net["browser"] \in Seq(Bytes)
      /\ "child" \in Side /\ "browser" \in Side /\ cmd.method \in {"GET", "PUT"}
  BY Facts
<1>3. /\ reply = NoReply /\ loop["browser"] = NoLoop["browser"] /\ loop["child"].found /\ Refusal = 0
      /\ cmd.method = "PUT" => loop["child"].total >= cmd.length
  BY <1>1 DEF IInv, ChildInv
<1>4. ~loop["browser"].found /\ ~Fetches
  BY <1>2, <1>3 DEF NoLoop, NoReply, Fetches
<1>5. net["browser"] \o Header \in Seq(Bytes)
  BY <1>2, HeaderIs, ConcatProperties
<1>6. /\ net' \in [Side -> Seq(Bytes)] /\ net'["child"] = net["child"]
      /\ ~gone["browser"] => net'["browser"] = net["browser"] \o Header
  BY <1>1, <1>5, ChildSent
<1>7. PICK body \in Seq(Bytes) :
        body = (IF cmd.method = "GET" THEN file["child"] ELSE <<>>)
  <2>1. CASE cmd.method = "GET"
    BY <1>3, <2>1, Facts
  <2>2. CASE cmd.method # "GET"
    <3>1. <<>> \in Seq(Bytes)
      OBVIOUS
    <3> QED
      BY <2>2, <3>1
  <2> QED
    BY <2>1, <2>2
<1>8. unsent' = [unsent EXCEPT !["child"] = body]
  BY <1>7 DEF CRespond
<1>9. /\ unsent' \in [Side -> Seq(Bytes)]
      /\ unsent'["child"] = body /\ unsent'["browser"] = unsent["browser"]
  BY <1>2, <1>8 DEF IInv, TypeInv, Side
<1>10. /\ reply'.status = 200 /\ content_len(reply') \in Nat \union {-1}
       /\ cmd.method = "GET" => content_len(reply') = Len(file["child"])
  <2>1. CASE cmd.method = "GET"
    <3>1. reply' = Gets(<<"type">>, Len(file["child"]))
      BY <2>1 DEF CRespond
    <3>2. body = file["child"] /\ Len(body) \in Nat
      BY <1>7, <2>1
    <3>3. reply'.status = 200
      BY <3>1 DEF Gets
    <3>4. content_len(reply') = Len(file["child"])
      BY <3>1, ContentLen
    <3> QED
      BY <3>2, <3>3, <3>4
  <2>2. CASE cmd.method # "GET"
    <3>1. reply' = Puts
      BY <2>2 DEF CRespond
    <3>2. reply'.status = 200
      BY <3>1 DEF Puts
    <3> QED
      BY <2>2, <3>1, <3>2, ContentLen
  <2> QED
    BY <2>1, <2>2
<1>11. TypeInv'
  BY <1>1, <1>6, <1>9, <1>10 DEF IInv, TypeInv
<1>12. CmdInv'
  BY <1>1 DEF IInv, CmdInv
<1>13. Refusal' = Refusal
  BY <1>1, RefusalFrame
<1>14. (Fetches' <=> cmd.method = "GET") /\ ToBrowser' = body
  BY <1>1, <1>7, <1>10 DEF Fetches, ToBrowser
<1>15. ChildInv'
  <2>1. LastPart(body, body)
    BY LastPartAll
  <2> QED
    BY <1>1, <1>3, <1>9, <1>10, <1>13, <1>14, <2>1 DEF ChildInv
<1>16. BrowserInv'
  BY <1>1, <1>4, <1>9 DEF IInv, BrowserInv
<1>17. ToChildInv'
  BY <1>1, <1>2, <1>6, <1>9, ToChildFrame DEF IInv
<1>18. ToBrowserInv'
  <2>1. HeadInv(loop["browser"])
    BY DEF IInv, ToBrowserInv
  <2>2. ASSUME ~gone["browser"]
        PROVE  /\ OnWay(loop["browser"], net["browser"] \o Header, body)
               /\ Sent(loop["browser"], net["browser"] \o Header) = 8
    <3>1. PICK l \in LoopType : l = loop["browser"]
      BY <1>2
    <3>2. PICK u \in Seq(Bytes) : u = net["browser"]
      BY <1>2
    <3>3. PICK old : old = ToBrowser
      OBVIOUS
    <3>4. OnWay(l, u, old) /\ Sent(l, u) = 0
      BY <1>1, <1>4, <2>2, <3>1, <3>2, <3>3 DEF IInv, ToBrowserInv
    <3>5. OnWay(l, u \o Header, body) /\ Sent(l, u \o Header) = 8
      BY <3>4, GiveHeader
    <3> QED
      BY <3>1, <3>2, <3>5
  <2>3. ~gone'["browser"] =>
          /\ OnWay(loop'["browser"], net'["browser"], ToBrowser')
          /\ Sent(loop'["browser"], net'["browser"]) + Len(unsent'["child"]) =
               8 + Len(ToBrowser')
    BY <1>1, <1>6, <1>9, <1>14, <2>2
  <2>4. ~loop'["browser"].found /\ HeadInv(loop'["browser"]) /\ cpc' = "sendfile"
    BY <1>1, <1>4, <2>1
  <2>5. Fetches' => Stored(loop'["browser"], file'["browser"], file'["child"])
    BY <2>4 DEF Stored
  <2> QED
    BY <2>3, <2>4, <2>5 DEF ToBrowserInv
<1> QED
  BY <1>11, <1>12, <1>15, <1>16, <1>17, <1>18 DEF IInv

LEMMA CSendFileStep ==
  ASSUME IInv, CSendFile, UNCHANGED <<cmd, bpc, result>>
  PROVE  IInv'
<1>1. /\ cpc = "sendfile" /\ unsent["child"] # <<>>
      /\ UNCHANGED <<cpc, file, reply, loop, gone>>
  BY DEF CSendFile
<1>2. PICK l \in LoopType : l = loop["browser"]
  BY Facts
<1>3. PICK n \in Seq(Bytes) : n = net["browser"]
  BY Facts
<1>4. PICK u \in Seq(Bytes) : u = unsent["child"]
  BY Facts
<1>5. PICK body \in Seq(Bytes) : body = ToBrowser
  BY Facts
<1>6. PICK k \in 0 .. Len(u) : k = Min({CHUNKSIZE, Len(u)})
  <2>1. Len(u) \in Nat /\ CHUNKSIZE \in Nat
    OBVIOUS
  <2>2. Min({CHUNKSIZE, Len(u)}) \in 0 .. Len(u)
    BY <2>1, MinOfTwo
  <2> QED
    BY <2>2
<1>7. /\ ChildSends(Front(u, k))
      /\ unsent' = [unsent EXCEPT !["child"] = After(u, k)]
  BY <1>4, <1>6 DEF CSendFile, Front, After
<1>8. LastPart(u, body)
  BY <1>1, <1>4, <1>5 DEF IInv, ChildInv
<1>9. Front(u, k) \in Seq(Bytes) /\ After(u, k) \in Seq(Bytes) /\ LastPart(After(u, k), body)
  BY <1>8, LastPartCut
<1>10. n \o Front(u, k) \in Seq(Bytes)
  BY <1>9, ConcatProperties
<1>11. /\ net' \in [Side -> Seq(Bytes)] /\ net'["child"] = net["child"]
       /\ ~gone["browser"] => net'["browser"] = n \o Front(u, k)
  BY <1>3, <1>7, <1>10, ChildSent
<1>12. /\ unsent' \in [Side -> Seq(Bytes)]
       /\ unsent'["child"] = After(u, k) /\ unsent'["browser"] = unsent["browser"]
  BY <1>7, <1>9 DEF IInv, TypeInv, Side
<1>13. TypeInv'
  BY <1>1, <1>11, <1>12 DEF IInv, TypeInv
<1>14. CmdInv'
  BY <1>1 DEF IInv, CmdInv
<1>15. Refusal' = Refusal
  BY <1>1, RefusalFrame
<1>16. (Stores' <=> Stores) /\ (Fetches' <=> Fetches)
  BY <1>1, <1>15 DEF Stores, Fetches
<1>17. ToBrowser' = body
  BY <1>1, <1>5, <1>16 DEF ToBrowser
<1>18. ChildInv'
  BY <1>1, <1>9, <1>12, <1>15, <1>16, <1>17 DEF IInv, ChildInv
<1>19. BrowserInv'
  BY <1>1, <1>12, BrowserFrame DEF IInv
<1>20. ToChildInv'
  <2>1. cmd.method \in {"GET", "PUT"}
    BY Facts
  <2> QED
    BY <1>1, <1>11, <1>12, <2>1, ToChildFrame DEF IInv
<1>21. ToBrowserInv'
  <2>1. ASSUME ~gone["browser"], l.found => Fetches /\ ~l.torn
        PROVE  /\ OnWay(l, n \o Front(u, k), body)
               /\ Sent(l, n \o Front(u, k)) + Len(After(u, k)) = 8 + Len(body)
    <3>1. OnWay(l, n, body) /\ Sent(l, n) + Len(u) = 8 + Len(body)
      BY <1>1, <1>2, <1>3, <1>4, <1>5, <2>1 DEF IInv, ToBrowserInv
    <3> QED
      BY <1>8, <3>1, GiveBody
  <2>2. /\ HeadInv(l)
        /\ Fetches => Stored(l, file["browser"], file["child"])
    BY <1>2 DEF IInv, ToBrowserInv
  <2> QED
    BY <1>1, <1>2, <1>11, <1>12, <1>16, <1>17, <2>1, <2>2 DEF ToBrowserInv
<1> QED
  BY <1>13, <1>14, <1>18, <1>19, <1>20, <1>21 DEF IInv

LEMMA ChildStep ==
  ASSUME IInv, child
  PROVE  IInv'
<1>1. UNCHANGED <<cmd, bpc, result>>
  BY DEF child
<1>2. CASE CNotForked \/ CCrash \/ CLogAndExit \/ CSendFails
  BY <1>1, <1>2, ChildEndsStep DEF CNotForked, CCrash, CLogAndExit, CSendFails
<1>3. CASE getRequest
  <2>1. cpc = "getRequest" /\ UNCHANGED unsent
    BY <1>3 DEF getRequest
  <2>2. CASE CDisconnected
    BY <1>1, <2>1, <2>2, ChildEndsStep DEF CDisconnected
  <2>3. ASSUME NEW chunk \in Chunks("child"),
               CHeader(chunk) \/ CRefuse(chunk) \/ CGet(chunk) \/ CPut(chunk) \/ CBody(chunk)
        PROVE  IInv'
    BY <1>1, <2>1, <2>3, CHeaderStep, CRefuseStep, CGetStep, CPutStep, CBodyStep
  <2> QED
    BY <1>3, <2>2, <2>3 DEF getRequest
<1>4. CASE CRespond
  BY <1>1, <1>4, CRespondStep
<1>5. CASE CNotOpened
  BY <1>1, <1>5, CNotOpenedStep
<1>6. CASE CSendFile
  BY <1>1, <1>6, CSendFileStep
<1> QED
  BY <1>2, <1>3, <1>4, <1>5, <1>6 DEF child

-----------------------------------------------------------------------------
(***************************************************************************)
(* The steps of the browser.                                               *)
(***************************************************************************)
LEMMA BrowserEndsStep ==
  ASSUME IInv, BrowserEnds, result' \in {result, "timeout", "disconnected"},
         UNCHANGED <<cmd, cpc, file, reply, loop, unsent, net>>
  PROVE  IInv'
<1>1. /\ bpc' = "ended" /\ gone'["browser"] /\ gone'["child"] = gone["child"]
      /\ gone' \in [Side -> BOOLEAN]
  BY DEF BrowserEnds, IInv, TypeInv, Side
<1>2. cmd.method \in {"GET", "PUT"}
  BY Facts
<1>3. TypeInv'
  BY <1>1 DEF IInv, TypeInv
<1>4. CmdInv'
  BY <1>1 DEF IInv, CmdInv
<1>5. Refusal' = Refusal
  BY RefusalFrame
<1>6. (Stores' <=> Stores) /\ (Fetches' <=> Fetches)
  BY <1>5 DEF Stores, Fetches
<1>7. ChildInv'
  BY ChildFrame DEF IInv
<1>8. BrowserInv'
  BY <1>1, <1>6 DEF IInv, BrowserInv
<1>9. ToChildInv'
  BY <1>1, <1>2, ToChildFrame DEF IInv
<1>10. ToBrowserInv'
  BY <1>1, <1>6, ToBrowserClosed DEF IInv, ToBrowserInv
<1> QED
  BY <1>3, <1>4, <1>7, <1>8, <1>9, <1>10 DEF IInv

LEMMA BrowserSent ==
  ASSUME IInv, NEW c, net["child"] \o c \in Seq(Bytes), BrowserSends(c)
  PROVE  /\ net' \in [Side -> Seq(Bytes)] /\ net'["browser"] = net["browser"]
         /\ ~gone["child"] => net'["child"] = net["child"] \o c
<1>1. net \in [Side -> Seq(Bytes)] /\ "browser" \in Side /\ "child" \in Side
  BY DEF IInv, TypeInv, Side
<1>2. CASE gone["child"]
  <2>1. net' = [net EXCEPT !["child"] = @]
    BY <1>2 DEF BrowserSends
  <2> QED
    BY <1>1, <1>2, <2>1
<1>3. CASE ~gone["child"]
  <2>1. net' = [net EXCEPT !["child"] = @ \o c]
    BY <1>3 DEF BrowserSends
  <2> QED
    BY <1>1, <2>1
<1> QED
  BY <1>2, <1>3

LEMMA BSendHeaderStep ==
  ASSUME IInv, BSendHeader, UNCHANGED <<cmd, cpc, reply>>
  PROVE  IInv'
<1>1. /\ bpc = "start" /\ BrowserSends(Header)
      /\ UNCHANGED <<file, loop, gone, result>>
  BY DEF BSendHeader
<1>2. /\ loop["child"] \in LoopType /\ net["child"] \in Seq(Bytes)
      /\ "child" \in Side /\ "browser" \in Side /\ cmd.method \in {"GET", "PUT"}
  BY Facts
<1>3. PICK body \in Seq(Bytes) : body = ToChild
  BY Facts
<1>4. net["child"] \o Header \in Seq(Bytes)
  BY <1>2, HeaderIs, ConcatProperties
<1>5. /\ net' \in [Side -> Seq(Bytes)] /\ net'["browser"] = net["browser"]
      /\ ~gone["child"] => net'["child"] = net["child"] \o Header
  BY <1>1, <1>4, BrowserSent
<1>6. unsent["browser"] = <<>> /\ ~loop["browser"].found
  BY <1>1 DEF IInv, BrowserInv
<1>7. /\ unsent' \in [Side -> Seq(Bytes)]
      /\ unsent'["browser"] = body /\ unsent'["child"] = unsent["child"]
      /\ bpc' = IF cmd.method = "PUT" THEN "sendfile" ELSE "getresponse"
  <2>1. unsent \in [Side -> Seq(Bytes)]
    BY DEF IInv, TypeInv
  <2>2. CASE cmd.method = "PUT"
    <3>1. unsent' = [unsent EXCEPT !["browser"] = body] /\ bpc' = "sendfile"
      BY <1>3, <2>2 DEF BSendHeader, ToChild
    <3> QED
      BY <1>2, <2>1, <2>2, <3>1
  <2>3. CASE cmd.method # "PUT"
    <3>1. unsent' = unsent /\ bpc' = "getresponse" /\ body = <<>>
      BY <1>3, <2>3 DEF BSendHeader, ToChild
    <3> QED
      BY <1>2, <1>6, <2>1, <2>3, <3>1
  <2> QED
    BY <2>2, <2>3
<1>8. bpc' \in {"sendfile", "getresponse"}
  BY <1>7
<1>9. TypeInv'
  BY <1>1, <1>5, <1>7, <1>8 DEF IInv, TypeInv
<1>10. CmdInv'
  BY <1>1 DEF IInv, CmdInv
<1>11. Refusal' = Refusal
  BY <1>1, RefusalFrame
<1>12. (Stores' <=> Stores) /\ (Fetches' <=> Fetches)
  BY <1>1, <1>11 DEF Stores, Fetches
<1>13. ToChild' = body
  BY <1>1, <1>3 DEF ToChild
<1>14. ChildInv'
  BY <1>1, <1>7, ChildFrame DEF IInv
<1>15. BrowserInv'
  <2>1. CASE cmd.method = "PUT"
    <3>1. body = file["browser"] /\ bpc' = "sendfile" /\ LastPart(body, body)
      BY <1>3, <1>7, <2>1, LastPartAll DEF ToChild
    <3> QED
      BY <1>1, <1>6, <1>7, <2>1, <3>1 DEF IInv, BrowserInv
  <2>2. CASE cmd.method # "PUT"
    <3>1. body = <<>> /\ bpc' = "getresponse"
      BY <1>3, <1>7, <2>2 DEF ToChild
    <3> QED
      BY <1>1, <1>6, <1>7, <3>1 DEF IInv, BrowserInv
  <2> QED
    BY <2>1, <2>2
<1>16. ToChildInv'
  <2>1. ASSUME ~gone["child"], loop["child"].found => Stores /\ ~loop["child"].torn
        PROVE  /\ OnWay(loop["child"], net["child"] \o Header, body)
               /\ Sent(loop["child"], net["child"] \o Header) = 8
    <3>1. PICK l \in LoopType : l = loop["child"]
      BY <1>2
    <3>2. PICK u \in Seq(Bytes) : u = net["child"]
      BY <1>2
    <3>3. OnWay(l, u, body) /\ Sent(l, u) = 0
      BY <1>1, <1>3, <2>1, <3>1, <3>2 DEF IInv, ToChildInv
    <3>4. OnWay(l, u \o Header, body) /\ Sent(l, u \o Header) = 8
      BY <3>3, GiveHeader
    <3> QED
      BY <3>1, <3>2, <3>4
  <2>2. ~gone'["child"] /\ (loop'["child"].found => Stores' /\ ~loop'["child"].torn) =>
          /\ OnWay(loop'["child"], net'["child"], ToChild')
          /\ Sent(loop'["child"], net'["child"]) + Len(unsent'["browser"]) =
               8 + Len(ToChild')
    BY <1>1, <1>5, <1>7, <1>12, <1>13, <2>1
  <2>3. HeadInv(loop'["child"])
    BY <1>1 DEF IInv, ToChildInv
  <2>4. Stores' => Stored(loop'["child"], file'["child"], file'["browser"])
    BY <1>1, <1>12 DEF IInv, ToChildInv
  <2> QED
    BY <1>8, <2>2, <2>3, <2>4 DEF ToChildInv
<1>17. ToBrowserInv'
  BY <1>1, <1>2, <1>5, <1>7, ToBrowserFrame DEF IInv
<1> QED
  BY <1>9, <1>10, <1>14, <1>15, <1>16, <1>17 DEF IInv

LEMMA SendFileStep ==
  ASSUME IInv, sendfile, UNCHANGED <<cmd, cpc, reply>>
  PROVE  IInv'
<1>1. bpc = "sendfile" /\ UNCHANGED <<file, loop, gone, result>>
  BY DEF sendfile
<1>2. cmd.method = "PUT" /\ ~loop["browser"].found
  BY <1>1 DEF IInv, BrowserInv
<1>3. PICK body \in Seq(Bytes) : body = ToChild
  BY Facts
<1>4. body = file["browser"]
  BY <1>2, <1>3 DEF ToChild
<1>5. PICK u \in Seq(Bytes) : u = unsent["browser"]
  BY Facts
<1>6. LastPart(u, body)
  BY <1>1, <1>4, <1>5 DEF IInv, BrowserInv
<1>7. cmd.method \in {"GET", "PUT"} /\ "browser" \in Side /\ "child" \in Side
  BY Facts
<1>8. CASE u = <<>>
  <2>1. bpc' = "getresponse" /\ UNCHANGED <<unsent, net>>
    BY <1>5, <1>8 DEF sendfile
  <2>2. TypeInv'
    BY <1>1, <2>1 DEF IInv, TypeInv
  <2>3. CmdInv'
    BY <1>1, <2>1 DEF IInv, CmdInv
  <2>4. ChildInv'
    BY <1>1, <2>1, ChildFrame DEF IInv
  <2>5. BrowserInv'
    BY <1>1, <1>2, <1>5, <1>8, <2>1 DEF IInv, BrowserInv
  <2>6. Refusal' = Refusal
    BY <1>1, RefusalFrame
  <2>7. (Stores' <=> Stores) /\ ToChild' = ToChild
    BY <1>1, <2>6 DEF Stores, ToChild
  <2>8. ToChildInv'
    BY <1>1, <2>1, <2>7 DEF IInv, ToChildInv
  <2>9. ToBrowserInv'
    BY <1>1, <1>7, <2>1, ToBrowserFrame DEF IInv
  <2> QED
    BY <2>2, <2>3, <2>4, <2>5, <2>8, <2>9 DEF IInv
<1>9. CASE u # <<>>
  <2>1. PICK l \in LoopType : l = loop["child"]
    BY Facts
  <2>2. PICK n \in Seq(Bytes) : n = net["child"]
    BY Facts
  <2>3. PICK k \in 0 .. Len(u) : k = Min({CHUNKSIZE, Len(u)})
    <3>1. Len(u) \in Nat /\ CHUNKSIZE \in Nat
      OBVIOUS
    <3>2. Min({CHUNKSIZE, Len(u)}) \in 0 .. Len(u)
      BY <3>1, MinOfTwo
    <3> QED
      BY <3>2
  <2>4. /\ BrowserSends(Front(u, k)) /\ bpc' = bpc
        /\ unsent' = [unsent EXCEPT !["browser"] = After(u, k)]
    BY <1>5, <1>9, <2>3 DEF sendfile, Front, After
  <2>5. Front(u, k) \in Seq(Bytes) /\ After(u, k) \in Seq(Bytes) /\ LastPart(After(u, k), body)
    BY <1>6, LastPartCut
  <2>6. n \o Front(u, k) \in Seq(Bytes)
    BY <2>5, ConcatProperties
  <2>7. /\ net' \in [Side -> Seq(Bytes)] /\ net'["browser"] = net["browser"]
        /\ ~gone["child"] => net'["child"] = n \o Front(u, k)
    BY <2>2, <2>4, <2>6, BrowserSent
  <2>8. /\ unsent' \in [Side -> Seq(Bytes)]
        /\ unsent'["browser"] = After(u, k) /\ unsent'["child"] = unsent["child"]
    BY <2>4, <2>5 DEF IInv, TypeInv, Side
  <2>9. TypeInv'
    BY <1>1, <2>4, <2>7, <2>8 DEF IInv, TypeInv
  <2>10. CmdInv'
    BY <1>1, <2>4 DEF IInv, CmdInv
  <2>11. Refusal' = Refusal
    BY <1>1, RefusalFrame
  <2>12. (Stores' <=> Stores) /\ ToChild' = body
    BY <1>1, <1>3, <2>11 DEF Stores, ToChild
  <2>13. ChildInv'
    BY <1>1, <2>8, ChildFrame DEF IInv
  <2>14. BrowserInv'
    <3>1. LastPart(unsent'["browser"], file'["browser"])
      BY <1>1, <1>4, <2>5, <2>8
    <3> QED
      BY <1>1, <1>2, <2>4, <3>1 DEF IInv, BrowserInv
  <2>15. ToChildInv'
    <3>1. ASSUME ~gone["child"], l.found => Stores /\ ~l.torn
          PROVE  /\ OnWay(l, n \o Front(u, k), body)
                 /\ Sent(l, n \o Front(u, k)) + Len(After(u, k)) = 8 + Len(body)
      <4>1. OnWay(l, n, body) /\ Sent(l, n) + Len(u) = 8 + Len(body)
        BY <1>1, <1>3, <1>5, <2>1, <2>2, <3>1 DEF IInv, ToChildInv
      <4> QED
        BY <1>6, <4>1, GiveBody
    <3>2. HeadInv(l) /\ (Stores => Stored(l, file["child"], file["browser"]))
      BY <2>1 DEF IInv, ToChildInv
    <3> QED
      BY <1>1, <2>1, <2>4, <2>7, <2>8, <2>12, <3>1, <3>2 DEF ToChildInv
  <2>16. ToBrowserInv'
    BY <1>1, <1>7, <2>7, <2>8, ToBrowserFrame DEF IInv
  <2> QED
    BY <2>9, <2>10, <2>13, <2>14, <2>15, <2>16 DEF IInv
<1> QED
  BY <1>8, <1>9

\* What the browser gets: something has been sent, so the child has answered.
LEMMA BrowserReceives ==
  ASSUME IInv, bpc = "getresponse", ~loop["browser"].found, NEW chunk \in Chunks("browser")
  PROVE  LET r == Scan(loop["browser"], chunk)
             m == Left(net["browser"], chunk)
         IN  /\ r \in LoopType /\ HeadInv(r)
             /\ m \in Seq(Bytes) /\ OnWay(r, m, ToBrowser)
             /\ Sent(r, m) = Sent(loop["browser"], net["browser"])
             /\ r.found => RestStored(loop["browser"], chunk, ToBrowser)
             /\ cpc \notin {"getRequest", "respond"}
<1>1. ~gone["browser"] /\ "browser" \in Side
  BY Facts DEF IInv, CmdInv
<1>2. PICK l \in LoopType : l = loop["browser"]
  BY Facts
<1>3. PICK n \in Seq(Bytes) : n = net["browser"]
  BY Facts
<1>4. PICK body \in Seq(Bytes) : body = ToBrowser
  BY Facts
<1>5. /\ HeadInv(l) /\ ~l.found /\ OnWay(l, n, body)
      /\ cpc \in {"getRequest", "respond"} => Sent(l, n) = 0
  BY <1>1, <1>2, <1>3, <1>4 DEF IInv, ToBrowserInv
<1>6. Prefix(chunk, n)
  BY <1>1, <1>3, ChunkIs
<1>7. LET r == Scan(l, chunk)
      IN  /\ r \in LoopType /\ HeadInv(r)
          /\ Left(n, chunk) \in Seq(Bytes) /\ OnWay(r, Left(n, chunk), body)
          /\ Sent(r, Left(n, chunk)) = Sent(l, n)
          /\ r.found => RestStored(l, chunk, body)
  BY <1>5, <1>6, TakeHeader
<1>8. cpc \notin {"getRequest", "respond"}
  <2>1. PICK len \in Nat : len = Len(n)
    OBVIOUS
  <2>2. len > 0
    BY <1>6, <2>1 DEF Prefix
  <2>3. PICK t \in Nat : t = Taken(l)
    BY <1>5 DEF OnWay
  <2>4. Sent(l, n) # 0
    BY <2>1, <2>2, <2>3 DEF Sent
  <2> QED
    BY <1>5, <2>4
<1> QED
  BY <1>2, <1>3, <1>4, <1>7, <1>8

LEMMA BHeaderStep ==
  ASSUME IInv, bpc = "getresponse", NEW chunk \in Chunks("browser"), BHeader(chunk),
         UNCHANGED <<cmd, cpc, reply, unsent>>
  PROVE  IInv'
<1>1. ~loop["browser"].found /\ ~Scan(loop["browser"], chunk).found
  BY DEF BHeader, MoreHeader
<1>2. "child" \in Side /\ "browser" \in Side /\ cmd.method \in {"GET", "PUT"}
  BY Facts
<1>3. PICK r : r = Scan(loop["browser"], chunk)
  OBVIOUS
<1>4. PICK m : m = Left(net["browser"], chunk)
  OBVIOUS
<1>5. /\ r \in LoopType /\ ~r.found /\ HeadInv(r)
      /\ m \in Seq(Bytes) /\ OnWay(r, m, ToBrowser)
      /\ Sent(r, m) = Sent(loop["browser"], net["browser"])
      /\ cpc \notin {"getRequest", "respond"}
  BY <1>1, <1>3, <1>4, BrowserReceives
<1>6. /\ loop' = [loop EXCEPT !["browser"] = r] /\ net' = [net EXCEPT !["browser"] = m]
      /\ UNCHANGED <<bpc, file, gone, result>>
  BY <1>3, <1>4 DEF BHeader, MoreHeader, Take, Left
<1>7. /\ loop'["browser"] = r /\ loop'["child"] = loop["child"]
      /\ net'["browser"] = m /\ net'["child"] = net["child"]
      /\ loop' \in [Side -> LoopType] /\ net' \in [Side -> Seq(Bytes)]
  BY <1>2, <1>5, <1>6 DEF IInv, TypeInv, Side
<1>8. TypeInv'
  BY <1>6, <1>7 DEF IInv, TypeInv
<1>9. CmdInv'
  BY <1>6 DEF IInv, CmdInv
<1>10. (Fetches' <=> Fetches) /\ ToBrowser' = ToBrowser
  BY <1>6 DEF Fetches, ToBrowser
<1>11. ChildInv'
  BY <1>5, <1>6, <1>7, ChildFrame DEF IInv
<1>12. BrowserInv'
  BY <1>1, <1>5, <1>6, <1>7 DEF IInv, BrowserInv
<1>13. ToChildInv'
  BY <1>2, <1>6, <1>7, ToChildFrame DEF IInv
<1>14. ToBrowserInv'
  <2>1. ~gone["browser"] /\ ~gone'["browser"]
    BY <1>6 DEF IInv, CmdInv
  <2>2. Stored(r, file["browser"], file["child"])
    BY <1>5 DEF Stored
  <2> QED
    BY <1>1, <1>5, <1>6, <1>7, <1>10, <2>1, <2>2 DEF IInv, ToBrowserInv
<1> QED
  BY <1>8, <1>9, <1>11, <1>12, <1>13, <1>14 DEF IInv

\* A header without a file: getresponse returns.
LEMMA BOnlyHeaderStep ==
  ASSUME IInv, bpc = "getresponse", NEW chunk \in Chunks("browser"), BOnlyHeader(chunk),
         UNCHANGED <<cmd, cpc, reply, unsent>>
  PROVE  IInv'
<1>1. ~loop["browser"].found /\ ~Fetches
  BY DEF BOnlyHeader, Fetches
<1>2. "child" \in Side /\ "browser" \in Side /\ cmd.method \in {"GET", "PUT"}
  BY Facts
<1>3. PICK r : r = Scan(loop["browser"], chunk)
  OBVIOUS
<1>4. PICK m : m = Left(net["browser"], chunk)
  OBVIOUS
<1>5. /\ r \in LoopType /\ HeadInv(r) /\ m \in Seq(Bytes)
      /\ cpc \notin {"getRequest", "respond"}
  BY <1>1, <1>3, <1>4, BrowserReceives
<1>6. /\ loop' = [loop EXCEPT !["browser"] = r] /\ net' = [net EXCEPT !["browser"] = m]
      /\ bpc' = "ended" /\ gone' = [gone EXCEPT !["browser"] = TRUE]
      /\ result' = "header" /\ UNCHANGED file
  BY <1>3, <1>4 DEF BOnlyHeader, Take, Left, Return, BrowserEnds
<1>7. /\ loop'["browser"] = r /\ loop'["child"] = loop["child"]
      /\ net'["browser"] = m /\ net'["child"] = net["child"]
      /\ gone'["browser"] /\ gone'["child"] = gone["child"]
      /\ loop' \in [Side -> LoopType] /\ net' \in [Side -> Seq(Bytes)]
      /\ gone' \in [Side -> BOOLEAN]
  BY <1>2, <1>5, <1>6 DEF IInv, TypeInv, Side
<1>8. TypeInv'
  BY <1>6, <1>7 DEF IInv, TypeInv
<1>9. CmdInv'
  BY <1>6, <1>7 DEF IInv, CmdInv
<1>10. ~Fetches'
  BY <1>1 DEF Fetches
<1>11. ChildInv'
  BY <1>5, <1>6, <1>7, ChildFrame DEF IInv
<1>12. BrowserInv'
  BY <1>6 DEF BrowserInv
<1>13. ToChildInv'
  BY <1>2, <1>6, <1>7, ToChildFrame DEF IInv
<1>14. ToBrowserInv'
  BY <1>5, <1>7, <1>10, ToBrowserClosed
<1> QED
  BY <1>8, <1>9, <1>11, <1>12, <1>13, <1>14 DEF IInv

\* A header with a file, which gets what has come behind it.
LEMMA BGetStep ==
  ASSUME IInv, bpc = "getresponse", NEW chunk \in Chunks("browser"), BGet(chunk),
         UNCHANGED <<cmd, cpc, reply, unsent>>
  PROVE  IInv'
<1>1. /\ ~loop["browser"].found /\ Scan(loop["browser"], chunk).found
      /\ Fetches /\ cmd.method = "GET"
  BY DEF BGet, Fetches
<1>2. "child" \in Side /\ "browser" \in Side /\ cmd.method \in {"GET", "PUT"}
  BY Facts
<1>3. PICK r : r = Scan(loop["browser"], chunk)
  OBVIOUS
<1>4. PICK m : m = Left(net["browser"], chunk)
  OBVIOUS
<1>5. /\ r \in LoopType /\ HeadInv(r) /\ r.found
      /\ m \in Seq(Bytes) /\ OnWay(r, m, ToBrowser)
      /\ Sent(r, m) = Sent(loop["browser"], net["browser"])
      /\ RestStored(loop["browser"], chunk, ToBrowser)
      /\ cpc \notin {"getRequest", "respond"}
  BY <1>1, <1>3, <1>4, BrowserReceives
<1>6. PICK rest \in Rest(loop["browser"], chunk) : file' = [file EXCEPT !["browser"] = rest]
  BY DEF BGet, FirstOfBody
<1>7. Stored(r, rest, ToBrowser) /\ rest \in Seq(Bytes)
  <2>1. Stored(r, rest, ToBrowser)
    BY <1>3, <1>5, <1>6 DEF RestStored
  <2> QED
    BY <1>5, <2>1 DEF Stored
<1>8. /\ loop' = [loop EXCEPT !["browser"] = r] /\ net' = [net EXCEPT !["browser"] = m]
      /\ UNCHANGED <<bpc, gone, result>>
  BY <1>3, <1>4 DEF BGet, FirstOfBody, Take, Left
<1>9. /\ loop'["browser"] = r /\ loop'["child"] = loop["child"]
      /\ net'["browser"] = m /\ net'["child"] = net["child"]
      /\ file'["browser"] = rest /\ file'["child"] = file["child"]
      /\ loop' \in [Side -> LoopType] /\ net' \in [Side -> Seq(Bytes)]
      /\ file' \in [Side -> Seq(Bytes) \union {None}]
  BY <1>2, <1>5, <1>6, <1>7, <1>8 DEF IInv, TypeInv, Side
<1>10. TypeInv'
  BY <1>8, <1>9 DEF IInv, TypeInv
<1>11. CmdInv'
  BY <1>1, <1>8 DEF IInv, CmdInv
<1>12. Fetches' /\ ToBrowser = file["child"] /\ ToBrowser' = ToBrowser
  BY <1>1, <1>9 DEF Fetches, ToBrowser
<1>13. ChildInv'
  BY <1>5, <1>9, ChildFrame DEF IInv
<1>14. BrowserInv'
  <2>1. unsent["browser"] = <<>>
    BY DEF IInv, BrowserInv
  <2> QED
    BY <1>1, <1>5, <1>8, <1>9, <1>12, <2>1 DEF IInv, BrowserInv
<1>15. ToChildInv'
  BY <1>1, <1>2, <1>8, <1>9, ToChildFrame DEF IInv
<1>16. ToBrowserInv'
  <2>1. ~gone["browser"]
    BY DEF IInv, CmdInv
  <2> QED
    BY <1>1, <1>5, <1>7, <1>9, <1>12, <2>1 DEF IInv, ToBrowserInv
<1> QED
  BY <1>10, <1>11, <1>13, <1>14, <1>15, <1>16 DEF IInv

\* The file gets more, and is opened if that is all.
LEMMA BBodyStep ==
  ASSUME IInv, bpc = "getresponse", NEW chunk \in Chunks("browser"), BBody(chunk),
         UNCHANGED <<cmd, cpc, reply, unsent>>
  PROVE  IInv'
<1>1. loop["browser"].found /\ Fetches
  BY DEF BBody, MoreBody, IInv, BrowserInv
<1>2. "child" \in Side /\ "browser" \in Side /\ cmd.method = "GET" /\ ~gone["browser"]
  BY <1>1, Facts DEF Fetches, IInv, CmdInv
<1>3. PICK l \in LoopType : l = loop["browser"]
  BY Facts
<1>4. PICK n \in Seq(Bytes) : n = net["browser"]
  BY Facts
<1>5. PICK body \in Seq(Bytes) : body = ToBrowser /\ body = file["child"]
  BY <1>1, Facts DEF ToBrowser
<1>6. l.found /\ HeadInv(l) /\ Stored(l, file["browser"], body)
  BY <1>1, <1>3, <1>5 DEF IInv, ToBrowserInv
<1>7. PICK g \in Seq(Bytes) : g = file["browser"]
  BY <1>6 DEF Stored
<1>8. Prefix(chunk, n)
  BY <1>2, <1>4, ChunkIs
<1>9. PICK r : r = [l EXCEPT !.total = @ + Len(chunk)]
  OBVIOUS
<1>10. PICK m : m = Left(n, chunk)
  OBVIOUS
<1>11. PICK f : f = g \o chunk
  OBVIOUS
<1>12. l.found /\ HeadInv(l) /\ Prefix(chunk, n) /\ Stored(l, g, body)
  BY <1>6, <1>7, <1>8
<1>13. /\ r \in LoopType /\ HeadInv(r) /\ r.found /\ r.torn = l.torn
       /\ m \in Seq(Bytes) /\ f \in Seq(Bytes)
       /\ OnWay(l, n, body) /\ Stored(l, g, body) /\ ~l.torn =>
            OnWay(r, m, body) /\ Sent(r, m) = Sent(l, n) /\ Stored(r, f, body)
  <2>1. /\ r \in LoopType /\ HeadInv(r) /\ r.found /\ r.torn = l.torn
        /\ m \in Seq(Bytes)
    BY <1>9, <1>10, <1>12, TakeBody
  <2>2. f \in Seq(Bytes)
    BY <1>11, <1>12, TakeBody
  <2>3. ASSUME OnWay(l, n, body), ~l.torn
        PROVE  OnWay(r, m, body) /\ Sent(r, m) = Sent(l, n) /\ Stored(r, f, body)
    BY <1>9, <1>10, <1>11, <1>12, <2>3, TakeBody
  <2> QED
    BY <2>1, <2>2, <2>3
<1>14. /\ loop' = [loop EXCEPT !["browser"] = r] /\ net' = [net EXCEPT !["browser"] = m]
       /\ file' = [file EXCEPT !["browser"] = f]
  <2>1. loop' = [loop EXCEPT !["browser"].total = @ + Len(chunk)]
    BY DEF BBody, MoreBody
  <2>2. loop' = [loop EXCEPT !["browser"] = r]
    BY <1>3, <1>9, <2>1
  <2> QED
    BY <1>4, <1>7, <1>10, <1>11, <2>2 DEF BBody, MoreBody, Take, Left
<1>15. /\ loop'["browser"] = r /\ loop'["child"] = loop["child"]
       /\ net'["browser"] = m /\ net'["child"] = net["child"]
       /\ file'["browser"] = f /\ file'["child"] = file["child"]
       /\ loop' \in [Side -> LoopType] /\ net' \in [Side -> Seq(Bytes)]
       /\ file' \in [Side -> Seq(Bytes) \union {None}]
  BY <1>2, <1>13, <1>14 DEF IInv, TypeInv, Side
<1>16. \/ /\ r.total >= content_len(reply) /\ result' = "opened"
          /\ bpc' = "ended" /\ gone' = [gone EXCEPT !["browser"] = TRUE]
       \/ UNCHANGED <<bpc, gone, result>>
  BY <1>15 DEF BBody, Return, BrowserEnds
<1>17. /\ bpc' \in {"getresponse", "ended"} /\ gone' \in [Side -> BOOLEAN]
       /\ gone'["child"] = gone["child"] /\ (gone'["browser"] => bpc' = "ended")
       /\ result' \in {"none", "timeout", "disconnected", "header", "opened"}
  <2>1. /\ gone \in [Side -> BOOLEAN] /\ bpc = "getresponse"
        /\ result \in {"none", "timeout", "disconnected", "header", "opened"}
    BY DEF IInv, TypeInv
  <2>2. CASE /\ result' = "opened" /\ bpc' = "ended"
             /\ gone' = [gone EXCEPT !["browser"] = TRUE]
    BY <1>2, <2>1, <2>2
  <2>3. CASE UNCHANGED <<bpc, gone, result>>
    BY <1>2, <2>1, <2>3
  <2> QED
    BY <1>16, <2>2, <2>3
<1>18. TypeInv'
  BY <1>15, <1>17 DEF IInv, TypeInv
<1>19. CmdInv'
  BY <1>2, <1>17 DEF IInv, CmdInv
<1>20. Fetches' /\ ToBrowser' = body
  BY <1>1, <1>5, <1>15 DEF Fetches, ToBrowser
<1>21. cpc \notin {"getRequest", "respond"}
  BY <1>1 DEF IInv, ChildInv, Fetches, NoReply
<1>22. ChildInv'
  BY <1>15, <1>21, ChildFrame DEF IInv
<1>23. BrowserInv'
  <2>1. unsent["browser"] = <<>>
    BY DEF IInv, BrowserInv
  <2>2. ASSUME result' = "opened" PROVE r.total >= content_len(reply)
    <3>1. CASE UNCHANGED <<bpc, gone, result>>
      <4>1. l.total >= content_len(reply)
        BY <1>3, <2>2, <3>1 DEF IInv, BrowserInv
      <4>2. content_len(reply) = Len(body) /\ Len(body) \in Nat
        BY <1>1, <1>5 DEF IInv, ChildInv
      <4>3. r.total = l.total + Len(chunk) /\ Len(chunk) \in Nat /\ l.total \in Int
        <5>1. PICK k \in 0 .. Len(n) : chunk = SubSeq(n, 1, k)
          BY <1>8 DEF Prefix
        <5>2. Len(chunk) \in Nat
          BY <5>1, Cut
        <5> QED
          BY <1>9, <5>2 DEF LoopType
      <4> QED
        BY <4>1, <4>2, <4>3
    <3> QED
      BY <1>16, <3>1
  <2> QED
    BY <1>13, <1>15, <1>17, <1>20, <2>1, <2>2 DEF BrowserInv
<1>24. ToChildInv'
  BY <1>2, <1>15, <1>17, ToChildFrame DEF IInv
<1>25. ToBrowserInv'
  <2>1. CASE l.torn
    <3>1. Stored(r, f, body)
      BY <1>13, <2>1 DEF Stored
    <3> QED
      BY <1>5, <1>13, <1>15, <2>1, <3>1 DEF ToBrowserInv
  <2>2. CASE ~l.torn
    <3>1. /\ OnWay(l, n, body)
          /\ cpc = "sendfile" => Sent(l, n) + Len(unsent["child"]) = 8 + Len(body)
      BY <1>1, <1>2, <1>3, <1>4, <1>5, <2>2 DEF IInv, ToBrowserInv
    <3>2. OnWay(r, m, body) /\ Sent(r, m) = Sent(l, n) /\ Stored(r, f, body)
      BY <1>12, <1>13, <2>2, <3>1
    <3> QED
      BY <1>5, <1>13, <1>15, <1>20, <1>21, <3>1, <3>2 DEF ToBrowserInv
  <2> QED
    BY <2>1, <2>2
<1> QED
  BY <1>18, <1>19, <1>22, <1>23, <1>24, <1>25 DEF IInv

\* The bytes under way are lost.
LEMMA ResetStep ==
  ASSUME IInv, Reset
  PROVE  IInv'
<1>1. /\ gone["child"] /\ net' = [s \in Side |-> <<>>]
      /\ UNCHANGED <<cmd, bpc, cpc, file, reply, loop, unsent, gone, result>>
  BY DEF Reset
<1>2. "child" \in Side /\ "browser" \in Side
  BY Facts
<1>3. <<>> \in Seq(Bytes)
  OBVIOUS
<1>4. net' \in [Side -> Seq(Bytes)] /\ net'["browser"] = <<>>
  BY <1>1, <1>2, <1>3
<1>5. TypeInv'
  BY <1>1, <1>4 DEF IInv, TypeInv
<1>6. CmdInv'
  BY <1>1 DEF IInv, CmdInv
<1>7. Refusal' = Refusal
  BY <1>1, RefusalFrame
<1>8. (Stores' <=> Stores) /\ (Fetches' <=> Fetches)
  BY <1>1, <1>7 DEF Stores, Fetches
<1>9. ChildInv'
  BY <1>1, ChildFrame DEF IInv
<1>10. BrowserInv'
  BY <1>1, BrowserFrame DEF IInv
<1>11. ToChildInv'
  BY <1>1, <1>8, ToChildClosed DEF IInv, ToChildInv
<1>12. ToBrowserInv'
  <2>1. PICK l \in LoopType : l = loop["browser"]
    BY Facts
  <2>2. PICK n \in Seq(Bytes) : n = net["browser"]
    BY Facts
  <2>3. PICK body \in Seq(Bytes) : body = ToBrowser
    BY Facts
  <2>4. ToBrowser' = body
    BY <1>1, <1>8, <2>3 DEF ToBrowser
  <2>5. ASSUME OnWay(l, n, body) PROVE OnWay(l, <<>>, body)
    <3>1. PICK t \in Nat : t = Taken(l)
      BY <2>5 DEF OnWay
    <3>2. t + Len(n) <= Len(Header \o body) /\ Len(n) \in Nat /\ Len(Header \o body) \in Nat
      BY <2>5, <3>1, BehindHeader DEF OnWay, Part
    <3>3. t + 0 <= Len(Header \o body)
      BY <3>2
    <3> QED
      BY <3>1, <3>3 DEF OnWay, Part
  <2>6. cpc = "ended"
    BY <1>1 DEF IInv, CmdInv
  <2>7. /\ HeadInv(l) /\ (Fetches => Stored(l, file["browser"], file["child"]))
        /\ ~gone["browser"] /\ (l.found => Fetches /\ ~l.torn) => OnWay(l, n, body)
    BY <2>1, <2>2, <2>3 DEF IInv, ToBrowserInv
  <2> QED
    BY <1>1, <1>4, <1>8, <2>1, <2>4, <2>5, <2>6, <2>7 DEF ToBrowserInv
<1> QED
  BY <1>5, <1>6, <1>9, <1>10, <1>11, <1>12 DEF IInv

LEMMA BrowserStep ==
  ASSUME IInv, browser
  PROVE  IInv'
<1>1. UNCHANGED <<cmd, cpc, reply>>
  BY DEF browser
<1>2. CASE BSendHeader
  BY <1>1, <1>2, BSendHeaderStep
<1>3. CASE sendfile
  BY <1>1, <1>3, SendFileStep
<1>4. CASE BCannotConnect \/ BKilled \/ BCrash
  BY <1>1, <1>4, BrowserEndsStep DEF BCannotConnect, BKilled, BCrash
<1>5. CASE getresponse
  <2>1. bpc = "getresponse" /\ UNCHANGED unsent
    BY <1>5 DEF getresponse
  <2>2. CASE BTimeout \/ BDisconnected
    BY <1>1, <2>1, <2>2, BrowserEndsStep DEF BTimeout, BDisconnected, Return
  <2>3. ASSUME NEW chunk \in Chunks("browser"), BNotOpened(chunk)
        PROVE  IInv'
    BY <1>1, <2>1, <2>3, BrowserEndsStep DEF BNotOpened
  <2>4. ASSUME NEW chunk \in Chunks("browser"),
               BHeader(chunk) \/ BOnlyHeader(chunk) \/ BGet(chunk) \/ BBody(chunk)
        PROVE  IInv'
    BY <1>1, <2>1, <2>4, BHeaderStep, BOnlyHeaderStep, BGetStep, BBodyStep
  <2> QED
    BY <1>5, <2>2, <2>3, <2>4 DEF getresponse
<1> QED
  BY <1>2, <1>3, <1>4, <1>5 DEF browser

LEMMA ExchangeStep ==
  ASSUME IInv, [Next]_vars
  PROVE  IInv'
<1>1. CASE Next
  BY <1>1, BrowserStep, ChildStep, ResetStep DEF Next
<1>2. CASE UNCHANGED vars
  BY <1>2 DEF vars, IInv, TypeInv, CmdInv, ChildInv, BrowserInv, ToChildInv, ToBrowserInv,
            Access, Stores, Fetches, ToChild, ToBrowser, Refusal
<1> QED
  BY <1>1, <1>2

-----------------------------------------------------------------------------
(***************************************************************************)
(* The main loop of the browser.                                           *)
(***************************************************************************)
LEMMA SixElements ==
  ASSUME NEW a, NEW b, NEW c, NEW d, NEW e, NEW f
  PROVE  <<a, b>> \o <<c, d, e>> \o <<f>> = <<a, b, c, d, e, f>>
<1> DEFINE S == {a, b, c, d, e, f}
           s == <<a, b>>
           t == <<c, d, e>>
           u == <<f>>
           v == <<a, b, c, d, e, f>>
<1>1. s \in Seq(S) /\ t \in Seq(S) /\ u \in Seq(S) /\ v \in Seq(S)
  OBVIOUS
<1>2. /\ Len(s) = 2 /\ Len(t) = 3 /\ Len(u) = 1 /\ Len(v) = 6
      /\ s[1] = a /\ s[2] = b /\ t[1] = c /\ t[2] = d /\ t[3] = e /\ u[1] = f
      /\ v[1] = a /\ v[2] = b /\ v[3] = c /\ v[4] = d /\ v[5] = e /\ v[6] = f
  OBVIOUS
<1> HIDE DEF S, s, t, u, v
<1> DEFINE st == s \o t
           stu == st \o u
<1>3. /\ st \in Seq(S) /\ Len(st) = Len(s) + Len(t)
      /\ \A i \in 1 .. Len(s) + Len(t) : st[i] = IF i <= Len(s) THEN s[i] ELSE t[i - Len(s)]
  BY <1>1, ConcatProperties
<1> HIDE DEF st
<1>4. st \in Seq(S) /\ Len(st) = 5 /\ st[1] = a /\ st[2] = b /\ st[3] = c /\ st[4] = d /\ st[5] = e
  BY <1>2, <1>3
<1>5. /\ stu \in Seq(S) /\ Len(stu) = Len(st) + Len(u)
      /\ \A i \in 1 .. Len(st) + Len(u) : stu[i] = IF i <= Len(st) THEN st[i] ELSE u[i - Len(st)]
  BY <1>1, <1>4, ConcatProperties
<1> HIDE DEF stu
<1>6. /\ stu \in Seq(S) /\ Len(stu) = 6
      /\ stu[1] = a /\ stu[2] = b /\ stu[3] = c /\ stu[4] = d /\ stu[5] = e /\ stu[6] = f
  BY <1>2, <1>4, <1>5
<1>7. \A i \in 1 .. Len(stu) : stu[i] = v[i]
  <2>1. \A i \in 1 .. 6 : i \in {1, 2, 3, 4, 5, 6}
    OBVIOUS
  <2> QED
    BY <1>2, <1>6, <2>1
<1>8. stu = v
  BY <1>1, <1>2, <1>6, <1>7, SeqEqual
<1> QED
  BY <1>8 DEF stu, st, s, t, u, v

LEMMA MaxOfOne ==
  ASSUME NEW a \in Int
  PROVE  Max({a}) = a
<1>1. \A x \in {a} : x = a
  OBVIOUS
<1>2. \A y \in {a} : a >= y
  OBVIOUS
<1> DEFINE S == {a}
<1>3. a \in S /\ (\A y \in S : a >= y) /\ \A x \in S : x = a
  BY <1>1, <1>2
<1> HIDE DEF S
<1>4. Max(S) = a
  BY <1>3 DEF Max
<1> QED
  BY <1>4 DEF S

\* What the child reads in the request: the length is that of a PUT alone, and
\* no line is without a value.
LEMMA HeaderRead ==
  ASSUME NEW to, NEW filename, NEW length
  PROVE  LET req == parse_header(createheader(to, filename, length))
         IN  /\ IF filename = <<>>
                THEN req.method = "GET" /\ req.length = 0 /\ req.path = to.path
                ELSE /\ req.method = "PUT" /\ req.length = length
                     /\ req.path = to.path \o <<"/">> \o BaseName(filename)
             /\ to.ip # <<>> => req.valid
<1> DEFINE date == <<"two days ago">>
           header == createheader(to, filename, length)
           places == Named(header, {"Content-Length"})
           value == IF places = {} THEN <<>> ELSE header.lines[Max(places)][2]
           req == parse_header(header)
<1>1. /\ req.method = header.method /\ req.length = IF value = <<>> THEN 0 ELSE value[1]
      /\ req.path = header.path
      /\ req.valid <=> /\ header.method \in {"GET", "PUT"} /\ header.version = "HTTP/1.1"
                       /\ \A i \in DOMAIN header.lines : header.lines[i][2] # <<>>
  BY DEF parse_header
<1>2. CASE filename = <<>>
  <2>1. header.method = "GET" /\ header.version = "HTTP/1.1" /\ header.path = to.path
    BY <1>2 DEF createheader
  <2>2. header.lines =
          << <<"Host", to.ip>>, <<"Date", <<"now">>>>, <<"Accept", <<"type">>>>,
             <<"Accept-Language", <<"en-us">>>>, <<"If-Modified-Since", date>>,
             <<"Connection", <<"close">>>> >>
    <3>1. header.lines =
            << <<"Host", to.ip>>, <<"Date", <<"now">>>> >>
              \o << <<"Accept", <<"type">>>>, <<"Accept-Language", <<"en-us">>>>,
                    <<"If-Modified-Since", date>> >>
              \o << <<"Connection", <<"close">>>> >>
      BY <1>2 DEF createheader
    <3> HIDE DEF date, header
    <3> QED
      BY <3>1, SixElements
  <2>3. places = {}
    <3> HIDE DEF header, date
    <3>1. /\ DOMAIN header.lines = 1 .. 6
          /\ header.lines[1][1] = "Host" /\ header.lines[2][1] = "Date"
          /\ header.lines[3][1] = "Accept" /\ header.lines[4][1] = "Accept-Language"
          /\ header.lines[5][1] = "If-Modified-Since" /\ header.lines[6][1] = "Connection"
      BY <2>2
    <3>2. \A i \in 1 .. 6 : i \in {1, 2, 3, 4, 5, 6}
      OBVIOUS
    <3> HIDE DEF header
    <3> QED
      BY <3>1, <3>2 DEF Named
  <2>4. value = <<>>
    BY <2>3
  <2>5. req.method = "GET" /\ req.length = 0 /\ req.path = to.path
    <3> HIDE DEF value, header, places, req
    <3> QED
      BY <1>1, <2>1, <2>4
  <2>6. ASSUME to.ip # <<>> PROVE req.valid
    <3>1. date # <<>>
      OBVIOUS
    <3> HIDE DEF header, req, date
    <3>2. \A i \in DOMAIN header.lines : header.lines[i][2] # <<>>
      <4>1. /\ DOMAIN header.lines = 1 .. 6
            /\ header.lines[1][2] = to.ip /\ header.lines[2][2] = <<"now">>
            /\ header.lines[3][2] = <<"type">> /\ header.lines[4][2] = <<"en-us">>
            /\ header.lines[5][2] = date /\ header.lines[6][2] = <<"close">>
        BY <2>2
      <4>2. \A i \in 1 .. 6 : i \in {1, 2, 3, 4, 5, 6}
        OBVIOUS
      <4> QED
        BY <2>6, <3>1, <4>1, <4>2
    <3> QED
      BY <1>1, <2>1, <3>2
  <2> QED
    BY <1>2, <2>5, <2>6
<1>3. CASE filename # <<>>
  <2>1. /\ header.method = "PUT" /\ header.version = "HTTP/1.1"
        /\ header.path = to.path \o <<"/">> \o BaseName(filename)
    BY <1>3 DEF createheader
  <2>2. header.lines =
          << <<"Host", to.ip>>, <<"Date", <<"now">>>>, <<"Content-Type", <<"type">>>>,
             <<"Content-Length", <<length>>>>, <<"Content-Language", <<"en-us">>>>,
             <<"Connection", <<"close">>>> >>
    BY <1>3, SixElements DEF createheader
  <2>3. places = {4}
    <3>1. /\ DOMAIN header.lines = 1 .. 6
          /\ header.lines[1][1] = "Host" /\ header.lines[2][1] = "Date"
          /\ header.lines[3][1] = "Content-Type" /\ header.lines[4][1] = "Content-Length"
          /\ header.lines[5][1] = "Content-Language" /\ header.lines[6][1] = "Connection"
      BY <2>2
    <3>2. \A i \in 1 .. 6 : i \in {1, 2, 3, 4, 5, 6}
      OBVIOUS
    <3> HIDE DEF header
    <3> QED
      BY <3>1, <3>2 DEF Named
  <2>4. header.lines[4][2] = <<length>>
    BY <2>2
  <2>5. value = <<length>>
    <3> HIDE DEF header, places
    <3> QED
      BY <2>3, <2>4, MaxOfOne
  <2>6. value # <<>> /\ value[1] = length
    <3> HIDE DEF value
    <3> QED
      BY <2>5
  <2>7. /\ req.method = "PUT" /\ req.length = length
        /\ req.path = to.path \o <<"/">> \o BaseName(filename)
    <3> HIDE DEF value, header, places, req
    <3> QED
      BY <1>1, <2>1, <2>6
  <2>8. ASSUME to.ip # <<>> PROVE req.valid
    <3> HIDE DEF header, req
    <3>1. \A i \in DOMAIN header.lines : header.lines[i][2] # <<>>
      <4>1. /\ DOMAIN header.lines = 1 .. 6
            /\ header.lines[1][2] = to.ip /\ header.lines[2][2] = <<"now">>
            /\ header.lines[3][2] = <<"type">> /\ header.lines[4][2] = <<length>>
            /\ header.lines[5][2] = <<"en-us">> /\ header.lines[6][2] = <<"close">>
        BY <2>2
      <4>2. \A i \in 1 .. 6 : i \in {1, 2, 3, 4, 5, 6}
        OBVIOUS
      <4> QED
        BY <2>8, <4>1, <4>2
    <3> QED
      BY <1>1, <2>1, <3>1
  <2> QED
    BY <1>3, <2>7, <2>8
<1> QED
  BY <1>2, <1>3

\* The files at both sides are sequences of bytes.
SessionInv ==
  /\ version \in {"MyBrowser", "client"} /\ at \in {"prompt", "busy", "over"}
  /\ DOMAIN words = 1 .. 3 /\ DOMAIN said \subseteq 1 .. 3 /\ lines \in 0 .. MaxLines
  /\ \A s \in Side : \A n \in DOMAIN disk[s] : disk[s][n] \in Seq(Bytes) \union {None}

\* A command begins: nothing is on its way.
LEMMA BeginStep ==
  ASSUME SessionInv, NEW w, Command(w), ~Fails(w), Begin(w)
  PROVE  IInv'
<1> DEFINE req == Request(w)
           local == Contents("browser", LocalFile(w))
<1>1. "child" \in Side /\ "browser" \in Side /\ <<>> \in Seq(Bytes)
  BY DEF Side
<1>2. \A s \in Side : \A n : Contents(s, n) \in Seq(Bytes) \union {None}
  BY DEF SessionInv, Contents
<1>3. PICK access \in Access(req.method) :
        cmd' = [method |-> req.method, length |-> req.length, access |-> access]
  BY DEF Begin
<1>4. /\ file' \in [Side -> Seq(Bytes) \union {None}]
      /\ file'["browser"] = local
  BY <1>1, <1>2 DEF Begin
<1>5. /\ bpc' = "start" /\ cpc' = "getRequest" /\ reply' = NoReply /\ loop' = NoLoop
      /\ unsent' = Nothing /\ net' = Nothing /\ gone' = Nobody /\ result' = "none"
  BY DEF Begin
<1>6. /\ req.method \in {"GET", "PUT"} /\ req.length \in Nat
      /\ req.method = "PUT" => local # None /\ req.length = Len(local)
  <2> DEFINE filename == IF IsPut(w) THEN w[3] ELSE <<>>
             length == IF IsPut(w) THEN Len(local) ELSE 0
             to == parseurl(w[2])
  <2>1. req = parse_header(createheader(to, filename, length))
    BY DEF Request
  <2>2. IF filename = <<>> THEN req.method = "GET" /\ req.length = 0
        ELSE req.method = "PUT" /\ req.length = length
    <3> HIDE DEF filename, length, to
    <3> QED
      BY <2>1, HeaderRead
  <2>3. IsPut(w) => local # None /\ local \in Seq(Bytes)
    BY <1>1, <1>2 DEF Fails
  <2>4. filename # <<>> => IsPut(w) /\ length = Len(local) /\ Len(local) \in Nat
    BY <2>3
  <2> HIDE DEF req, local, filename, length
  <2> QED
    BY <2>2, <2>3, <2>4
<1> HIDE DEF req, local
<1>7. access \in Accesses
  BY <1>3 DEF Access, Accesses
<1>8. NoLoop["child"] \in LoopType /\ NoLoop \in [Side -> LoopType]
  BY <1>1 DEF NoLoop, LoopType
<1>9. \A s \in Side : /\ loop'[s] = NoLoop[s] /\ ~loop'[s].found /\ loop'[s].htemp = <<>>
                      /\ loop'[s].cnt = 0 /\ loop'[s].total = 0 /\ ~loop'[s].torn
                      /\ net'[s] = <<>> /\ unsent'[s] = <<>> /\ ~gone'[s]
  BY <1>5 DEF NoLoop, Nothing, Nobody
<1>10. reply'.status = 0 /\ content_len(reply') = -1
  BY <1>5, ContentLen DEF NoReply
<1>11. TypeInv'
  <2>1. net' \in [Side -> Seq(Bytes)] /\ unsent' \in [Side -> Seq(Bytes)] /\ gone' \in [Side -> BOOLEAN]
    BY <1>1, <1>5 DEF Nothing, Nobody
  <2>2. /\ cmd' \in [method : {"GET", "PUT"}, length : Nat, access : Accesses]
        /\ (cmd.access \in Access(cmd.method))'
    BY <1>3, <1>6, <1>7 DEF Access
  <2>3. reply'.status \in {0, 200, 304, 403, 404} /\ content_len(reply)' \in Nat \union {-1}
    BY <1>10
  <2> QED
    BY <1>4, <1>5, <1>8, <2>1, <2>2, <2>3 DEF TypeInv
<1>12. CmdInv'
  BY <1>1, <1>3, <1>4, <1>6, <1>9 DEF CmdInv
<1>13. ~Fetches'
  BY <1>10 DEF Fetches
<1>14. ChildInv'
  BY <1>1, <1>5, <1>9, <1>10, <1>13 DEF ChildInv
<1>15. BrowserInv'
  BY <1>1, <1>5, <1>9 DEF BrowserInv
<1>16. ASSUME NEW l, l.htemp = <<>>, ~l.found, l.cnt = 0, l.total = 0, ~l.torn
       PROVE  /\ HeadInv(l) /\ Taken(l) = 0 /\ Sent(l, <<>>) = 0
              /\ \A body \in Seq(Bytes) : OnWay(l, <<>>, body)
  <2>1. Len(<<>>) = 0 /\ Part(<<>>, Header, 0) /\ CntAt(0) = 0
    BY HeaderIs DEF Part, CntAt
  <2>2. HeadInv(l) /\ Taken(l) = 0
    BY <1>16, <2>1 DEF HeadInv, Taken
  <2>3. Sent(l, <<>>) = 0
    BY <2>1, <2>2 DEF Sent
  <2>4. ASSUME NEW body \in Seq(Bytes) PROVE OnWay(l, <<>>, body)
    <3>1. Len(Header \o body) \in Nat
      BY BehindHeader
    <3> QED
      BY <2>1, <2>2, <3>1 DEF OnWay, Part
  <2> QED
    BY <2>2, <2>3, <2>4
<1>17. ToChild' \in Seq(Bytes) /\ ToBrowser' \in Seq(Bytes)
  BY <1>1, <1>3, <1>4, <1>6, <1>13 DEF ToChild, ToBrowser
<1>18. \A s \in Side : /\ HeadInv(loop'[s]) /\ Sent(loop'[s], net'[s]) = 0
                       /\ OnWay(loop'[s], net'[s], ToChild') /\ OnWay(loop'[s], net'[s], ToBrowser')
  BY <1>9, <1>16, <1>17
<1>19. ToChildInv'
  BY <1>1, <1>5, <1>9, <1>18 DEF ToChildInv, Stored
<1>20. ToBrowserInv'
  BY <1>1, <1>5, <1>9, <1>13, <1>18 DEF ToBrowserInv
<1> QED
  BY <1>11, <1>12, <1>14, <1>15, <1>19, <1>20 DEF IInv

BInv == IInv /\ SessionInv

LEMMA InitInv ==
  ASSUME BrowserInit
  PROVE  BInv
<1> USE DEF BrowserInit
<1>1. "child" \in Side /\ "browser" \in Side /\ <<>> \in Seq(Bytes)
  BY DEF Side
<1>2. NoLoop \in [Side -> LoopType]
  BY <1>1 DEF NoLoop, LoopType
<1>3. \A s \in Side : /\ ~loop[s].found /\ loop[s].htemp = <<>> /\ loop[s].cnt = 0
                      /\ loop[s].total = 0 /\ ~loop[s].torn /\ net[s] = <<>>
  BY DEF NoLoop, Nothing
<1>4. reply.status = 0 /\ content_len(reply) = -1
  BY ContentLen DEF NoReply
<1>5. TypeInv
  <2>1. net \in [Side -> Seq(Bytes)] /\ unsent \in [Side -> Seq(Bytes)] /\ gone \in [Side -> BOOLEAN]
    BY <1>1 DEF Nothing, Nobody
  <2>2. /\ cmd \in [method : {"GET", "PUT"}, length : Nat, access : Accesses]
        /\ cmd.access \in Access(cmd.method)
    BY DEF Access, Accesses
  <2>3. file \in [Side -> Seq(Bytes) \union {None}]
    OBVIOUS
  <2>4. reply.status \in {0, 200, 304, 403, 404} /\ content_len(reply) \in Nat \union {-1}
    BY <1>4
  <2> QED
    BY <1>2, <2>1, <2>2, <2>3, <2>4 DEF TypeInv
<1>6. CmdInv
  BY DEF CmdInv
<1>7. ~Stores /\ ~Fetches /\ ToChild = <<>> /\ ToBrowser = <<>>
  BY <1>4 DEF Stores, Fetches, ToChild, ToBrowser
<1>8. ChildInv
  BY <1>4, <1>7 DEF ChildInv
<1>9. BrowserInv
  BY DEF BrowserInv
<1>10. \A s \in Side : HeadInv(loop[s]) /\ OnWay(loop[s], net[s], <<>>)
  <2> SUFFICES ASSUME NEW l, l.htemp = <<>>, ~l.found, l.cnt = 0, l.total = 0, ~l.torn
               PROVE  HeadInv(l) /\ OnWay(l, <<>>, <<>>)
    BY <1>3
  <2>1. Len(<<>>) = 0 /\ Part(<<>>, Header, 0) /\ CntAt(0) = 0
    BY HeaderIs DEF Part, CntAt
  <2>2. HeadInv(l) /\ Taken(l) = 0
    BY <2>1 DEF HeadInv, Taken
  <2>3. Part(<<>>, Header \o <<>>, 0)
    BY <2>1, HeaderIs, ConcatEmptySeq
  <2> QED
    BY <2>2, <2>3 DEF OnWay
<1>11. ToChildInv
  BY <1>1, <1>7, <1>10 DEF ToChildInv
<1>12. ToBrowserInv
  BY <1>1, <1>7, <1>10 DEF ToBrowserInv
<1>13. SessionInv
  <2>1. \A s \in Side : \A n \in DOMAIN disk[s] : disk[s][n] \in Seq(Bytes) \union {None}
    <3> SUFFICES ASSUME NEW s \in Side, NEW n \in DOMAIN disk[s]
                 PROVE  disk[s][n] \in Seq(Bytes)
      OBVIOUS
    <3>1. disk[s][n] \in Content
      BY BrowserAssumption
    <3>2. Content \subseteq Seq(Bytes)
      <4>1. {"c", "r", "n"} \subseteq Bytes
        BY DEF Bytes
      <4> QED
        BY <4>1
    <3> QED
      BY <3>1, <3>2
  <2>2. DOMAIN words = 1 .. 3 /\ DOMAIN said \subseteq 1 .. 3
    BY DEF Cleared
  <2>3. lines \in 0 .. MaxLines
    BY BrowserAssumption
  <2> QED
    BY <2>1, <2>2, <2>3 DEF SessionInv
<1> QED
  BY <1>5, <1>6, <1>8, <1>9, <1>11, <1>12, <1>13 DEF IInv, BInv

LEMMA VarsFrame ==
  ASSUME IInv, UNCHANGED vars
  PROVE  IInv'
  BY ExchangeStep

LEMMA ReadLineStep ==
  ASSUME BInv, NEW line \in Lines, ReadLine(line)
  PROVE  BInv'
<1> DEFINE w == Read(Text(line))
<1>1. /\ lines < MaxLines /\ lines' = lines + 1 /\ words' = w /\ said' = Said(line)
      /\ UNCHANGED <<version, disk, stored>>
  BY DEF ReadLine
<1>2. DOMAIN w = 1 .. 3
  BY DEF Read, sscanf
<1>3. DOMAIN line \subseteq 1 .. 3
  BY DEF Lines
<1>4. DOMAIN Said(line) \subseteq 1 .. 3
  BY <1>3 DEF Said, BInv, SessionInv
<1>5. \/ at' = "busy" /\ Command(w) /\ ~Fails(w) /\ Begin(w)
      \/ at' \in {at, "over"} /\ UNCHANGED vars
  <2> HIDE DEF w
  <2>1. CASE Command(w) /\ ~Missing(w)
    BY <2>1 DEF ReadLine, w
  <2>2. CASE ~(Command(w) /\ ~Missing(w))
    <3>1. CASE w[1] = <<"QUIT">>
      BY <2>2, <3>1 DEF ReadLine, w
    <3>2. CASE w[1] # <<"QUIT">>
      BY <2>2, <3>2 DEF ReadLine, w
    <3> QED
      BY <3>1, <3>2
  <2> QED
    BY <2>1, <2>2
<1> HIDE DEF w
<1>6. SessionInv'
  <2>1. lines' \in 0 .. MaxLines
    BY <1>1, BrowserAssumption DEF BInv, SessionInv
  <2>2. at' \in {"prompt", "busy", "over"}
    BY <1>5 DEF BInv, SessionInv
  <2> QED
    BY <1>1, <1>2, <1>4, <2>1, <2>2 DEF BInv, SessionInv
<1>7. IInv'
  BY <1>5, BeginStep, VarsFrame DEF BInv
<1> QED
  BY <1>6, <1>7 DEF BInv

LEMMA BackStep ==
  ASSUME BInv, Back
  PROVE  BInv'
<1>1. IInv'
  BY VarsFrame DEF BInv, Back
<1>2. UNCHANGED <<version, words, lines, said>>
  BY DEF Back
<1>3. at' \in {"prompt", "over"}
  <2>1. CASE result = "opened"
    BY <2>1 DEF Back, openapp
  <2>2. CASE result = "none"
    BY <2>2 DEF Back
  <2>3. CASE result \notin {"opened", "none"}
    BY <2>3 DEF Back
  <2> QED
    BY <2>1, <2>2, <2>3
<1>4. ASSUME NEW s \in Side, NEW n \in DOMAIN disk'[s]
      PROVE  disk'[s][n] \in Seq(Bytes) \union {None}
  <2>1. disk'[s] = [x \in DOMAIN disk[s] \union {name[s]} |->
                      IF x = name[s] THEN file[s] ELSE disk[s][x]]
    BY DEF Back
  <2>2. file[s] \in Seq(Bytes) \union {None}
    BY DEF BInv, IInv, TypeInv
  <2>3. n \in DOMAIN disk[s] => disk[s][n] \in Seq(Bytes) \union {None}
    BY DEF BInv, SessionInv
  <2> QED
    BY <1>4, <2>1, <2>2, <2>3
<1> QED
  BY <1>1, <1>2, <1>3, <1>4 DEF BInv, SessionInv

LEMMA InvStep ==
  ASSUME BInv, [BrowserNext]_bvars
  PROVE  BInv'
<1>1. ASSUME NEW line \in Lines, ReadLine(line) PROVE BInv'
  BY <1>1, ReadLineStep
<1>2. CASE Next /\ UNCHANGED session
  BY <1>2, ExchangeStep DEF BInv, SessionInv, session
<1>3. CASE Back
  BY <1>3, BackStep
<1>4. CASE UNCHANGED bvars
  BY <1>4, VarsFrame DEF bvars, BInv, SessionInv, session
<1> QED
  BY <1>1, <1>2, <1>3, <1>4 DEF BrowserNext, Busy

LEMMA Invariance == BrowserSpec => []BInv
<1>1. BrowserInit => BInv
  BY InitInv
<1>2. BInv /\ [BrowserNext]_bvars => BInv'
  BY InvStep
<1> QED
  BY <1>1, <1>2, PTL DEF BrowserSpec

-----------------------------------------------------------------------------
(***************************************************************************)
(* The properties.                                                         *)
(***************************************************************************)
(***************************************************************************)
(* Every variable of the exchange and of the main loop keeps its type: a   *)
(* file, what is on its way and what is left to send are sequences of      *)
(* bytes, cnt never exceeds 2, and the words typed are at most three.      *)
(***************************************************************************)
THEOREM BrowserTypeCorrect == BrowserSpec => []BrowserTypeOK
<1>1. BInv => BrowserTypeOK
  <2> SUFFICES ASSUME BInv PROVE BrowserTypeOK
    OBVIOUS
  <2>1. \A s \in Side : /\ file[s] = None \/ file[s] \in Seq(Bytes)
                        /\ net[s] \in Seq(Bytes) /\ unsent[s] \in Seq(Bytes)
                        /\ gone[s] \in BOOLEAN
    BY DEF BInv, IInv, TypeInv
  <2>2. \A s \in Side : /\ loop[s].cnt \in 0 .. 2 /\ loop[s].htemp \in Seq(Bytes)
                        /\ loop[s].total \in Int
    <3>1. \A s \in Side : loop[s] \in LoopType
      BY DEF BInv, IInv, TypeInv
    <3> QED
      BY <3>1 DEF LoopType
  <2>3. /\ cmd.method \in {"GET", "PUT"} /\ cmd.length \in Nat /\ cmd.access \in Access(cmd.method)
        /\ bpc \in {"start", "sendfile", "getresponse", "ended"}
        /\ cpc \in {"getRequest", "respond", "sendfile", "ended"}
        /\ reply.status \in {0, 200, 304, 403, 404} /\ content_len(reply) \in Nat \union {-1}
        /\ result \in {"none", "timeout", "disconnected", "header", "opened"}
    BY DEF BInv, IInv, TypeInv
  <2>4. TypeOK
    BY <2>1, <2>2, <2>3 DEF TypeOK
  <2> QED
    BY <2>4 DEF BInv, SessionInv, BrowserTypeOK
<1> QED
  BY <1>1, Invariance, PTL

\* What is a part from the first byte on is the beginning, and if it is as
\* long, the whole.
LEMMA Beginning ==
  ASSUME NEW f \in Seq(Bytes), NEW body \in Seq(Bytes), Part(f, body, 0)
  PROVE  /\ Len(f) <= Len(body) /\ f = SubSeq(body, 1, Len(f))
         /\ Len(f) >= Len(body) => f = body
<1>1. PICK n \in Nat : n = Len(f)
  OBVIOUS
<1>2. PICK m \in Nat : m = Len(body)
  OBVIOUS
<1>3. n <= m /\ \A i \in 1 .. n : f[i] = body[i]
  <2>1. 0 + n <= m /\ \A i \in 1 .. n : f[i] = body[0 + i]
    BY <1>1, <1>2 DEF Part
  <2> QED
    BY <2>1
<1>4. /\ SubSeq(body, 1, n) \in Seq(Bytes) /\ Len(SubSeq(body, 1, n)) = n
      /\ \A i \in 1 .. n : SubSeq(body, 1, n)[i] = body[i]
  BY <1>2, <1>3, Cut
<1>5. f = SubSeq(body, 1, n)
  <2> DEFINE u == SubSeq(body, 1, n)
  <2>1. u \in Seq(Bytes) /\ Len(u) = Len(f) /\ \A i \in 1 .. Len(f) : f[i] = u[i]
    BY <1>1, <1>3, <1>4
  <2> HIDE DEF u
  <2>2. f = u
    BY <2>1, SeqEqual
  <2> QED
    BY <2>2 DEF u
<1>6. ASSUME n >= m PROVE f = body
  <2>1. n = m
    BY <1>3, <1>6
  <2> QED
    BY <1>1, <1>2, <1>3, <2>1, SeqEqual
<1> QED
  BY <1>1, <1>2, <1>3, <1>5, <1>6

(***************************************************************************)
(* However recv cuts the stream, and however the steps of the two sides    *)
(* mix, both receiving loops hold the header and nothing behind it, or,    *)
(* before they have seen its end, no more than a beginning of it.          *)
(***************************************************************************)
THEOREM HeadersExact == BrowserSpec => []HeaderExact
<1>1. BInv => HeaderExact
  <2> SUFFICES ASSUME BInv, NEW s \in Side
               PROVE  LET h == loop[s].htemp
                      IN  IF loop[s].found THEN h = Header
                          ELSE h = SubSeq(Header, 1, Len(h)) /\ Len(h) < Len(Header) - 1
    BY DEF HeaderExact
  <2>1. PICK l \in LoopType : l = loop[s]
    BY DEF BInv, IInv, TypeInv
  <2>2. HeadInv(l)
    BY <2>1 DEF BInv, IInv, ToChildInv, ToBrowserInv, Side
  <2>3. CASE l.found
    BY <2>1, <2>2, <2>3 DEF HeadInv
  <2>4. CASE ~l.found
    <3>1. Len(l.htemp) < 7 /\ Part(l.htemp, Header, 0) /\ l.htemp \in Seq(Bytes)
      BY <2>2, <2>4 DEF HeadInv, LoopType
    <3>2. l.htemp = SubSeq(Header, 1, Len(l.htemp))
      BY <3>1, HeaderIs, Beginning
    <3>3. Len(l.htemp) < Len(Header) - 1
      BY <3>1, HeaderIs
    <3> QED
      BY <2>1, <2>4, <3>2, <3>3
  <2> QED
    BY <2>3, <2>4
<1> QED
  BY <1>1, Invariance, PTL

\* What has arrived when a loop is done is the file.
LEMMA FilesAre ==
  ASSUME BInv
  PROVE  FilesArrive
<1>1. IInv /\ "child" \in Side /\ "browser" \in Side
  BY DEF BInv, Side
<1>2. Other("child") = "browser" /\ Other("browser") = "child"
  BY DEF Other
<1>3. ASSUME cmd.method = "PUT", loop["child"].found, Refusal = 0, ~loop["child"].torn
      PROVE  Arrives("child") /\ (reply.status = 200 => Whole("child"))
  <2>1. PICK l \in LoopType : l = loop["child"]
    BY <1>1, Facts
  <2>2. PICK body \in Seq(Bytes) : body = file["browser"]
    BY <1>1, <1>3, Facts
  <2>3. Stored(l, file["child"], body)
    BY <1>3, <2>1, <2>2 DEF BInv, IInv, ToChildInv, Stores
  <2>4. PICK f \in Seq(Bytes) : f = file["child"] /\ l.total = Len(f) /\ Part(f, body, 0)
    BY <1>3, <2>1, <2>3 DEF Stored
  <2>5. Len(f) <= Len(body) /\ f = SubSeq(body, 1, Len(f)) /\ (Len(f) >= Len(body) => f = body)
    BY <2>4, Beginning
  <2>6. Arrives("child")
    BY <1>2, <2>1, <2>2, <2>4, <2>5 DEF Arrives
  <2>7. ASSUME reply.status = 200 PROVE Whole("child")
    <3>1. loop["child"].total >= cmd.length /\ cmd.length = Len(file["browser"])
      BY <1>3, <2>7 DEF BInv, IInv, ChildInv, CmdInv
    <3> QED
      BY <1>2, <2>1, <2>2, <2>4, <2>5, <3>1 DEF Whole
  <2> QED
    BY <2>6, <2>7
<1>4. ASSUME cmd.method = "GET", loop["browser"].found, reply.status = 200, ~loop["browser"].torn
      PROVE  Arrives("browser") /\ (result = "opened" => Whole("browser"))
  <2>0. Fetches
    BY <1>4 DEF Fetches
  <2>1. PICK l \in LoopType : l = loop["browser"]
    BY <1>1, Facts
  <2>2. PICK body \in Seq(Bytes) : body = file["child"]
    BY <1>1, <2>0, Facts
  <2>3. Stored(l, file["browser"], body)
    BY <2>0, <2>1, <2>2 DEF BInv, IInv, ToBrowserInv
  <2>4. PICK f \in Seq(Bytes) : f = file["browser"] /\ l.total = Len(f) /\ Part(f, body, 0)
    BY <1>4, <2>1, <2>3 DEF Stored
  <2>5. Len(f) <= Len(body) /\ f = SubSeq(body, 1, Len(f)) /\ (Len(f) >= Len(body) => f = body)
    BY <2>4, Beginning
  <2>6. Arrives("browser")
    BY <1>2, <2>1, <2>2, <2>4, <2>5 DEF Arrives
  <2>7. ASSUME result = "opened" PROVE Whole("browser")
    <3>1. loop["browser"].total >= content_len(reply) /\ content_len(reply) = Len(file["child"])
      BY <2>0, <2>7 DEF BInv, IInv, BrowserInv, ChildInv
    <3> QED
      BY <1>2, <2>1, <2>2, <2>4, <2>5, <3>1 DEF Whole
  <2> QED
    BY <2>6, <2>7
<1> QED
  BY <1>3, <1>4 DEF FilesArrive

(***************************************************************************)
(* The child that answers a PUT with 200 has stored the browser's file,    *)
(* and the browser that opens the file of a GET has the child's, byte for  *)
(* byte, for a file of any content and any cut of the stream, unless the   *)
(* header ended with a chunk; until then the receiver has a beginning of   *)
(* the file, and total is its length.                                      *)
(***************************************************************************)
THEOREM FilesArriveWhole == BrowserSpec => []FilesArrive
<1>1. BInv => FilesArrive
  BY FilesAre
<1> QED
  BY <1>1, Invariance, PTL

\* The four actions that write a file, and whose.
LEMMA Writers ==
  ASSUME IInv, Next, NEW s \in Side, file'[s] # file[s]
  PROVE  \/ /\ s = "child" /\ cpc = "getRequest"
            /\ \E chunk \in Chunks("child") : CPut(chunk) \/ CBody(chunk)
         \/ /\ s = "browser" /\ bpc = "getresponse" /\ reply' = reply
            /\ \E chunk \in Chunks("browser") : BGet(chunk) \/ BBody(chunk)
<1>1. UNCHANGED file => FALSE
  OBVIOUS
<1>2. DOMAIN file = Side /\ "child" \in Side /\ "browser" \in Side
  BY DEF IInv, TypeInv, Side
<1>3. CASE child
  <2>1. getRequest
    BY <1>1, <1>3 DEF child, CNotForked, CCrash, CRespond, CNotOpened, CSendFile, CLogAndExit,
                      CSendFails
  <2>2. PICK chunk \in Chunks("child") : CPut(chunk) \/ CBody(chunk)
    BY <1>1, <2>1 DEF getRequest, CDisconnected, CHeader, CRefuse, CGet
  <2>3. \E x : file' = [file EXCEPT !["child"] = x]
    BY <2>2 DEF CPut, CBody, FirstOfBody, MoreBody
  <2>4. s = "child"
    BY <1>2, <2>3
  <2> QED
    BY <2>1, <2>2, <2>4 DEF getRequest
<1>4. CASE browser
  <2>1. getresponse
    BY <1>1, <1>4 DEF browser, BSendHeader, BCannotConnect, sendfile, BKilled, BCrash
  <2>2. PICK chunk \in Chunks("browser") : BGet(chunk) \/ BBody(chunk)
    BY <1>1, <2>1 DEF getresponse, BTimeout, BDisconnected, BHeader, BOnlyHeader, BNotOpened
  <2>3. \E x : file' = [file EXCEPT !["browser"] = x]
    BY <2>2 DEF BGet, BBody, FirstOfBody, MoreBody
  <2>4. s = "browser"
    BY <1>2, <2>3
  <2> QED
    BY <1>4, <2>1, <2>2, <2>4 DEF getresponse, browser
<1>5. ~Reset
  BY <1>1 DEF Reset
<1> QED
  BY <1>3, <1>4, <1>5 DEF Next

\* What the four know of the command, and what they leave.
LEMMA WritersKnow ==
  ASSUME IInv, Next, NEW s \in Side, file'[s] # file[s]
  PROVE  /\ loop'[s].found
         /\ cmd.method = IF s = "child" THEN "PUT" ELSE "GET"
         /\ reply.status \in IF s = "child" THEN {0} ELSE {200}
<1>1. /\ DOMAIN loop = Side /\ "child" \in Side /\ "browser" \in Side
      /\ loop[s] \in LoopType
  BY DEF IInv, TypeInv, Side
<1>2. CASE s = "child"
  <2>1. /\ cpc = "getRequest"
        /\ \E chunk \in Chunks("child") : CPut(chunk) \/ CBody(chunk)
    BY <1>2, Writers
  <2>2. PICK chunk \in Chunks("child") : CPut(chunk) \/ CBody(chunk)
    BY <2>1
  <2>3. reply.status = 0
    BY <2>1 DEF IInv, ChildInv, NoReply
  <2>4. CASE CPut(chunk)
    <3>1. /\ cmd.method = "PUT" /\ Scan(loop["child"], chunk).found
          /\ loop'["child"] = Scan(loop["child"], chunk)
      BY <1>1, <2>4 DEF CPut, FirstOfBody
    <3> QED
      BY <1>2, <2>3, <3>1
  <2>5. CASE CBody(chunk)
    <3>1. loop["child"].found /\ loop' = [loop EXCEPT !["child"].total = @ + Len(chunk)]
      BY <2>5 DEF CBody, MoreBody
    <3>2. Stores
      BY <2>1, <3>1 DEF IInv, ChildInv
    <3>3. loop'["child"].found
      <4>1. loop'["child"] = [loop["child"] EXCEPT !.total = @ + Len(chunk)]
        BY <1>1, <3>1
      <4> QED
        BY <1>1, <1>2, <3>1, <4>1 DEF LoopType
    <3> QED
      BY <1>2, <2>3, <3>2, <3>3 DEF Stores
  <2> QED
    BY <2>2, <2>4, <2>5
<1>3. CASE s = "browser"
  <2>1. /\ bpc = "getresponse"
        /\ \E chunk \in Chunks("browser") : BGet(chunk) \/ BBody(chunk)
    BY <1>3, Writers
  <2>2. PICK chunk \in Chunks("browser") : BGet(chunk) \/ BBody(chunk)
    BY <2>1
  <2>4. CASE BGet(chunk)
    <3>1. /\ cmd.method = "GET" /\ reply.status = 200 /\ Scan(loop["browser"], chunk).found
          /\ loop'["browser"] = Scan(loop["browser"], chunk)
      BY <1>1, <2>4 DEF BGet, FirstOfBody
    <3> QED
      BY <1>3, <3>1
  <2>5. CASE BBody(chunk)
    <3>1. loop["browser"].found /\ loop' = [loop EXCEPT !["browser"].total = @ + Len(chunk)]
      BY <2>5 DEF BBody, MoreBody
    <3>2. Fetches
      BY <2>1, <3>1 DEF IInv, BrowserInv
    <3>3. loop'["browser"].found
      <4>1. loop'["browser"] = [loop["browser"] EXCEPT !.total = @ + Len(chunk)]
        BY <1>1, <3>1
      <4> QED
        BY <1>1, <1>3, <3>1, <4>1 DEF LoopType
    <3> QED
      BY <1>3, <3>2, <3>3 DEF Fetches
  <2> QED
    BY <2>2, <2>4, <2>5
<1> QED
  BY <1>2, <1>3 DEF Side

(***************************************************************************)
(* No step of a command writes a file but at the side that receives it,    *)
(* once it has the whole header of the other side: the child's of a PUT    *)
(* that is not answered yet, the browser's of a GET answered with 200.  So *)
(* a refusal, a disconnection or a late answer leaves both files alone.    *)
(***************************************************************************)
THEOREM OnlyReceiversWriteFiles == BrowserSpec => OnlyReceiversWrite
<1> DEFINE Step == bpc' # "start" => \A s \in Side :
       file'[s] # file[s]
         => /\ loop'[s].found
            /\ cmd.method = IF s = "child" THEN "PUT" ELSE "GET"
            /\ reply.status \in IF s = "child" THEN {0} ELSE {200}
<1>1. BInv /\ [BrowserNext]_bvars => [Step]_vars
  <2> SUFFICES ASSUME BInv, [BrowserNext]_bvars, bpc' # "start",
                      NEW s \in Side, file'[s] # file[s]
               PROVE  /\ loop'[s].found
                      /\ cmd.method = IF s = "child" THEN "PUT" ELSE "GET"
                      /\ reply.status \in IF s = "child" THEN {0} ELSE {200}
    OBVIOUS
  <2>1. UNCHANGED vars => FALSE
    BY DEF vars
  <2>2. ASSUME NEW line \in Lines, ReadLine(line) PROVE FALSE
    BY <2>1, <2>2 DEF ReadLine, Begin
  <2>3. Next
    BY <2>1, <2>2 DEF BrowserNext, Busy, Back, bvars
  <2> QED
    BY <2>3, WritersKnow DEF BInv
<1>2. BrowserSpec => [][Step]_vars
  BY <1>1, Invariance, PTL DEF BrowserSpec
<1> QED
  BY <1>2 DEF OnlyReceiversWrite

-----------------------------------------------------------------------------
(***************************************************************************)
(* A line taken apart.                                                     *)
(***************************************************************************)
\* The first of the separators is where there is one and none before.
LEMMA FindIs ==
  ASSUME NEW text, NEW m \in Nat, Len(text) = m, NEW separators,
         NEW i \in Nat, NEW j \in Nat, i <= j, j <= m + 1,
         \A k \in i .. j - 1 : text[k] \notin separators,
         j = m + 1 \/ text[j] \in separators
  PROVE  Find(text, i, separators) = j
<1> DEFINE S == {k \in i .. m : text[k] \in separators} \union {m + 1}
<1>1. j \in S /\ \A y \in S : j <= y
  OBVIOUS
<1>2. S \subseteq Int
  OBVIOUS
<1> HIDE DEF S
<1>3. \A x \in S : (\A y \in S : x <= y) => x = j
  BY <1>1, <1>2
<1>4. Min(S) = j
  BY <1>1, <1>3 DEF Min
<1> QED
  BY <1>4 DEF Find, S

\* What is where in four words one behind the other.
LEMMA FourJoined ==
  ASSUME NEW S, NEW a \in Seq(S), NEW b \in Seq(S), NEW c \in Seq(S), NEW d \in Seq(S),
         NEW t, t = a \o b \o c \o d
  PROVE  /\ t \in Seq(S) /\ Len(t) = Len(a) + Len(b) + Len(c) + Len(d)
         /\ \A i \in 1 .. Len(a) : t[i] = a[i]
         /\ \A i \in 1 .. Len(b) : t[Len(a) + i] = b[i]
         /\ \A i \in 1 .. Len(c) : t[Len(a) + Len(b) + i] = c[i]
         /\ \A i \in 1 .. Len(d) : t[Len(a) + Len(b) + Len(c) + i] = d[i]
<1> DEFINE ab == a \o b
           abc == ab \o c
           abcd == abc \o d
<1>0. t = abcd
  OBVIOUS
<1>1. Len(a) \in Nat /\ Len(b) \in Nat /\ Len(c) \in Nat /\ Len(d) \in Nat
  OBVIOUS
<1>2. /\ ab \in Seq(S) /\ Len(ab) = Len(a) + Len(b)
      /\ \A i \in 1 .. Len(a) + Len(b) : ab[i] = IF i <= Len(a) THEN a[i] ELSE b[i - Len(a)]
  BY ConcatProperties
<1> HIDE DEF ab
<1>3. /\ abc \in Seq(S) /\ Len(abc) = Len(ab) + Len(c)
      /\ \A i \in 1 .. Len(ab) + Len(c) : abc[i] = IF i <= Len(ab) THEN ab[i] ELSE c[i - Len(ab)]
  <2>1. ab \in Seq(S)
    BY <1>2
  <2> QED
    BY <2>1, ConcatProperties
<1> HIDE DEF abc
<1>4. /\ abcd \in Seq(S) /\ Len(abcd) = Len(abc) + Len(d)
      /\ \A i \in 1 .. Len(abc) + Len(d) : abcd[i] = IF i <= Len(abc) THEN abc[i] ELSE d[i - Len(abc)]
  <2>1. abc \in Seq(S)
    BY <1>3
  <2> QED
    BY <2>1, ConcatProperties
<1> HIDE DEF abcd
<1>5. \A i \in 1 .. Len(a) : abcd[i] = a[i]
  BY <1>1, <1>2, <1>3, <1>4
<1>6. \A i \in 1 .. Len(b) : abcd[Len(a) + i] = b[i]
  BY <1>1, <1>2, <1>3, <1>4
<1>7. \A i \in 1 .. Len(c) : abcd[Len(a) + Len(b) + i] = c[i]
  BY <1>1, <1>2, <1>3, <1>4
<1>8. \A i \in 1 .. Len(d) : abcd[Len(a) + Len(b) + Len(c) + i] = d[i]
  <2>1. Len(abc) = Len(a) + Len(b) + Len(c)
    BY <1>2, <1>3
  <2>2. Len(abc) \in Nat
    BY <1>1, <2>1
  <2> SUFFICES ASSUME NEW i \in 1 .. Len(d) PROVE abcd[Len(abc) + i] = d[i]
    BY <2>1
  <2>3. /\ Len(abc) + i \in 1 .. Len(abc) + Len(d) /\ ~(Len(abc) + i <= Len(abc))
        /\ (Len(abc) + i) - Len(abc) = i
    BY <1>1, <2>2
  <2> QED
    BY <1>4, <2>3
<1>9. abcd \in Seq(S) /\ Len(abcd) = Len(a) + Len(b) + Len(c) + Len(d)
  BY <1>1, <1>2, <1>3, <1>4
<1> QED
  BY <1>0, <1>5, <1>6, <1>7, <1>8, <1>9

\* The provers do not know that a string is in STRING.
Token == STRING \union {"http", ":", "/"}

\* The length of a port with its colon.
PortLen(p) == IF p = "none" THEN 0 ELSE 2

PortTokens(p) == IF p = "none" THEN <<>> ELSE <<":", p>>

LEMMA PortText ==
  ASSUME NEW p \in Token
  PROVE  /\ PortTokens(p) \in Seq(Token) /\ Len(PortTokens(p)) = PortLen(p)
         /\ p # "none" => PortTokens(p)[1] = ":" /\ PortTokens(p)[2] = p
<1>1. ":" \in Token
  BY DEF Token
<1>2. CASE p = "none"
  <2>1. PortTokens(p) = <<>> /\ PortLen(p) = 0
    BY <1>2 DEF PortTokens, PortLen
  <2> QED
    BY <1>2, <2>1, EmptySeq
<1>3. CASE p # "none"
  <2>1. PortTokens(p) = <<":", p>> /\ PortLen(p) = 2
    BY <1>3 DEF PortTokens, PortLen
  <2> DEFINE s == <<":", p>>
  <2>2. s \in Seq(Token) /\ Len(s) = 2 /\ s[1] = ":" /\ s[2] = p
    BY <1>1
  <2> QED
    BY <2>1, <2>2
<1> QED
  BY <1>2, <1>3

\* The text of a url, as its parts lie one behind the other.
Laid(t, host, port, path, late) ==
  LET a == PortLen(port)
      n == Len(path)
      b == PortLen(late)
  IN  /\ t \in Seq(Token) /\ Len(t) = 5 + a + n + b
      /\ t[1] = "http" /\ t[2] = ":" /\ t[3] = "/" /\ t[4] = "/" /\ t[5] = host
      /\ port # "none" => t[6] = ":" /\ t[7] = port
      /\ \A i \in 1 .. n : t[5 + a + i] = path[i]
      /\ late # "none" => t[5 + a + n + 1] = ":" /\ t[5 + a + n + 2] = late

LEMMA UrlTextIs ==
  ASSUME NEW u, IsUrl(u)
  PROVE  Laid(UrlText(u), u.host, u.port, u.path, u.late)
<1> DEFINE w == <<"http", ":", "/", "/", u.host>>
           p == PortTokens(u.port)
           q == u.path
           l == PortTokens(u.late)
           t == w \o p \o q \o l
           a == PortLen(u.port)
           n == Len(q)
           b == PortLen(u.late)
<1>1. u.host \in Token /\ u.port \in Token /\ u.late \in Token /\ q \in Seq(Token)
  <2>1. u.host \in STRING /\ u.port \in STRING /\ u.late \in STRING /\ q \in Seq(STRING)
    BY DEF IsUrl
  <2>2. STRING \subseteq Token
    BY DEF Token
  <2>3. q \in Seq(Token)
    BY <2>1, <2>2, SeqMonotonic
  <2> QED
    BY <2>1, <2>2, <2>3
<1>2. "http" \in Token /\ ":" \in Token /\ "/" \in Token
  BY DEF Token
<1>3. /\ w \in Seq(Token) /\ Len(w) = 5
      /\ w[1] = "http" /\ w[2] = ":" /\ w[3] = "/" /\ w[4] = "/" /\ w[5] = u.host
  BY <1>1, <1>2
<1>4. p \in Seq(Token) /\ Len(p) = a /\ (u.port # "none" => p[1] = ":" /\ p[2] = u.port)
  BY <1>1, PortText
<1>5. l \in Seq(Token) /\ Len(l) = b /\ (u.late # "none" => l[1] = ":" /\ l[2] = u.late)
  BY <1>1, PortText
<1>6. UrlText(u) = t
  BY DEF UrlText, PortTokens
<1>7. n \in Nat /\ a \in Nat /\ b \in Nat
  BY <1>1 DEF PortLen
<1> HIDE DEF w, p, q, l
<1>8. /\ t \in Seq(Token) /\ Len(t) = Len(w) + Len(p) + Len(q) + Len(l)
      /\ \A i \in 1 .. Len(w) : t[i] = w[i]
      /\ \A i \in 1 .. Len(p) : t[Len(w) + i] = p[i]
      /\ \A i \in 1 .. Len(q) : t[Len(w) + Len(p) + i] = q[i]
      /\ \A i \in 1 .. Len(l) : t[Len(w) + Len(p) + Len(q) + i] = l[i]
  <2>1. w \in Seq(Token) /\ p \in Seq(Token) /\ q \in Seq(Token) /\ l \in Seq(Token)
    BY <1>1, <1>3, <1>4, <1>5
  <2>2. t = w \o p \o q \o l
    OBVIOUS
  <2> HIDE DEF t
  <2> QED
    BY <2>1, <2>2, FourJoined
<1> HIDE DEF t, a, n, b
<1>9. /\ t \in Seq(Token) /\ Len(t) = 5 + a + n + b
      /\ \A i \in 1 .. 5 : t[i] = w[i]
      /\ \A i \in 1 .. a : t[5 + i] = p[i]
      /\ \A i \in 1 .. n : t[5 + a + i] = q[i]
      /\ \A i \in 1 .. b : t[5 + a + n + i] = l[i]
  BY <1>3, <1>4, <1>5, <1>8 DEF n
<1>10. t[1] = "http" /\ t[2] = ":" /\ t[3] = "/" /\ t[4] = "/" /\ t[5] = u.host
  BY <1>3, <1>9
<1>11. ASSUME u.port # "none" PROVE t[6] = ":" /\ t[7] = u.port
  <2>1. a = 2
    BY <1>11 DEF a, PortLen
  <2>2. 1 \in 1 .. a /\ 2 \in 1 .. a /\ 5 + 1 = 6 /\ 5 + 2 = 7
    BY <2>1
  <2>3. t[6] = p[1] /\ t[7] = p[2]
    BY <1>9, <2>2
  <2>4. p[1] = ":" /\ p[2] = u.port
    BY <1>4, <1>11
  <2> QED
    BY <2>3, <2>4
<1>12. ASSUME u.late # "none" PROVE t[5 + a + n + 1] = ":" /\ t[5 + a + n + 2] = u.late
  <2>1. b = 2
    BY <1>12 DEF b, PortLen
  <2>2. 1 \in 1 .. b /\ 2 \in 1 .. b
    BY <2>1
  <2>3. t[5 + a + n + 1] = l[1] /\ t[5 + a + n + 2] = l[2]
    BY <1>9, <2>2
  <2> QED
    BY <1>5, <1>12, <2>3
<1> QED
  BY <1>6, <1>7, <1>9, <1>10, <1>11, <1>12 DEF a, n, b, q, Laid

\* The parts contain no separator but the slashes of the path.
Parts(host, port, path, late) ==
  /\ host \notin {":", "/"} /\ port \notin {":", "/"} /\ late \notin {":", "/"}
  /\ path # <<>> => path[1] = "/"
  /\ \A i \in DOMAIN path : path[i] # ":"

LEMMA UrlParts ==
  ASSUME NEW u, IsUrl(u)
  PROVE  Parts(u.host, u.port, u.path, u.late) /\ u.path \in Seq(STRING)
<1>1. {u.port, u.late} \subseteq DOMAIN Number \union {"none"}
  BY DEF IsUrl
<1>2. \A p \in DOMAIN Number \union {"none"} : p \notin {":", "/"}
  BY BrowserAssumption
<1> QED
  BY <1>1, <1>2 DEF IsUrl, Parts

\* Where parseurl finds what.
LEMMA UrlPlaces ==
  ASSUME NEW t, NEW host, NEW port, NEW path \in Seq(STRING), NEW late,
         Laid(t, host, port, path, late), Parts(host, port, path, late)
  PROVE  LET a == PortLen(port)
         IN  /\ Scheme(t) # {} /\ Host(t) = 5 /\ HostEnd(t) = 6
             /\ Path(t) <= Len(t) => path # <<>>
             /\ path # <<>> => Path(t) = 6 + a
             /\ Find(t, 6 + a, {":"}) = 6 + a + Len(path)
<1>1. PICK a \in Nat : a = PortLen(port) /\ (port = "none" => a = 0) /\ (port # "none" => a = 2)
  BY DEF PortLen
<1>2. PICK b \in Nat : b = PortLen(late) /\ (late = "none" => b = 0) /\ (late # "none" => b = 2)
  BY DEF PortLen
<1>3. PICK n \in Nat : n = Len(path) /\ DOMAIN path = 1 .. n
                        /\ (path = <<>> => n = 0) /\ (path # <<>> => n >= 1)
  <2>1. Len(path) \in Nat /\ DOMAIN path = 1 .. Len(path)
    BY LenProperties
  <2>2. path = <<>> => Len(path) = 0
    BY EmptySeq
  <2>3. ASSUME path # <<>> PROVE Len(path) >= 1
    <3>1. Len(path) # 0
      BY <2>3, EmptySeq
    <3> QED
      BY <2>1, <3>1
  <2> DEFINE l == Len(path)
  <2>4. /\ l \in Nat /\ l = Len(path) /\ DOMAIN path = 1 .. l
        /\ (path = <<>> => l = 0) /\ (path # <<>> => l >= 1)
    BY <2>1, <2>2, <2>3
  <2> HIDE DEF l
  <2> QED
    BY <2>4
<1>4. PICK m \in Nat : m = Len(t) /\ m = 5 + a + n + b
  <2>1. 5 + a + n + b \in Nat
    OBVIOUS
  <2>2. Len(t) = 5 + PortLen(port) + Len(path) + PortLen(late)
    BY DEF Laid
  <2>3. Len(t) = 5 + a + n + b
    BY <1>1, <1>2, <1>3, <2>2
  <2> HIDE DEF PortLen
  <2> QED
    BY <2>1, <2>3
<1>5. m = 5 + a + n + b /\ a \in Nat /\ b \in Nat /\ n \in Nat /\ m \in Nat
  BY <1>4
<1>6. m = Len(t)
  BY <1>4
<1>7. /\ t \in Seq(Token)
      /\ t[1] = "http" /\ t[2] = ":" /\ t[3] = "/" /\ t[4] = "/" /\ t[5] = host
      /\ port # "none" => t[6] = ":" /\ t[7] = port
      /\ \A i \in 1 .. n : t[5 + a + i] = path[i]
      /\ late # "none" => t[5 + a + n + 1] = ":" /\ t[5 + a + n + 2] = late
  BY <1>1, <1>3 DEF Laid
<1>8. /\ host \notin {":", "/"} /\ (port # "none" => port # "/") /\ (late # "none" => late # "/")
      /\ path # <<>> => path[1] = "/"
      /\ \A i \in 1 .. n : path[i] # ":"
  BY <1>3 DEF Parts
<1>9. Scheme(t) # {} /\ Host(t) = 5
  <2> DEFINE s == SubSeq(t, 2, 4)
             s1 == SubSeq(t, 1, 3)
             c == <<":", "/", "/">>
  <2>0. m >= 5
    BY <1>5
  <2>1. \A i \in 1 .. m : t[i] \in Token
    BY <1>7, <1>6, ElementOfSeq
  <2>2. s \in Seq(Token) /\ Len(s) = 3 /\ s[1] = ":" /\ s[2] = "/" /\ s[3] = "/"
    <3>1. \A i \in 2 .. 4 : t[i] \in Token
      BY <2>0, <2>1
    <3>2. /\ s \in Seq(Token) /\ Len(s) = (IF 2 <= 4 THEN 4 - 2 + 1 ELSE 0)
          /\ \A i \in 1 .. 4 - 2 + 1 : s[i] = t[2 + i - 1]
      BY <3>1, SubSeqProperties
    <3> HIDE DEF s
    <3> QED
      BY <1>7, <3>2
  <2>3. s1[1] = "http"
    <3>1. \A i \in 1 .. 3 : t[i] \in Token
      BY <2>0, <2>1
    <3>2. \A i \in 1 .. 3 - 1 + 1 : s1[i] = t[1 + i - 1]
      BY <3>1, SubSeqProperties
    <3> HIDE DEF s1
    <3> QED
      BY <1>7, <3>2
  <2>4. c \in Seq(Token) /\ Len(c) = 3 /\ c[1] = ":" /\ c[2] = "/" /\ c[3] = "/"
    <3>1. ":" \in Token /\ "/" \in Token
      BY  DEF Token
    <3> QED
      BY <3>1
  <2>5. s = c
    <3> HIDE DEF s, c
    <3>1. \A i \in 1 .. Len(s) : s[i] = c[i]
      <4>1. \A i \in 1 .. 3 : i \in {1, 2, 3}
        OBVIOUS
      <4> QED
        BY <2>2, <2>4, <4>1
    <3> QED
      BY <2>2, <2>4, <3>1, SeqEqual
  <2>6. s1 # c
    BY <2>3, <2>4
  <2> DEFINE S == Scheme(t)
  <2>7. 2 \in S
    <3>1. 2 \in 1 .. Len(t) - 2 /\ 2 + 2 = 4
      BY <1>6, <2>0
    <3> QED
      BY <2>5, <3>1 DEF Scheme
  <2>8. \A y \in S : y \in Int /\ 2 <= y
    <3> SUFFICES ASSUME NEW y \in S PROVE y \in Int /\ 2 <= y
      OBVIOUS
    <3>1. y \in 1 .. Len(t) - 2 /\ SubSeq(t, y, y + 2) = c
      BY  DEF Scheme
    <3>2. y # 1
      <4> SUFFICES ASSUME y = 1 PROVE FALSE
        OBVIOUS
      <4>1. y + 2 = 3
        OBVIOUS
      <4> QED
        BY <2>6, <3>1, <4>1
    <3> QED
      BY <1>1, <1>2, <1>3, <1>4, <3>1, <3>2
  <2> HIDE DEF S
  <2>9. \A x \in S : (\A y \in S : x <= y) => x = 2
    BY <2>7, <2>8
  <2>10. Min(S) = 2
    BY <2>7, <2>8, <2>9 DEF Min
  <2> QED
    BY <2>7, <2>10 DEF Host, S
<1>10. HostEnd(t) = 6
  <2>1. 6 = m + 1 \/ t[6] \in {":", "/"}
    <3>1. CASE port # "none"
      BY <1>7, <3>1
    <3>2. CASE port = "none" /\ path # <<>>
      <4>1. 1 \in 1 .. n /\ a = 0 /\ 5 + a + 1 = 6
        BY <1>1, <1>2, <1>3, <1>4, <1>7, <3>2
      <4> QED
        BY <1>8, <1>7, <3>2, <4>1
    <3>3. CASE port = "none" /\ path = <<>> /\ late # "none"
      <4>1. 5 + a + n + 1 = 6
        BY <1>1, <1>2, <1>3, <1>4, <3>3
      <4> QED
        BY <1>7, <3>3, <4>1
    <3>4. CASE port = "none" /\ path = <<>> /\ late = "none"
      BY <1>1, <1>2, <1>3, <1>4, <3>4
    <3> QED
      BY <3>1, <3>2, <3>3, <3>4
  <2>2. \A k \in 5 .. 6 - 1 : t[k] \notin {":", "/"}
    <3>1. \A k \in 5 .. 6 - 1 : k = 5
      OBVIOUS
    <3> QED
      BY <1>8, <1>7, <3>1
  <2>3. 6 <= m + 1
    BY <1>5
  <2> QED
    BY <1>5, <1>6, <1>9, <2>1, <2>2, <2>3, FindIs DEF HostEnd
<1>11. ASSUME path = <<>> PROVE Path(t) = m + 1
  <2>1. ASSUME NEW k \in 6 .. m PROVE t[k] \notin {"/"}
    <3>1. n = 0 /\ m = 5 + a + b
      BY <1>1, <1>2, <1>3, <1>4, <1>11
    <3>2. CASE k <= 5 + a
      <4>1. a = 2 /\ port # "none" /\ k \in {6, 7}
        BY <1>1, <1>2, <1>3, <1>4, <3>2
      <4> QED
        BY <1>8, <1>7, <4>1
    <3>3. CASE ~(k <= 5 + a)
      <4>1. b = 2 /\ late # "none" /\ k \in {5 + a + n + 1, 5 + a + n + 2}
        BY <1>1, <1>2, <1>3, <1>4, <3>1, <3>3
      <4> QED
        BY <1>8, <1>7, <4>1
    <3> QED
      BY <3>2, <3>3
  <2>2. 6 <= m + 1 /\ m + 1 - 1 = m /\ m + 1 \in Nat
    BY <1>5
  <2>3. \A k \in 6 .. (m + 1) - 1 : t[k] \notin {"/"}
    BY <2>1, <2>2
  <2> QED
    BY <1>5, <1>6, <1>10, <2>2, <2>3, FindIs DEF Path
<1>12. ASSUME path # <<>> PROVE Path(t) = 6 + a
  <2>1. t[6 + a] \in {"/"}
    <3>1. 1 \in 1 .. n /\ 5 + a + 1 = 6 + a
      BY <1>1, <1>2, <1>3, <1>4, <1>7, <1>12
    <3> QED
      BY <1>8, <1>7, <1>12, <3>1
  <2>2. ASSUME NEW k \in 6 .. (6 + a) - 1 PROVE t[k] \notin {"/"}
    <3>1. a = 2 /\ port # "none" /\ k \in {6, 7}
      BY <1>1, <1>2, <1>3, <1>4
    <3> QED
      BY <1>8, <1>7, <3>1
  <2>3. 6 + a \in Nat /\ 6 <= 6 + a /\ 6 + a <= m + 1
    <3>1. n >= 1
      BY <1>3, <1>12
    <3> QED
      BY <1>5, <3>1
  <2> QED
    BY <1>5, <1>6, <1>10, <2>1, <2>2, <2>3, FindIs DEF Path
<1>13. Find(t, 6 + a, {":"}) = 6 + a + n
  <2>1. 6 + a + n = m + 1 \/ t[6 + a + n] \in {":"}
    <3>1. CASE late = "none"
      BY <1>1, <1>2, <1>3, <1>4, <1>7, <3>1
    <3>2. CASE late # "none"
      <4>1. 5 + a + n + 1 = 6 + a + n
        BY <1>5
      <4> QED
        BY <1>7, <3>2, <4>1
    <3> QED
      BY <3>1, <3>2
  <2>2. ASSUME NEW k \in 6 + a .. (6 + a + n) - 1 PROVE t[k] \notin {":"}
    <3>1. k - (5 + a) \in 1 .. n /\ 5 + a + (k - (5 + a)) = k
      BY <1>5
    <3> QED
      BY <1>8, <1>7, <3>1
  <2>3. 6 + a \in Nat /\ 6 + a + n \in Nat /\ 6 + a <= 6 + a + n /\ 6 + a + n <= m + 1
    BY <1>5
  <2> QED
    BY <1>5, <1>6, <2>1, <2>2, <2>3, FindIs
<1>14. Path(t) <= Len(t) => path # <<>>
  BY <1>1, <1>2, <1>3, <1>4, <1>11
<1> QED
  BY <1>1, <1>3, <1>9, <1>10, <1>12, <1>13, <1>14

\* Of one token.
LEMMA OneToken ==
  ASSUME NEW S, NEW t \in Seq(S), NEW i \in 1 .. Len(t)
  PROVE  SubSeq(t, i, i) = <<t[i]>>
<1> DEFINE s == SubSeq(t, i, i)
<1>1. t[i] \in S /\ i \in Int
  BY ElementOfSeq
<1>2. \A j \in i .. i : t[j] \in S
  BY <1>1
<1>3. /\ s \in Seq(S) /\ Len(s) = (IF i <= i THEN i - i + 1 ELSE 0)
      /\ \A j \in 1 .. i - i + 1 : s[j] = t[i + j - 1]
  BY <1>1, <1>2, SubSeqProperties
<1> HIDE DEF s
<1>4. Len(s) = 1 /\ s[1] = t[i]
  <2>1. i - i + 1 = 1 /\ i + 1 - 1 = i /\ i <= i
    BY <1>1
  <2> QED
    BY <1>3, <2>1
<1> DEFINE o == <<t[i]>>
<1>5. o \in Seq(S) /\ Len(o) = 1 /\ o[1] = t[i]
  BY <1>1
<1> HIDE DEF o
<1>6. s = o
  BY <1>3, <1>4, <1>5, SeqEqual
<1> QED
  BY <1>6 DEF s, o

LEMMA NumberOf ==
  ASSUME NEW p \in DOMAIN Number
  PROVE  atoi(<<p>>) = Number[p]
<1> DEFINE s == <<p>>
<1>1. s # <<>> /\ s[1] = p
  OBVIOUS
<1> HIDE DEF s
<1>2. atoi(s) = Number[p]
  BY <1>1 DEF atoi
<1> QED
  BY <1>2 DEF s

\* The port that is meant.
PortOf(port, late) ==
  IF late # "none" THEN late ELSE IF port # "none" THEN port ELSE "80"

\* What parseurl makes of a url.
LEMMA UrlRead ==
  ASSUME NEW t, NEW host, NEW port, NEW path \in Seq(STRING), NEW late,
         Laid(t, host, port, path, late), Parts(host, port, path, late), HasPath(t),
         {port, late} \subseteq DOMAIN Number \union {"none"}
  PROVE  /\ path # <<>>
         /\ parseurl(t).ip = <<host>> /\ parseurl(t).path = path
         /\ parseurl(t).port = Number[PortOf(port, late)]
<1>1. PICK a \in Nat : a = PortLen(port) /\ (port = "none" => a = 0) /\ (port # "none" => a = 2)
  BY DEF PortLen
<1>2. PICK b \in Nat : b = PortLen(late) /\ (late = "none" => b = 0) /\ (late # "none" => b = 2)
  BY DEF PortLen
<1>3. PICK n \in Nat : n = Len(path)
  BY LenProperties
<1>4. path # <<>>
  BY UrlPlaces DEF HasPath
<1>5. n >= 1
  <2>1. n # 0
    BY <1>3, <1>4, EmptySeq
  <2> QED
    BY <2>1
<1>6. PICK m \in Nat : m = Len(t)
  BY LenProperties DEF Laid
<1>7. m = 5 + a + n + b
  BY <1>1, <1>2, <1>3, <1>6 DEF Laid
<1>8. /\ t \in Seq(Token) /\ t[5] = host
      /\ port # "none" => t[7] = port
      /\ \A i \in 1 .. n : t[5 + a + i] = path[i]
      /\ late # "none" => t[5 + a + n + 2] = late
  BY <1>1, <1>3 DEF Laid
<1>9. /\ Host(t) = 5 /\ HostEnd(t) = 6 /\ Path(t) = 6 + a
      /\ Find(t, 6 + a, {":"}) = 6 + a + n
  BY <1>1, <1>3, <1>4, UrlPlaces
<1>10. \A i \in 1 .. m : SubSeq(t, i, i) = <<t[i]>>
  BY <1>6, <1>8, OneToken
<1>11. SubSeq(t, 5, 6 - 1) = <<host>>
  <2>1. 5 \in 1 .. m /\ 6 - 1 = 5
    BY <1>7
  <2> QED
    BY <1>8, <1>10, <2>1
<1> DEFINE q == SubSeq(t, 6 + a, (6 + a + n) - 1)
           early == SubSeq(t, 6 + 1, (6 + a) - 1)
           behind == SubSeq(t, (6 + a + n) + 1, m)
<1>12. q = path
  <2>1. ASSUME NEW i \in 6 + a .. (6 + a + n) - 1 PROVE t[i] \in STRING
    <3>1. i - (5 + a) \in 1 .. n /\ 5 + a + (i - (5 + a)) = i
      OBVIOUS
    <3>2. path[i - (5 + a)] \in STRING
      BY <1>3, <3>1, ElementOfSeq
    <3> QED
      BY <1>8, <3>1, <3>2
  <2>2. 6 + a \in Int /\ (6 + a + n) - 1 \in Int
    OBVIOUS
  <2>3. /\ q \in Seq(STRING)
        /\ Len(q) = (IF 6 + a <= (6 + a + n) - 1 THEN ((6 + a + n) - 1) - (6 + a) + 1 ELSE 0)
        /\ \A i \in 1 .. ((6 + a + n) - 1) - (6 + a) + 1 : q[i] = t[(6 + a) + i - 1]
    BY <2>1, <2>2, SubSeqProperties
  <2> HIDE DEF q
  <2>4. ((6 + a + n) - 1) - (6 + a) + 1 = n /\ 6 + a <= (6 + a + n) - 1
    BY <1>5
  <2>5. Len(q) = n
    BY <2>3, <2>4
  <2>6. ASSUME NEW i \in 1 .. n PROVE q[i] = path[i]
    <3>1. (6 + a) + i - 1 = 5 + a + i
      OBVIOUS
    <3> QED
      BY <1>8, <2>3, <2>4, <3>1
  <2> QED
    BY <1>3, <2>3, <2>5, <2>6, SeqEqual
<1>13. port = "none" => early = <<>>
  <2>1. ASSUME port = "none" PROVE 6 + 1 \in Int /\ (6 + a) - 1 \in Int /\ (6 + a) - 1 < 6 + 1
    BY <1>1, <2>1
  <2> QED
    BY <2>1, SubSeqEmpty
<1>14. port # "none" => early = <<port>>
  <2> SUFFICES ASSUME port # "none" PROVE early = <<port>>
    OBVIOUS
  <2>1. 6 + 1 = 7 /\ (6 + a) - 1 = 7 /\ 7 \in 1 .. m
    BY <1>1, <1>7
  <2>2. early = SubSeq(t, 7, 7)
    BY <2>1
  <2> QED
    BY <1>8, <1>10, <2>1, <2>2
<1>15. late # "none" <=> 6 + a + n <= m
  BY <1>2, <1>7
<1>16. late # "none" => behind = <<late>>
  <2> SUFFICES ASSUME late # "none" PROVE behind = <<late>>
    OBVIOUS
  <2>1. (6 + a + n) + 1 = m /\ 5 + a + n + 2 = m /\ m \in 1 .. m
    BY <1>2, <1>7
  <2>2. behind = SubSeq(t, m, m)
    BY <2>1
  <2> QED
    BY <1>8, <1>10, <2>1, <2>2
<1> HIDE DEF q, early, behind
<1> DEFINE number == IF 6 + a + n <= m THEN atoi(behind)
                     ELSE IF early # <<>> THEN atoi(early) ELSE 80
<1>17. parseurl(t) = [ip |-> SubSeq(t, 5, 6 - 1), path |-> q, port |-> number]
  BY <1>6, <1>9 DEF parseurl, q, early, behind
<1>18. number = Number[PortOf(port, late)]
  <2>1. CASE late # "none"
    <3>1. number = atoi(behind)
      BY <1>15, <2>1
    <3>2. late \in DOMAIN Number
      BY <2>1
    <3>3. PortOf(port, late) = late
      BY <2>1 DEF PortOf
    <3> QED
      BY <1>16, <2>1, <3>1, <3>2, <3>3, NumberOf
  <2>2. CASE late = "none" /\ port # "none"
    <3>1. early = <<port>> /\ early # <<>>
      <4>1. <<port>> # <<>>
        OBVIOUS
      <4> QED
        BY <1>14, <2>2, <4>1
    <3>2. number = atoi(early)
      BY <1>15, <2>2, <3>1
    <3>3. port \in DOMAIN Number
      BY <2>2
    <3>4. PortOf(port, late) = port
      BY <2>2 DEF PortOf
    <3> QED
      BY <3>1, <3>2, <3>3, <3>4, NumberOf
  <2>3. CASE late = "none" /\ port = "none"
    <3>1. number = 80
      BY <1>13, <1>15, <2>3
    <3>2. PortOf(port, late) = "80"
      BY <2>3 DEF PortOf
    <3> QED
      BY <3>1, <3>2, BrowserAssumption
  <2> QED
    BY <2>1, <2>2, <2>3
<1> HIDE DEF number
<1> QED
  BY <1>4, <1>11, <1>12, <1>17, <1>18

-----------------------------------------------------------------------------
(***************************************************************************)
(* Names.                                                                  *)
(***************************************************************************)
\* c is the function in the definition of Components, for n tokens.
Collects(c, path, n) ==
  c = [i \in 0 .. n |-> IF i = 0 THEN <<>>
                        ELSE IF path[i] = "/" THEN c[i - 1] ELSE Append(c[i - 1], path[i])]

LEMMA ComponentsAre ==
  ASSUME NEW path, NEW m \in Nat, Len(path) = m
  PROVE  \E c : Collects(c, path, m) /\ Components(path) = c[m]
<1> DEFINE S == {n \in Nat : \E c : Collects(c, path, n)}
<1>1. 0 \in S
  <2> DEFINE c == [i \in 0 .. 0 |-> <<>>]
  <2>1. Collects(c, path, 0)
    BY DEF Collects
  <2> HIDE DEF c
  <2> QED
    BY <2>1
<1>2. ASSUME NEW n \in Nat, n \in S PROVE n + 1 \in S
  <2>1. PICK c : Collects(c, path, n)
    BY <1>2
  <2> DEFINE c2 == [i \in 0 .. n + 1 |->
                      IF i <= n THEN c[i]
                      ELSE IF path[i] = "/" THEN c[n] ELSE Append(c[n], path[i])]
  <2>2. \A i \in 0 .. n : c2[i] = c[i]
    OBVIOUS
  <2>3. \A i \in 0 .. n + 1 :
          c2[i] = IF i = 0 THEN <<>>
                  ELSE IF path[i] = "/" THEN c2[i - 1] ELSE Append(c2[i - 1], path[i])
    <3> SUFFICES ASSUME NEW i \in 0 .. n + 1
                 PROVE  c2[i] = IF i = 0 THEN <<>>
                                ELSE IF path[i] = "/" THEN c2[i - 1]
                                     ELSE Append(c2[i - 1], path[i])
      OBVIOUS
    <3>1. CASE i \in 0 .. n
      <4>1. i # 0 => i - 1 \in 0 .. n
        BY <3>1
      <4>2. c[i] = IF i = 0 THEN <<>>
                   ELSE IF path[i] = "/" THEN c[i - 1] ELSE Append(c[i - 1], path[i])
        BY <2>1, <3>1 DEF Collects
      <4> HIDE DEF c2
      <4> QED
        BY <2>2, <3>1, <4>1, <4>2
    <3>2. CASE i = n + 1
      <4>1. /\ c2[i] = IF path[i] = "/" THEN c[n] ELSE Append(c[n], path[i])
            /\ i - 1 = n /\ n \in 0 .. n /\ i # 0
        BY <3>2
      <4> HIDE DEF c2
      <4> QED
        BY <2>2, <4>1
    <3> QED
      BY <3>1, <3>2
  <2>4. Collects(c2, path, n + 1)
    BY <2>3 DEF Collects
  <2> HIDE DEF c2
  <2>5. \E c3 : Collects(c3, path, n + 1)
    BY <2>4
  <2> QED
    BY <2>5
<1>3. \A n \in Nat : n \in S
  <2> HIDE DEF S
  <2> QED
    BY <1>1, <1>2, SetInduction
<1>4. \E c : Collects(c, path, m)
  BY <1>3
<1> DEFINE d == CHOOSE c : Collects(c, path, m)
<1>5. Collects(d, path, m)
  BY <1>4
<1>6. Components(path) = d[m]
  BY DEF Components, Collects
<1> HIDE DEF d
<1> QED
  BY <1>5, <1>6

\* They are tokens, and two paths that begin with the same tokens begin with the
\* same components.
LEMMA Collected ==
  ASSUME NEW path, NEW other, NEW n \in Nat, NEW c, NEW d, NEW m \in Nat, n <= m,
         \A i \in 1 .. n : path[i] \in Token /\ other[i] = path[i],
         Collects(c, path, n), Collects(d, other, m)
  PROVE  \A i \in 0 .. n : c[i] \in Seq(Token) /\ d[i] = c[i]
<1> DEFINE S == {i \in Nat : i <= n => c[i] \in Seq(Token) /\ d[i] = c[i]}
<1>1. 0 \in S
  <2>1. c[0] = <<>> /\ d[0] = <<>>
    BY DEF Collects
  <2> QED
    BY <2>1, EmptySeq
<1>2. ASSUME NEW i \in Nat, i \in S PROVE i + 1 \in S
  <2> SUFFICES ASSUME i + 1 <= n PROVE c[i + 1] \in Seq(Token) /\ d[i + 1] = c[i + 1]
    OBVIOUS
  <2>1. /\ c[i] \in Seq(Token) /\ d[i] = c[i]
        /\ path[i + 1] \in Token /\ other[i + 1] = path[i + 1]
    BY <1>2
  <2>2. i + 1 \in 0 .. n /\ i + 1 \in 0 .. m /\ i + 1 # 0 /\ (i + 1) - 1 = i
    OBVIOUS
  <2>3. /\ c[i + 1] = IF path[i + 1] = "/" THEN c[i] ELSE Append(c[i], path[i + 1])
        /\ d[i + 1] = IF other[i + 1] = "/" THEN d[i] ELSE Append(d[i], other[i + 1])
    BY <2>2 DEF Collects
  <2>4. Append(c[i], path[i + 1]) \in Seq(Token)
    BY <2>1, AppendProperties
  <2> QED
    BY <2>1, <2>3, <2>4
<1>3. Nat \subseteq S
  <2> HIDE DEF S
  <2> QED
    BY <1>1, <1>2, SetInduction
<1> QED
  BY <1>3

LEMMA ComponentsOfMore ==
  ASSUME NEW path \in Seq(Token), NEW x \in Token
  PROVE  /\ Components(path) \in Seq(Token)
         /\ Components(path \o <<x>>) =
              IF x = "/" THEN Components(path) ELSE Append(Components(path), x)
<1> DEFINE o == <<x>>
           q == path \o o
<1>1. PICK n \in Nat : n = Len(path)
  OBVIOUS
<1>2. o \in Seq(Token) /\ Len(o) = 1 /\ o[1] = x
  OBVIOUS
<1> HIDE DEF o
<1>3. /\ q \in Seq(Token) /\ Len(q) = n + 1
      /\ \A i \in 1 .. n + 1 : q[i] = IF i <= n THEN path[i] ELSE o[i - n]
  <2>1. /\ q \in Seq(Token) /\ Len(q) = Len(path) + Len(o)
        /\ \A i \in 1 .. Len(path) + Len(o) :
             q[i] = IF i <= Len(path) THEN path[i] ELSE o[i - Len(path)]
    BY <1>2, ConcatProperties
  <2> HIDE DEF q
  <2> QED
    BY <1>1, <1>2, <2>1
<1> HIDE DEF q
<1>4. q[n + 1] = x
  <2>1. n + 1 \in 1 .. n + 1 /\ ~(n + 1 <= n) /\ (n + 1) - n = 1
    OBVIOUS
  <2> QED
    BY <1>2, <1>3, <2>1
<1>5. \A i \in 1 .. n : path[i] \in Token /\ q[i] = path[i]
  BY <1>1, <1>3, ElementOfSeq
<1>6. PICK c : Collects(c, path, n) /\ Components(path) = c[n]
  BY <1>1, ComponentsAre
<1>7. PICK d : Collects(d, q, n + 1) /\ Components(q) = d[n + 1]
  BY <1>3, ComponentsAre
<1>8. c[n] \in Seq(Token) /\ d[n] = c[n]
  <2>1. n <= n + 1 /\ n + 1 \in Nat /\ n \in 0 .. n
    OBVIOUS
  <2>2. PICK k \in Nat : k = n + 1
    OBVIOUS
  <2>3. n <= k /\ Collects(d, q, k) /\ Collects(c, path, n)
    BY <1>6, <1>7, <2>2
  <2>4. \A i \in 0 .. n : c[i] \in Seq(Token) /\ d[i] = c[i]
    BY <1>5, <2>3, Collected
  <2> QED
    BY <2>1, <2>4
<1>9. d[n + 1] = IF q[n + 1] = "/" THEN d[n] ELSE Append(d[n], q[n + 1])
  <2>1. n + 1 \in 0 .. n + 1 /\ n + 1 # 0 /\ (n + 1) - 1 = n
    OBVIOUS
  <2> QED
    BY <1>7, <2>1 DEF Collects
<1> QED
  BY <1>4, <1>6, <1>7, <1>8, <1>9 DEF q, o

\* The file in a directory.
LEMMA FileIn ==
  ASSUME NEW path \in Seq(Token), NEW x \in Token, x # "/"
  PROVE  /\ FileAt(path \o <<"/">> \o <<x>>) = Append(Components(path), x)
         /\ Append(Components(path), x) # <<>>
<1> DEFINE s == <<"/">>
           o == <<x>>
           p == path \o s
           q == p \o o
<1>1. s \in Seq(Token) /\ "/" \in Token /\ o \in Seq(Token) /\ Len(o) = 1 /\ o[1] = x
  BY DEF Token
<1>2. Components(path) \in Seq(Token) /\ Components(p) = Components(path)
  BY <1>1, ComponentsOfMore
<1> HIDE DEF s, o
<1>3. p \in Seq(Token)
  BY <1>1, ConcatProperties
<1> HIDE DEF p
<1>4. Components(q) = Append(Components(p), x)
  BY <1>3, ComponentsOfMore DEF o
<1>5. q # <<>> /\ q[Len(q)] = x
  <2>1. PICK n \in Nat : n = Len(p)
    <3>1. Len(p) \in Nat
      BY <1>3, LenProperties
    <3> QED
      BY <3>1
  <2>2. Len(q) = n + 1 /\ \A i \in 1 .. n + 1 : q[i] = IF i <= n THEN p[i] ELSE o[i - n]
    <3>1. /\ Len(q) = Len(p) + Len(o)
          /\ \A i \in 1 .. Len(p) + Len(o) :
               q[i] = IF i <= Len(p) THEN p[i] ELSE o[i - Len(p)]
      BY <1>1, <1>3, ConcatProperties
    <3> HIDE DEF q
    <3> QED
      BY <1>1, <2>1, <3>1
  <2> HIDE DEF q
  <2>3. n + 1 \in 1 .. n + 1 /\ ~(n + 1 <= n) /\ (n + 1) - n = 1 /\ n + 1 # 0
    OBVIOUS
  <2> QED
    BY <1>1, <2>2, <2>3, EmptySeq
<1> HIDE DEF q
<1>6. FileAt(q) = Append(Components(path), x)
  BY <1>2, <1>4, <1>5 DEF FileAt
<1> QED
  BY <1>2, <1>6, AppendProperties DEF q, p, s, o

\* The name of a file of more than one component ends behind its last slash.
LEMMA BaseNameIs ==
  ASSUME NEW n, IsName(n), n[Len(n)] # "/"
  PROVE  BaseName(n) = <<n[Len(n)]>> /\ n[Len(n)] \in STRING
<1>1. n \in Seq(STRING) /\ n # <<>> /\ \A i \in 1 .. Len(n) - 1 : "/" \in {n[i], n[i + 1]}
  BY DEF IsName
<1>2. PICK m \in Nat : m = Len(n) /\ m >= 1
  <2>1. Len(n) \in Nat /\ Len(n) # 0
    BY <1>1, EmptySeq
  <2>2. Len(n) >= 1
    BY <2>1
  <2> QED
    BY <2>1, <2>2
<1>3. DOMAIN n = 1 .. m
  BY <1>1, <1>2, LenProperties
<1>4. n[m] # "/" /\ (m # 1 => n[m - 1] = "/")
  <2>1. m # 1 => m - 1 \in 1 .. m - 1 /\ (m - 1) + 1 = m
    BY <1>2
  <2> QED
    BY <1>1, <1>2, <2>1
<1> DEFINE S == {i \in DOMAIN n : n[i] = "/"} \union {0}
<1>5. m - 1 \in S /\ \A y \in S : y \in Int /\ m - 1 >= y
  <2>1. m - 1 \in S
    BY <1>2, <1>3, <1>4
  <2>2. ASSUME NEW y \in S PROVE y \in Int /\ m - 1 >= y
    <3>1. y \in 0 .. m /\ y # m
      BY <1>2, <1>3, <1>4
    <3> QED
      BY <1>2, <3>1
  <2> QED
    BY <2>1, <2>2
<1> HIDE DEF S
<1>6. \A x \in S : (\A y \in S : x >= y) => x = m - 1
  BY <1>2, <1>5
<1>7. Max(S) = m - 1
  BY <1>5, <1>6 DEF Max
<1>8. BaseName(n) = SubSeq(n, m, m)
  <2>1. (m - 1) + 1 = m
    BY <1>2
  <2> QED
    BY <1>2, <1>7, <2>1 DEF BaseName, S
<1>9. m \in 1 .. Len(n)
  BY <1>2
<1>10. SubSeq(n, m, m) = <<n[m]>> /\ n[m] \in STRING
  BY <1>1, <1>9, OneToken, ElementOfSeq
<1> QED
  BY <1>2, <1>8, <1>10

-----------------------------------------------------------------------------
(***************************************************************************)
(* The command that was said.                                              *)
(***************************************************************************)
\* The word for a part of what is said.
WordOf(i, x) == IF i = 1 THEN <<x>> ELSE IF i = 2 THEN UrlText(x) ELSE x

\* What may be said, over one line or more.
Sayable(s) ==
  /\ \E n \in 0 .. 3 : DOMAIN s = 1 .. n
  /\ 2 \in DOMAIN s => s[2] \in Urls
  /\ 3 \in DOMAIN s => s[3] \in Names

\* The arrays hold the words of what was said, and nothing else.
SaidInv == Sayable(said) /\ words = sscanf(Cleared, Text(said))

LEMMA LineSayable ==
  ASSUME NEW line \in Lines
  PROVE  Sayable(line)
<1>1. CASE line = <<>>
  <2>1. DOMAIN line = 1 .. 0 /\ 2 \notin 1 .. 0 /\ 3 \notin 1 .. 0
    BY <1>1
  <2> QED
    BY <2>1 DEF Sayable
<1>2. ASSUME NEW m, line = <<m>> PROVE Sayable(line)
  <2>1. DOMAIN line = 1 .. 1 /\ 2 \notin 1 .. 1 /\ 3 \notin 1 .. 1 /\ 1 \in 0 .. 3
    BY <1>2
  <2> QED
    BY <2>1 DEF Sayable
<1>3. ASSUME NEW m, NEW u \in Urls, line = <<m, u>> PROVE Sayable(line)
  <2>1. DOMAIN line = 1 .. 2 /\ 3 \notin 1 .. 2 /\ 2 \in 0 .. 3 /\ line[2] = u
    BY <1>3
  <2> QED
    BY <2>1 DEF Sayable
<1>4. ASSUME NEW m, NEW u \in Urls, NEW n \in Names, line = <<m, u, n>> PROVE Sayable(line)
  <2>1. DOMAIN line = 1 .. 3 /\ 3 \in 0 .. 3 /\ line[2] = u /\ line[3] = n
    BY <1>4
  <2> QED
    BY <2>1 DEF Sayable
<1>5. \/ line = <<>> \/ line \in {<<"QUIT">>, <<"GET">>, <<"PUT">>, <<"HEAD">>}
      \/ line \in {"GET", "PUT"} \X Urls \/ line \in {"PUT"} \X Urls \X Names
  BY DEF Lines
<1> QED
  BY <1>1, <1>2, <1>3, <1>4, <1>5

LEMMA TextIs ==
  ASSUME NEW s, Sayable(s), NEW arrays
  PROVE  LET t == sscanf(arrays, Text(s))
         IN  /\ t = [i \in 1 .. 3 |-> t[i]]
             /\ \A i \in 1 .. 3 : t[i] = IF i \in DOMAIN s THEN WordOf(i, s[i]) ELSE arrays[i]
<1>1. DOMAIN Text(s) = DOMAIN s
  BY DEF Text
<1>2. ASSUME NEW i \in DOMAIN s, i \in 1 .. 3 PROVE Text(s)[i] = WordOf(i, s[i])
  <2>1. Text(s)[i] = CASE i = 1 -> <<s[1]>> [] i = 2 -> UrlText(s[2]) [] i = 3 -> s[3]
    BY DEF Text
  <2>2. CASE i = 1
    BY <2>1, <2>2 DEF WordOf
  <2>3. CASE i = 2
    BY <2>1, <2>3 DEF WordOf
  <2>4. CASE i = 3
    BY <2>1, <2>4 DEF WordOf
  <2> QED
    BY <1>2, <2>2, <2>3, <2>4
<1> QED
  BY <1>1, <1>2 DEF sscanf

LEMMA SaidStep ==
  ASSUME SaidInv, version \in {"MyBrowser", "client"}, NEW line \in Lines,
         words' = Read(Text(line)), said' = Said(line)
  PROVE  SaidInv'
<1>1. Sayable(line) /\ Sayable(said)
  BY LineSayable DEF SaidInv
<1>2. CASE version = "MyBrowser"
  <2>1. said' = line /\ words' = sscanf(Cleared, Text(line))
    BY <1>2 DEF Said, Read
  <2> QED
    BY <1>1, <2>1 DEF SaidInv
<1>3. CASE version = "client"
  <2> DEFINE s == [i \in DOMAIN line \union DOMAIN said |->
                     IF i \in DOMAIN line THEN line[i] ELSE said[i]]
  <2>1. said' = s /\ words' = sscanf(words, Text(line))
    BY <1>3 DEF Said, Read
  <2>2. DOMAIN s = DOMAIN line \union DOMAIN said
    OBVIOUS
  <2>3. \A i \in DOMAIN s : s[i] = IF i \in DOMAIN line THEN line[i] ELSE said[i]
    OBVIOUS
  <2> HIDE DEF s
  <2>4. Sayable(s)
    <3>1. PICK n \in 0 .. 3 : DOMAIN line = 1 .. n
      BY <1>1 DEF Sayable
    <3>2. PICK m \in 0 .. 3 : DOMAIN said = 1 .. m
      BY <1>1 DEF Sayable
    <3>3. PICK k \in 0 .. 3 : DOMAIN s = 1 .. k
      <4>1. n >= m => DOMAIN s = 1 .. n
        BY <2>2, <3>1, <3>2
      <4>2. m >= n => DOMAIN s = 1 .. m
        BY <2>2, <3>1, <3>2
      <4>3. n >= m \/ m >= n
        OBVIOUS
      <4> QED
        BY <4>1, <4>2, <4>3
    <3>4. 2 \in DOMAIN s => s[2] \in Urls
      BY <1>1, <2>2, <2>3 DEF Sayable
    <3>5. 3 \in DOMAIN s => s[3] \in Names
      BY <1>1, <2>2, <2>3 DEF Sayable
    <3> QED
      BY <3>3, <3>4, <3>5 DEF Sayable
  <2> DEFINE before == sscanf(Cleared, Text(said))
             now == sscanf(words, Text(line))
             whole == sscanf(Cleared, Text(s))
  <2>5. words = before /\ words' = now
    BY <2>1 DEF SaidInv
  <2>6. \A i \in 1 .. 3 : before[i] = IF i \in DOMAIN said THEN WordOf(i, said[i]) ELSE Cleared[i]
    BY <1>1, TextIs
  <2>7. /\ now = [i \in 1 .. 3 |-> now[i]]
        /\ \A i \in 1 .. 3 : now[i] = IF i \in DOMAIN line THEN WordOf(i, line[i]) ELSE words[i]
    BY <1>1, TextIs
  <2>8. /\ whole = [i \in 1 .. 3 |-> whole[i]]
        /\ \A i \in 1 .. 3 : whole[i] = IF i \in DOMAIN s THEN WordOf(i, s[i]) ELSE Cleared[i]
    BY <2>4, TextIs
  <2>9. now = whole
    <3> HIDE DEF before, now, whole
    <3>1. \A i \in 1 .. 3 : now[i] = whole[i]
      BY <2>2, <2>3, <2>5, <2>6, <2>7, <2>8
    <3> QED
      BY <2>7, <2>8, <3>1
  <2> QED
    BY <2>1, <2>4, <2>9 DEF SaidInv
<1> QED
  BY <1>2, <1>3

\* The words of a command that does not fail.
LEMMA WordsOfCommand ==
  ASSUME NEW s, Sayable(s), NEW w, w = sscanf(Cleared, Text(s)), Command(w), ~Fails(w)
  PROVE  /\ s[1] \in {"GET", "PUT"} /\ (IsPut(w) <=> s[1] = "PUT")
         /\ Len(s) >= IF s[1] = "PUT" THEN 3 ELSE 2
         /\ s[2] \in Urls /\ w[2] = UrlText(s[2])
         /\ s[1] = "PUT" => s[3] \in Names /\ w[3] = s[3] /\ s[3][Len(s[3])] # "/"
<1>1. PICK n \in 0 .. 3 : DOMAIN s = 1 .. n
  BY DEF Sayable
<1>2. Len(s) = n
  BY <1>1
<1>3. /\ w[1] = IF 1 \in 1 .. n THEN <<s[1]>> ELSE <<>>
      /\ w[2] = IF 2 \in 1 .. n THEN UrlText(s[2]) ELSE <<>>
      /\ w[3] = IF 3 \in 1 .. n THEN s[3] ELSE <<>>
  <2>1. \A i \in 1 .. 3 : w[i] = IF i \in 1 .. n THEN WordOf(i, s[i]) ELSE Cleared[i]
    BY <1>1, TextIs
  <2>2. Cleared[1] = <<>> /\ Cleared[2] = <<>> /\ Cleared[3] = <<>>
    BY DEF Cleared
  <2> QED
    BY <2>1, <2>2 DEF WordOf
<1>4. w[1] # <<>> /\ (w[1] = <<"GET">> \/ w[1] = <<"PUT">>)
  <2>1. <<"GET">> # <<>> /\ <<"PUT">> # <<>>
    OBVIOUS
  <2> QED
    BY <2>1 DEF Command
<1>5. w[1] = <<s[1]>>
  BY <1>3, <1>4
<1>6. s[1] \in {"GET", "PUT"} /\ (IsPut(w) <=> s[1] = "PUT")
  <2>1. \A x, y : <<x>> = <<y>> => x = y
    OBVIOUS
  <2> QED
    BY <1>4, <1>5, <2>1 DEF IsPut
<1>7. 2 \in 1 .. n
  <2> SUFFICES ASSUME 2 \notin 1 .. n PROVE FALSE
    OBVIOUS
  <2>1. w[2] = <<>>
    BY <1>3
  <2>2. Scheme(<<>>) = {}
    <3>1. Len(<<>>) = 0 /\ 1 .. 0 - 2 = {}
      OBVIOUS
    <3> QED
      BY <3>1 DEF Scheme
  <2> QED
    BY <2>1, <2>2 DEF Fails, HasPath
<1>8. ASSUME s[1] = "PUT" PROVE 3 \in 1 .. n /\ w[3] = s[3] /\ s[3][Len(s[3])] # "/"
  <2>1. FileAt(w[3]) # <<>>
    BY <1>6, <1>8 DEF Fails, LocalFile, Contents
  <2>2. Components(<<>>) = <<>>
    <3>1. Len(<<>>) = 0
      OBVIOUS
    <3>2. PICK c : Collects(c, <<>>, 0) /\ Components(<<>>) = c[0]
      BY <3>1, ComponentsAre
    <3> QED
      BY <3>2 DEF Collects
  <2>3. FileAt(<<>>) = <<>>
    BY <2>2 DEF FileAt
  <2>4. 3 \in 1 .. n /\ w[3] = s[3]
    BY <1>3, <2>1, <2>3
  <2>5. s[3] # <<>>
    BY <2>1, <2>3, <2>4
  <2>6. s[3][Len(s[3])] # "/"
    BY <2>1, <2>4, <2>5 DEF FileAt
  <2> QED
    BY <2>4, <2>6
<1>9. 2 \in DOMAIN s /\ w[2] = UrlText(s[2]) /\ n >= 2
  BY <1>1, <1>3, <1>7
<1>10. s[1] = "PUT" => 3 \in DOMAIN s /\ n >= 3
  BY <1>1, <1>8
<1>11. s[2] \in Urls /\ (s[1] = "PUT" => s[3] \in Names)
  BY <1>9, <1>10 DEF Sayable
<1> QED
  BY <1>2, <1>6, <1>8, <1>9, <1>10, <1>11

\* The file at the server for what was said.
TargetOf(s) ==
  IF s[1] = "PUT" THEN Append(Components(s[2].path), s[3][Len(s[3])]) ELSE FileAt(s[2].path)

\* What the child is asked for by a command that does not fail.
LEMMA Meant ==
  ASSUME NEW s, Sayable(s), NEW w, w = sscanf(Cleared, Text(s)), Command(w), ~Fails(w)
  PROVE  /\ Len(s) >= IF s[1] = "PUT" THEN 3 ELSE 2
         /\ parseurl(w[2]).ip = <<s[2].host>>
         /\ parseurl(w[2]).port = Number[PortOf(s[2].port, s[2].late)]
         /\ Request(w).valid /\ Request(w).method = s[1]
         /\ FileAt(Request(w).path) = TargetOf(s)
         /\ s[1] = "PUT" => /\ TargetOf(s) # <<>>
                            /\ Request(w).length = Len(disk["browser"][FileAt(s[3])])
<1> DEFINE u == s[2]
           to == parseurl(w[2])
           filename == IF IsPut(w) THEN w[3] ELSE <<>>
           local == Contents("browser", LocalFile(w))
           length == IF IsPut(w) THEN Len(local) ELSE 0
           req == Request(w)
<1>1. /\ s[1] \in {"GET", "PUT"} /\ (IsPut(w) <=> s[1] = "PUT")
      /\ Len(s) >= IF s[1] = "PUT" THEN 3 ELSE 2
      /\ u \in Urls /\ w[2] = UrlText(u)
      /\ s[1] = "PUT" => s[3] \in Names /\ w[3] = s[3] /\ s[3][Len(s[3])] # "/"
  BY WordsOfCommand
<1>2. IsUrl(u)
  BY <1>1, BrowserAssumption
<1>3. to.ip = <<u.host>> /\ to.path = u.path /\ to.port = Number[PortOf(u.port, u.late)]
  <2> DEFINE host == u.host
             port == u.port
             path == u.path
             late == u.late
             t == w[2]
  <2>1. Laid(t, host, port, path, late) /\ Parts(host, port, path, late) /\ path \in Seq(STRING)
    BY <1>1, <1>2, UrlTextIs, UrlParts
  <2>2. HasPath(t)
    BY DEF Fails
  <2>3. {port, late} \subseteq DOMAIN Number \union {"none"}
    BY <1>2 DEF IsUrl
  <2> HIDE DEF host, port, path, late, t
  <2>4. /\ parseurl(t).ip = <<host>> /\ parseurl(t).path = path
        /\ parseurl(t).port = Number[PortOf(port, late)]
    BY <2>1, <2>2, <2>3, UrlRead
  <2> QED
    BY <2>4 DEF host, port, path, late, t
<1>4. u.path \in Seq(Token)
  <2>1. STRING \subseteq Token
    BY DEF Token
  <2> QED
    BY <1>2, <2>1, UrlParts, SeqMonotonic
<1>5. to.ip # <<>>
  <2>1. \A x : <<x>> # <<>>
    OBVIOUS
  <2> QED
    BY <1>3, <2>1
<1>6. req = parse_header(createheader(to, filename, length))
  BY DEF Request
<1> HIDE DEF req, to, u, filename, length
<1>7. /\ IF filename = <<>>
         THEN req.method = "GET" /\ req.length = 0 /\ req.path = to.path
         ELSE /\ req.method = "PUT" /\ req.length = length
              /\ req.path = to.path \o <<"/">> \o BaseName(filename)
      /\ req.valid
  BY <1>5, <1>6, HeaderRead
<1>8. CASE s[1] = "GET"
  <2>1. filename = <<>>
    BY <1>1, <1>8 DEF filename
  <2>2. TargetOf(s) = FileAt(u.path)
    BY <1>8 DEF TargetOf, u
  <2> QED
    BY <1>1, <1>3, <1>7, <1>8, <2>1, <2>2 DEF req, to, u
<1>9. CASE s[1] = "PUT"
  <2> DEFINE n == s[3]
             x == n[Len(n)]
  <2>1. IsName(n) /\ x # "/" /\ n = w[3]
    BY <1>1, <1>9, BrowserAssumption
  <2>2. BaseName(n) = <<x>> /\ x \in STRING
    BY <2>1, BaseNameIs
  <2>3. n # <<>>
    BY <2>1 DEF IsName
  <2>4. filename = n /\ length = Len(local) /\ local = Contents("browser", FileAt(n))
    BY <1>1, <1>9, <2>1 DEF filename, length, LocalFile
  <2>5. /\ FileAt(n) \in DOMAIN disk["browser"]
        /\ Contents("browser", FileAt(n)) = disk["browser"][FileAt(n)]
    <3>1. local # None
      BY <1>1, <1>9 DEF Fails
    <3> QED
      BY <2>4, <3>1 DEF Contents
  <2>6. TargetOf(s) = Append(Components(u.path), x)
    BY <1>9 DEF TargetOf, u
  <2> HIDE DEF n, x, local
  <2>7. req.path = u.path \o <<"/">> \o <<x>>
    BY <1>3, <1>7, <2>2, <2>3, <2>4
  <2>8. x \in Token
    BY <2>2 DEF Token
  <2>9. FileAt(req.path) = TargetOf(s) /\ TargetOf(s) # <<>>
    BY <1>4, <2>1, <2>6, <2>7, <2>8, FileIn
  <2>10. req.method = s[1] /\ req.length = Len(disk["browser"][FileAt(n)]) /\ req.valid
    BY <1>7, <1>9, <2>3, <2>4, <2>5
  <2> QED
    BY <1>1, <1>3, <2>9, <2>10 DEF req, to, u, n
<1> QED
  BY <1>1, <1>8, <1>9

-----------------------------------------------------------------------------
(***************************************************************************)
(* The invariant of the session.                                           *)
(***************************************************************************)
\* The command that runs is the one that was said.
AskedInv ==
  at = "busy" =>
    /\ AskedAsTyped
    /\ cmd.method = said[1] /\ (cmd.method = "PUT" => Target # <<>>)

\* What is known to be stored is there, and a GET has opened what was there.
StoreInv ==
  /\ \A t \in DOMAIN stored :
       t # <<>> /\ t \in DOMAIN disk["child"] /\ stored[t] \in {None, disk["child"][t]}
  /\ at = "busy" /\ cmd.method = "GET" => file["child"] = Contents("child", name["child"])

UserInv == BInv /\ SaidInv /\ AskedInv /\ StoreInv

LEMMA UserInit ==
  ASSUME BrowserInit
  PROVE  UserInv
<1>1. BInv /\ AskedInv
  BY InitInv DEF BrowserInit, AskedInv
<1>2. SaidInv
  <2>1. said = <<>> /\ words = Cleared
    BY DEF BrowserInit
  <2>2. Sayable(<<>>)
    BY LineSayable DEF Lines
  <2>3. sscanf(Cleared, Text(<<>>)) = [i \in 1 .. 3 |-> Cleared[i]]
    <3> DEFINE t == sscanf(Cleared, Text(<<>>))
    <3>1. \A i : i \notin DOMAIN <<>>
      OBVIOUS
    <3>2. /\ t = [i \in 1 .. 3 |-> t[i]]
          /\ \A i \in 1 .. 3 :
               t[i] = IF i \in DOMAIN <<>> THEN WordOf(i, <<>>[i]) ELSE Cleared[i]
      BY <2>2, TextIs
    <3>3. \A i \in 1 .. 3 : t[i] = Cleared[i]
      BY <3>1, <3>2
    <3> HIDE DEF t
    <3> QED
      BY <3>2, <3>3 DEF t
  <2>4. Cleared = [i \in 1 .. 3 |-> Cleared[i]]
    BY DEF Cleared
  <2> QED
    BY <2>1, <2>2, <2>3, <2>4 DEF SaidInv
<1>3. StoreInv
  <2>1. DOMAIN stored = {}
    BY DEF BrowserInit
  <2> QED
    BY <2>1 DEF BrowserInit, StoreInv
<1> QED
  BY <1>1, <1>2, <1>3 DEF UserInv

\* The line is taken as it was typed.
LEMMA UserReadLine ==
  ASSUME UserInv, NEW line \in Lines, ReadLine(line)
  PROVE  SaidInv' /\ AskedInv' /\ StoreInv'
<1> DEFINE w == Read(Text(line))
           s == Said(line)
<1>1. /\ at = "prompt" /\ words' = w /\ said' = s
      /\ UNCHANGED <<version, disk, stored>>
  BY DEF ReadLine
<1>2. SaidInv'
  BY <1>1, SaidStep DEF UserInv, BInv, SessionInv
<1>3. at' = "busy" => Command(w) /\ ~Fails(w) /\ Begin(w)
  <2> HIDE DEF w
  <2>1. CASE Command(w) /\ ~Missing(w)
    BY <1>1, <2>1 DEF ReadLine, w
  <2>2. CASE ~(Command(w) /\ ~Missing(w))
    <3>1. CASE w[1] = <<"QUIT">>
      BY <1>1, <2>2, <3>1 DEF ReadLine, w
    <3>2. CASE w[1] # <<"QUIT">>
      BY <1>1, <2>2, <3>2 DEF ReadLine, w
    <3> QED
      BY <3>1, <3>2
  <2> QED
    BY <2>1, <2>2
<1>4. Sayable(s) /\ w = sscanf(Cleared, Text(s))
  BY <1>1, <1>2 DEF SaidInv
<1> HIDE DEF w, s
<1>5. ASSUME at' = "busy" PROVE AskedInv'
  <2>1. Command(w) /\ ~Fails(w) /\ Begin(w)
    BY <1>3, <1>5
  <2>2. /\ Len(s) >= IF s[1] = "PUT" THEN 3 ELSE 2
        /\ parseurl(w[2]).ip = <<s[2].host>>
        /\ parseurl(w[2]).port = Number[PortOf(s[2].port, s[2].late)]
        /\ Request(w).valid /\ Request(w).method = s[1]
        /\ FileAt(Request(w).path) = TargetOf(s)
        /\ s[1] = "PUT" => /\ TargetOf(s) # <<>>
                           /\ Request(w).length = Len(disk["browser"][FileAt(s[3])])
    BY <1>4, <2>1, Meant
  <2>3. /\ cmd'.method = Request(w).method /\ cmd'.length = Request(w).length
        /\ name'["child"] = FileAt(Request(w).path)
    BY <2>1 DEF Begin, Side
  <2>4. Request(words)' = Request(w)
    BY <1>1 DEF Request, LocalFile, Contents
  <2>5. Target' = TargetOf(s)
    BY <1>1 DEF Target, TargetOf
  <2>6. AskedAsTyped'
    BY <1>1, <2>2, <2>3, <2>4, <2>5 DEF AskedAsTyped, PortOf
  <2> QED
    BY <1>1, <2>2, <2>3, <2>5, <2>6 DEF AskedInv
<1>6. StoreInv'
  <2>1. ASSUME at' = "busy" PROVE file'["child"] = Contents("child", name["child"])'
    <3>1. file' = [r \in Side |-> Contents(r, name'[r])]
      BY <1>3, <2>1 DEF Begin
    <3> QED
      BY <1>1, <3>1 DEF Side, Contents
  <2> QED
    BY <1>1, <2>1 DEF UserInv, StoreInv
<1> QED
  BY <1>2, <1>5, <1>6 DEF AskedInv

\* The exchange leaves the session alone, and in a GET the file of the child.
LEMMA UserExchange ==
  ASSUME UserInv, Next, UNCHANGED session
  PROVE  SaidInv' /\ AskedInv' /\ StoreInv'
<1>1. cmd' = cmd
  BY DEF Next, browser, child, Reset
<1>2. UNCHANGED <<version, words, at, disk, name, lines, said, stored>>
  BY DEF session
<1>3. SaidInv'
  BY <1>2 DEF UserInv, SaidInv
<1>4. AskedInv'
  <2>1. Request(words)' = Request(words) /\ Target' = Target
    BY <1>2 DEF Request, LocalFile, Contents, Target
  <2>2. AskedAsTyped => AskedAsTyped'
    BY <1>1, <1>2, <2>1 DEF AskedAsTyped
  <2> QED
    BY <1>1, <1>2, <2>1, <2>2 DEF UserInv, AskedInv
<1>5. cmd.method = "GET" => file'["child"] = file["child"]
  BY WritersKnow DEF UserInv, BInv, Side
<1>6. StoreInv'
  <2>1. Contents("child", name["child"])' = Contents("child", name["child"])
    BY <1>2 DEF Contents
  <2> QED
    BY <1>1, <1>2, <1>5, <2>1 DEF UserInv, StoreInv
<1> QED
  BY <1>3, <1>4, <1>6

\* The command is over: the files are as it has left them.
LEMMA UserBack ==
  ASSUME UserInv, Back
  PROVE  SaidInv' /\ AskedInv' /\ StoreInv'
<1>1. /\ at = "busy" /\ UNCHANGED <<cmd, file, version, words, name, lines, said>>
      /\ disk' = [s \in Side |-> [n \in DOMAIN disk[s] \union {name[s]} |->
                                    IF n = name[s] THEN file[s] ELSE disk[s][n]]]
  BY DEF Back, vars
<1>2. at' # "busy"
  <2>1. CASE result = "opened"
    BY <2>1 DEF Back, openapp
  <2>2. CASE result = "none"
    BY <2>2 DEF Back
  <2>3. CASE result \notin {"opened", "none"}
    BY <2>3 DEF Back
  <2> QED
    BY <2>1, <2>2, <2>3
<1>3. SaidInv' /\ AskedInv'
  BY <1>1, <1>2 DEF UserInv, SaidInv, AskedInv
<1>4. name["child"] = Target /\ cmd.method \in {"GET", "PUT"}
      /\ (cmd.method = "PUT" => Target # <<>>)
  BY <1>1 DEF UserInv, AskedInv, AskedAsTyped, BInv, IInv, TypeInv
<1> DEFINE old == disk["child"]
           new == disk'["child"]
           target == Target
<1>5. new = [n \in DOMAIN old \union {target} |-> IF n = target THEN file["child"] ELSE old[n]]
  BY <1>1, <1>4 DEF Side
<1>6. \A t \in DOMAIN stored : t # <<>> /\ t \in DOMAIN old /\ stored[t] \in {None, old[t]}
  BY DEF UserInv, StoreInv
<1>7. CASE cmd.method = "GET"
  <2>1. stored' = stored
    BY <1>7 DEF Back
  <2>2. file["child"] = IF target # <<>> /\ target \in DOMAIN old THEN old[target] ELSE None
    BY <1>1, <1>4, <1>7 DEF UserInv, StoreInv, Contents
  <2> HIDE DEF old, new, target
  <2>3. \A t \in DOMAIN stored : t \in DOMAIN new /\ new[t] = old[t]
    BY <1>5, <1>6, <2>2
  <2>4. \A t \in DOMAIN stored' :
          t # <<>> /\ t \in DOMAIN new /\ stored'[t] \in {None, new[t]}
    BY <1>6, <2>1, <2>3
  <2> QED
    BY <1>2, <1>3, <2>4 DEF StoreInv, new
<1>8. CASE cmd.method = "PUT"
  <2> DEFINE whole == result = "header" /\ reply.status = 200 /\ ~loop["child"].torn
             now == IF whole THEN file["browser"] ELSE None
  <2>1. stored' = [t \in DOMAIN stored \union {target} |->
                     IF t = target THEN now ELSE stored[t]]
    BY <1>8 DEF Back
  <2>2. now \in {None, file["child"]}
    <3>1. ASSUME whole PROVE file["child"] = file["browser"]
      <4>1. loop["child"].found /\ Refusal = 0
        BY <3>1 DEF UserInv, BInv, IInv, ChildInv
      <4>2. FilesArrive
        BY FilesAre DEF UserInv
      <4>3. Whole("child")
        BY <1>8, <3>1, <4>1, <4>2 DEF FilesArrive
      <4> QED
        BY <4>3 DEF Whole, Other
    <3> QED
      BY <3>1
  <2> HIDE DEF old, new, target, now
  <2>3. ASSUME NEW t \in DOMAIN stored'
        PROVE  t # <<>> /\ t \in DOMAIN new /\ stored'[t] \in {None, new[t]}
    <3>1. CASE t = target
      BY <1>4, <1>5, <1>8, <2>1, <2>2, <3>1 DEF target
    <3>2. CASE t # target
      <4>1. t \in DOMAIN stored /\ stored'[t] = stored[t]
        BY <2>1, <3>2
      <4> QED
        BY <1>5, <1>6, <3>2, <4>1
    <3> QED
      BY <3>1, <3>2
  <2> QED
    BY <1>2, <1>3, <2>3 DEF StoreInv, new
<1> QED
  BY <1>4, <1>7, <1>8

LEMMA UserInvariance == BrowserSpec => []UserInv
<1>1. BrowserInit => UserInv
  BY UserInit
<1>2. UserInv /\ [BrowserNext]_bvars => UserInv'
  <2> SUFFICES ASSUME UserInv, [BrowserNext]_bvars PROVE UserInv'
    OBVIOUS
  <2>1. BInv'
    BY InvStep DEF UserInv
  <2>2. CASE UNCHANGED bvars
    <3>1. /\ UNCHANGED <<version, words, at, disk, name, lines, said, stored>>
          /\ UNCHANGED <<cmd, file>>
      BY <2>2 DEF bvars, session, vars
    <3>2. SaidInv' /\ StoreInv'
      BY <3>1 DEF UserInv, SaidInv, StoreInv, Contents
    <3>3. Request(words)' = Request(words) /\ Target' = Target
      BY <3>1 DEF Request, LocalFile, Contents, Target
    <3>4. AskedInv'
      BY <3>1, <3>3 DEF UserInv, AskedInv, AskedAsTyped
    <3> QED
      BY <2>1, <3>2, <3>4 DEF UserInv
  <2>3. ASSUME NEW line \in Lines, ReadLine(line) PROVE UserInv'
    BY <2>1, <2>3, UserReadLine DEF UserInv
  <2>4. CASE Next /\ UNCHANGED session
    BY <2>1, <2>4, UserExchange DEF UserInv
  <2>5. CASE Back
    BY <2>1, <2>5, UserBack DEF UserInv
  <2> QED
    BY <2>2, <2>3, <2>4, <2>5 DEF BrowserNext, Busy
<1> QED
  BY <1>1, <1>2, PTL DEF BrowserSpec

(***************************************************************************)
(* The child reads in the request what the user has typed: method, path,   *)
(* and of a PUT the name and the length of the file, and the browser       *)
(* connects to the url's host at the port that is meant.  So it is in both *)
(* versions, for any url and name of the form they are typed in, after any *)
(* lines: the arrays hold the words of what was said and nothing else.     *)
(***************************************************************************)
THEOREM CommandsAskedAsTyped == BrowserSpec => []AskedAsTyped
<1>1. UserInv => AskedAsTyped
  BY DEF UserInv, AskedInv, AskedAsTyped
<1> QED
  BY <1>1, UserInvariance, PTL

(***************************************************************************)
(* Over any number of commands, whatever of them is refused, cut off or    *)
(* late, a GET opens what the last PUT to its url has stored, if that PUT  *)
(* was answered with 200 and no header of the two ended with a chunk.      *)
(***************************************************************************)
THEOREM GetsOpenWhatWasPut == BrowserSpec => []GetWhatWasPut
<1>1. UserInv => GetWhatWasPut
  <2> SUFFICES ASSUME UserInv, at = "busy", result = "opened", ~loop["browser"].torn,
                      Target \in DOMAIN stored
               PROVE  stored[Target] \in {None, file["browser"]}
    BY DEF GetWhatWasPut
  <2>1. cmd.method = "GET" /\ reply.status = 200 /\ loop["browser"].found
    BY DEF UserInv, BInv, IInv, BrowserInv, Fetches
  <2>2. FilesArrive
    BY FilesAre DEF UserInv
  <2>3. file["browser"] = file["child"]
    BY <2>1, <2>2 DEF FilesArrive, Whole, Other
  <2>4. file["child"] = Contents("child", Target)
    BY <2>1 DEF UserInv, StoreInv, AskedInv, AskedAsTyped
  <2>5. /\ Target # <<>> /\ Target \in DOMAIN disk["child"]
        /\ stored[Target] \in {None, disk["child"][Target]}
    BY DEF UserInv, StoreInv
  <2> QED
    BY <2>3, <2>4, <2>5 DEF Contents
<1> QED
  BY <1>1, UserInvariance, PTL
=============================================================================
