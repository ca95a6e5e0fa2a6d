--------------------------- MODULE FramingProofs ---------------------------
(***************************************************************************)
(* For messages of any number and content, chunks of any size below that   *)
(* of a byte's range, and whatever pieces the kernel makes of the stream:  *)
(* recv_helper of mysocket.c, which never compares what it asks for with   *)
(* what is left of its buffer, never overruns it, and it returns what      *)
(* send_helper was called with, in order and each once.                    *)
(***************************************************************************)
EXTENDS Framing, SequenceTheorems, FiniteSetTheorems, TLAPS

USE FramingAssumption DEF Byte

-----------------------------------------------------------------------------
(***************************************************************************)
(* Induction.  The theorems of the library have an operator as parameter,  *)
(* to which the provers cannot give a value; with a set in its place they  *)
(* can.                                                                    *)
(***************************************************************************)
\* A set of numbers has a least one: n stands for the finite set 0 .. n - 1,
\* and the inclusion of finite sets is well-founded.
LEMMA LeastNumber ==
  ASSUME NEW T, T \subseteq Nat, T # {}
  PROVE  \E x \in T : \A y \in T : x <= y
<1> DEFINE U == {0 .. n - 1 : n \in T}
           R == StrictSubsetOrdering(Nat)
           F == FiniteSubsetsOf(Nat)
<1>1. IsWellFoundedOn(R, F)
  BY FS_StrictSubsetOrderingWellFounded
<1>2. U \subseteq F
  <2> SUFFICES ASSUME NEW n \in T PROVE 0 .. n - 1 \in F
    OBVIOUS
  <2>1. IsFiniteSet(0 .. n - 1)
    BY FS_Interval
  <2> QED
    BY <2>1 DEF FiniteSubsetsOf
<1>3. U # {}
  OBVIOUS
<1>4. \E x \in U : \A y \in U : ~(<<y, x>> \in R)
  <2> HIDE DEF U, R, F
  <2> QED
    BY <1>1, <1>2, <1>3, WFMin
<1>5. PICK m \in T : \A y \in U : ~(<<y, 0 .. m - 1>> \in R)
  BY <1>4
<1>6. ASSUME NEW n \in T, ~(m <= n) PROVE FALSE
  <2>1. m \in Nat /\ n \in Nat /\ n < m
    BY <1>6
  <2>2. 0 .. n - 1 \subseteq 0 .. m - 1 /\ n \in 0 .. m - 1 /\ n \notin 0 .. n - 1
    BY <2>1
  <2>3. 0 .. n - 1 \in U
    OBVIOUS
  <2>4. <<0 .. n - 1, 0 .. m - 1>> \in R
    BY <2>1, <2>2 DEF StrictSubsetOrdering
  <2> QED
    BY <1>5, <2>3, <2>4
<1> QED
  BY <1>6

LEMMA SetInduction ==
  ASSUME NEW S, 0 \in S, \A n \in Nat : n \in S => n + 1 \in S
  PROVE  Nat \subseteq S
<1> SUFFICES ASSUME Nat \ S # {} PROVE FALSE
  OBVIOUS
<1> DEFINE T == Nat \ S
<1>1. PICK m \in T : \A y \in T : m <= y
  <2>1. T \subseteq Nat /\ T # {}
    OBVIOUS
  <2> HIDE DEF T
  <2> QED
    BY <2>1, LeastNumber
<1>2. m # 0 /\ m - 1 \in Nat /\ ~(m <= m - 1) /\ (m - 1) + 1 = m
  OBVIOUS
<1>3. m - 1 \in S
  BY <1>1, <1>2
<1> QED
  BY <1>2, <1>3

-----------------------------------------------------------------------------
(***************************************************************************)
(* Sequences.                                                              *)
(***************************************************************************)
\* The first n elements, and the others.
Front(t, n) == SubSeq(t, 1, n)
After(t, n) == SubSeq(t, n + 1, Len(t))

LEMMA Cut ==
  ASSUME NEW t \in Seq(Byte), NEW n \in 0 .. Len(t)
  PROVE  /\ Front(t, n) \in Seq(Byte) /\ Len(Front(t, n)) = n
         /\ \A i \in 1 .. n : Front(t, n)[i] = t[i]
         /\ After(t, n) \in Seq(Byte) /\ Len(After(t, n)) = Len(t) - n
         /\ \A i \in 1 .. Len(t) - n : After(t, n)[i] = t[n + i]
<1>1. PICK m \in Nat : m = Len(t)
  OBVIOUS
<1>2. \A i \in 1 .. m : t[i] \in Byte
  BY <1>1, ElementOfSeq
<1>3. n \in Int /\ n + 1 \in Int /\ m \in Int /\ 1 \in Int /\ n <= m /\ 0 <= n
  BY <1>1
<1>4. /\ Front(t, n) \in Seq(Byte) /\ Len(Front(t, n)) = n
      /\ \A i \in 1 .. n : Front(t, n)[i] = t[i]
  <2>1. \A i \in 1 .. n : t[i] \in Byte
    BY <1>2, <1>3
  <2> QED
    BY <1>3, <2>1, SubSeqProperties DEF Front
<1>5. /\ After(t, n) \in Seq(Byte) /\ Len(After(t, n)) = m - n
      /\ \A i \in 1 .. m - n : After(t, n)[i] = t[n + i]
  <2>1. \A i \in n + 1 .. m : t[i] \in Byte
    BY <1>2, <1>3
  <2>2. /\ SubSeq(t, n + 1, m) \in Seq(Byte)
        /\ Len(SubSeq(t, n + 1, m)) = IF n + 1 <= m THEN m - (n + 1) + 1 ELSE 0
        /\ \A i \in 1 .. m - (n + 1) + 1 : SubSeq(t, n + 1, m)[i] = t[n + 1 + i - 1]
    BY <1>3, <2>1, SubSeqProperties
  <2>3. \A i \in 1 .. m - n : i \in 1 .. m - (n + 1) + 1 /\ n + 1 + i - 1 = n + i
    BY <1>3
  <2>4. (IF n + 1 <= m THEN m - (n + 1) + 1 ELSE 0) = m - n
    BY <1>3
  <2> QED
    BY <1>1, <2>2, <2>3, <2>4 DEF After
<1> QED
  BY <1>1, <1>4, <1>5

\* They make up the sequence.
LEMMA CutConcat ==
  ASSUME NEW t \in Seq(Byte), NEW n \in 0 .. Len(t)
  PROVE  t = Front(t, n) \o After(t, n)
<1>1. PICK m \in Nat : m = Len(t)
  OBVIOUS
<1>2. 1 \in 1 .. m + 1 /\ n \in 1 - 1 .. m /\ m \in n .. m
  BY <1>1
<1>3. SubSeq(t, 1, n) \o SubSeq(t, n + 1, m) = SubSeq(t, 1, m)
  BY <1>1, <1>2, ConcatAdjacentSubSeq
<1> QED
  BY <1>1, <1>3, SubSeqFull DEF Front, After

\* One element more.
LEMMA FrontMore ==
  ASSUME NEW t \in Seq(Byte), NEW n \in 1 .. Len(t), NEW b \in Seq(Byte)
  PROVE  Append(b \o Front(t, n - 1), t[n]) = b \o Front(t, n)
<1>1. PICK m \in Nat : m = Len(t)
  OBVIOUS
<1>2. PICK x \in Byte : x = t[n]
  BY ElementOfSeq
<1>3. 1 \in 1 .. m /\ n \in 1 .. m /\ n - 1 \in 0 .. m
  BY <1>1
<1>4. PICK f \in Seq(Byte) : f = Front(t, n - 1)
  BY <1>1, <1>3, Cut
<1>5. Front(t, n) = f \o <<x>>
  BY <1>1, <1>2, <1>3, <1>4, SubSeqRecursiveSecond DEF Front
<1>6. b \o f \in Seq(Byte) /\ <<x>> \in Seq(Byte)
  BY ConcatProperties
<1>7. Append(b \o f, x) = (b \o f) \o <<x>>
  BY <1>6, AppendIsConcat
<1>8. (b \o f) \o <<x>> = b \o (f \o <<x>>)
  BY ONLY b \in Seq(Byte), f \in Seq(Byte), <1>6, ConcatAssociative
<1> QED
  BY <1>2, <1>4, <1>5, <1>7, <1>8

\* Behind the first i elements, n more.
LEMMA FrontFurther ==
  ASSUME NEW t \in Seq(Byte), NEW i \in 0 .. Len(t), NEW n \in Nat, i + n <= Len(t)
  PROVE  /\ SubSeq(t, i + 1, i + n) \in Seq(Byte) /\ Len(SubSeq(t, i + 1, i + n)) = n
         /\ Front(t, i) \o SubSeq(t, i + 1, i + n) = Front(t, i + n)
<1>1. PICK m \in Nat : m = Len(t)
  OBVIOUS
<1>2. 1 \in 1 .. m + 1 /\ i \in 1 - 1 .. m /\ i + n \in i .. m
  BY <1>1
<1>3. SubSeq(t, 1, i) \o SubSeq(t, i + 1, i + n) = SubSeq(t, 1, i + n)
  BY <1>1, <1>2, ConcatAdjacentSubSeq
<1>4. \A k \in i + 1 .. i + n : t[k] \in Byte
  <2>1. \A k \in i + 1 .. i + n : k \in 1 .. Len(t)
    BY <1>1
  <2> QED
    BY <2>1, ElementOfSeq
<1>5. /\ i + 1 \in Int /\ i + n \in Int
      /\ (IF i + 1 <= i + n THEN (i + n) - (i + 1) + 1 ELSE 0) = n
  BY <1>1
<1> QED
  BY <1>3, <1>4, <1>5, SubSeqProperties DEF Front

-----------------------------------------------------------------------------
(***************************************************************************)
(* How recv_helper reads a stream.                                         *)
(***************************************************************************)
Places == [b : Seq(Byte), n : Byte, got : Seq(Seq(Byte))]

\* Readings is the function that its definition describes.
LEMMA ReadingsIs ==
  ASSUME NEW a, NEW st, NEW m \in Nat, Len(st) = m
  PROVE  Readings(a, st) =
           [i \in 0 .. m |-> IF i = 0 THEN a ELSE ReadByte(Readings(a, st)[i - 1], st[i])]
<1> DEFINE Fits(r, n) ==
             r = [i \in 0 .. n |-> IF i = 0 THEN a ELSE ReadByte(r[i - 1], st[i])]
           S == {n \in Nat : \E r : Fits(r, n)}
<1>1. 0 \in S
  <2> DEFINE r == [i \in 0 .. 0 |-> a]
  <2>1. Fits(r, 0)
    OBVIOUS
  <2> QED
    BY <2>1
<1>2. ASSUME NEW n \in Nat, n \in S PROVE n + 1 \in S
  <2>1. PICK r : Fits(r, n)
    BY <1>2
  <2> DEFINE q == [i \in 0 .. n + 1 |-> IF i <= n THEN r[i] ELSE ReadByte(r[n], st[i])]
  <2>2. \A i \in 0 .. n : q[i] = r[i]
    OBVIOUS
  <2>3. \A i \in 0 .. n + 1 :
          q[i] = IF i = 0 THEN a ELSE ReadByte(q[i - 1], st[i])
    <3> SUFFICES ASSUME NEW i \in 0 .. n + 1
                 PROVE  q[i] = IF i = 0 THEN a ELSE ReadByte(q[i - 1], st[i])
      OBVIOUS
    <3>1. CASE i \in 0 .. n
      <4>1. i # 0 => i - 1 \in 0 .. n
        BY <3>1
      <4>2. r[i] = IF i = 0 THEN a ELSE ReadByte(r[i - 1], st[i])
        BY <2>1, <3>1
      <4> HIDE DEF q
      <4> QED
        BY <2>2, <3>1, <4>1, <4>2
    <3>2. CASE i = n + 1
      <4>1. q[i] = ReadByte(r[n], st[i]) /\ i - 1 = n /\ n \in 0 .. n /\ i # 0
        BY <3>2
      <4> HIDE DEF q
      <4> QED
        BY <2>2, <4>1
    <3> QED
      BY <3>1, <3>2
  <2>4. Fits(q, n + 1)
    BY <2>3
  <2>5. \E p : Fits(p, n + 1)
    <3> HIDE DEF q
    <3> QED
      BY <2>4
  <2>6. n + 1 \in Nat
    OBVIOUS
  <2> HIDE DEF Fits
  <2> QED
    BY <2>5, <2>6
<1>3. \A n \in Nat : n \in S
  <2> HIDE DEF S
  <2> QED
    BY <1>1, <1>2, SetInduction
<1>4. \E r : Fits(r, m)
  BY <1>3
<1> QED
  BY <1>4 DEF Readings

LEMMA ReadingsAt ==
  ASSUME NEW a, NEW st, NEW m \in Nat, Len(st) = m
  PROVE  /\ Readings(a, st)[0] = a
         /\ \A i \in 1 .. m : Readings(a, st)[i] = ReadByte(Readings(a, st)[i - 1], st[i])
<1> DEFINE r == Readings(a, st)
<1>1. r = [i \in 0 .. m |-> IF i = 0 THEN a ELSE ReadByte(r[i - 1], st[i])]
  BY ReadingsIs
<1> HIDE DEF r
<1>2. r[0] = a
  BY <1>1
<1>3. ASSUME NEW i \in 1 .. m PROVE r[i] = ReadByte(r[i - 1], st[i])
  <2>1. i \in 0 .. m /\ i # 0
    OBVIOUS
  <2> QED
    BY <1>1, <2>1
<1> QED
  BY <1>2, <1>3 DEF r

\* What changes byte by byte as recv_helper does is what it reads.
LEMMA ReadsAs ==
  ASSUME NEW a, NEW st, NEW m \in Nat, Len(st) = m, NEW f, f[0] = a,
         \A i \in 1 .. m : f[i] = ReadByte(f[i - 1], st[i])
  PROVE  \A i \in 0 .. m : Readings(a, st)[i] = f[i]
<1> DEFINE r == Readings(a, st)
           S == {k \in Nat : k <= m => r[k] = f[k]}
<1>1. r[0] = a /\ \A i \in 1 .. m : r[i] = ReadByte(r[i - 1], st[i])
  BY ReadingsAt
<1> HIDE DEF r
<1>2. 0 \in S
  BY <1>1
<1>3. ASSUME NEW k \in Nat, k \in S PROVE k + 1 \in S
  <2> SUFFICES ASSUME k + 1 <= m PROVE r[k + 1] = f[k + 1]
    OBVIOUS
  <2>1. r[k] = f[k] /\ k + 1 \in 1 .. m /\ (k + 1) - 1 = k
    BY <1>3
  <2> QED
    BY <1>1, <2>1
<1>4. Nat \subseteq S
  <2> HIDE DEF S
  <2> QED
    BY <1>2, <1>3, SetInduction
<1>5. \A i \in 0 .. m : r[i] = f[i]
  BY <1>4
<1> QED
  BY <1>5 DEF r

LEMMA ReadByteType ==
  ASSUME NEW a \in Places, NEW x \in Byte
  PROVE  ReadByte(a, x) \in Places
<1>1. a.b \in Seq(Byte) /\ a.n \in Byte /\ a.got \in Seq(Seq(Byte))
  BY DEF Places
<1>2. /\ Append(a.b, x) \in Seq(Byte) /\ <<>> \in Seq(Byte) /\ 0 \in Byte
      /\ Append(a.got, a.b) \in Seq(Seq(Byte)) /\ (a.n > 0 => a.n - 1 \in Byte)
  BY <1>1
<1>3. CASE a.n > 0
  BY <1>1, <1>2, <1>3 DEF ReadByte, Places
<1>4. CASE ~(a.n > 0) /\ x = 0
  BY <1>1, <1>2, <1>4 DEF ReadByte, Places
<1>5. CASE ~(a.n > 0) /\ x # 0
  BY <1>1, <1>2, <1>5 DEF ReadByte, Places
<1> QED
  BY <1>3, <1>4, <1>5

LEMMA ReadingsType ==
  ASSUME NEW a \in Places, NEW st \in Seq(Byte), NEW m \in Nat, Len(st) = m
  PROVE  \A i \in 0 .. m : Readings(a, st)[i] \in Places
<1> DEFINE r == Readings(a, st)
           S == {k \in Nat : k <= m => r[k] \in Places}
<1>1. r[0] = a /\ \A i \in 1 .. m : r[i] = ReadByte(r[i - 1], st[i])
  BY ONLY m \in Nat, Len(st) = m, ReadingsAt
<1> HIDE DEF r
<1>2. 0 \in S
  BY <1>1
<1>3. ASSUME NEW k \in Nat, k \in S PROVE k + 1 \in S
  <2> SUFFICES ASSUME k + 1 <= m PROVE r[k + 1] \in Places
    OBVIOUS
  <2>1. r[k] \in Places /\ k + 1 \in 1 .. m /\ (k + 1) - 1 = k
    BY <1>3
  <2>2. st[k + 1] \in Byte
    BY <2>1, ElementOfSeq
  <2> QED
    BY <1>1, <2>1, <2>2, ReadByteType
<1>4. Nat \subseteq S
  <2> HIDE DEF S
  <2> QED
    BY <1>2, <1>3, SetInduction
<1>5. \A i \in 0 .. m : r[i] \in Places
  BY <1>4
<1> QED
  BY <1>5 DEF r

LEMMA ReadType ==
  ASSUME NEW a \in Places, NEW st \in Seq(Byte)
  PROVE  Read(a, st) \in Places
<1>1. PICK m \in Nat : m = Len(st)
  OBVIOUS
<1>2. m \in 0 .. m
  OBVIOUS
<1> QED
  BY <1>1, <1>2, ReadingsType DEF Read

\* From m on, f is q.
Behind(f, m, q, k) == \A i \in 0 .. k : f[m + i] = q[i]

\* One stream after the other.
LEMMA ReadConcat ==
  ASSUME NEW a \in Places, NEW st \in Seq(Byte), NEW u \in Seq(Byte),
         NEW m \in Nat, m = Len(st), NEW k \in Nat, k = Len(u)
  PROVE  /\ Len(st \o u) = m + k /\ st \o u \in Seq(Byte)
         /\ \A i \in 0 .. m : Readings(a, st \o u)[i] = Readings(a, st)[i]
         /\ Behind(Readings(a, st \o u), m, Readings(Read(a, st), u), k)
         /\ Read(a, st \o u) = Read(Read(a, st), u)
<1>1. /\ st \o u \in Seq(Byte) /\ Len(st \o u) = m + k
      /\ \A i \in 1 .. m + k : (st \o u)[i] = IF i <= m THEN st[i] ELSE u[i - m]
  BY ConcatProperties
<1> DEFINE su == st \o u
           r == Readings(a, st)
           q == Readings(Read(a, st), u)
           f == [i \in 0 .. m + k |-> IF i <= m THEN r[i] ELSE q[i - m]]
<1>2. r[0] = a /\ \A i \in 1 .. m : r[i] = ReadByte(r[i - 1], st[i])
  BY ONLY m \in Nat, m = Len(st), ReadingsAt
<1>3. q[0] = r[m] /\ \A i \in 1 .. k : q[i] = ReadByte(q[i - 1], u[i])
  <2>1. q[0] = Read(a, st) /\ \A i \in 1 .. k : q[i] = ReadByte(q[i - 1], u[i])
    BY ONLY k \in Nat, k = Len(u), ReadingsAt
  <2> QED
    BY <2>1 DEF Read
<1> HIDE DEF r, q, su
<1>4. /\ \A i \in 0 .. m : f[i] = r[i]
      /\ \A i \in 0 .. k : f[m + i] = q[i]
  <2>1. ASSUME NEW i \in 0 .. m PROVE f[i] = r[i]
    BY <2>1
  <2>2. ASSUME NEW i \in 0 .. k PROVE f[m + i] = q[i]
    <3>1. m + i \in 0 .. m + k /\ (m + i) - m = i /\ (m + i <= m <=> i = 0)
      OBVIOUS
    <3> QED
      BY <1>3, <3>1
  <2> QED
    BY <2>1, <2>2
<1> HIDE DEF f
<1>5. f[0] = a
  BY <1>2, <1>4
<1>6. ASSUME NEW i \in 1 .. m + k PROVE f[i] = ReadByte(f[i - 1], su[i])
  <2>1. CASE i <= m
    <3>1. i \in 1 .. m /\ i \in 0 .. m /\ i - 1 \in 0 .. m
      BY <2>1
    <3>2. su[i] = st[i]
      BY <1>1, <2>1 DEF su
    <3> QED
      BY <1>2, <1>4, <3>1, <3>2
  <2>2. CASE ~(i <= m)
    <3>0. i - m \in 1 .. k
      BY <2>2
    <3>1. PICK j \in 1 .. k : j = i - m
      BY <3>0
    <3>2. j \in 0 .. k /\ j - 1 \in 0 .. k /\ i = m + j /\ i - 1 = m + (j - 1)
      BY <3>1
    <3>3. su[i] = u[j]
      BY <1>1, <2>2, <3>1 DEF su
    <3>4. f[m + j] = q[j] /\ f[m + (j - 1)] = q[j - 1]
      BY <1>4, <3>2
    <3>5. q[j] = ReadByte(q[j - 1], u[j])
      BY <1>3
    <3> QED
      BY ONLY <3>2, <3>3, <3>4, <3>5
  <2> QED
    BY <2>1, <2>2
<1>7. \A i \in 0 .. m + k : Readings(a, su)[i] = f[i]
  <2>1. PICK n \in Nat : n = m + k
    OBVIOUS
  <2>2. Len(su) = n /\ \A i \in 1 .. n : f[i] = ReadByte(f[i - 1], su[i])
    BY <1>1, <1>6, <2>1 DEF su
  <2>3. \A i \in 0 .. n : Readings(a, su)[i] = f[i]
    BY ONLY n \in Nat, <1>5, <2>2, ReadsAs
  <2> QED
    BY <2>1, <2>3
<1>8. \A i \in 0 .. m : Readings(a, su)[i] = r[i]
  <2>1. \A i \in 0 .. m : i \in 0 .. m + k
    OBVIOUS
  <2> QED
    BY <1>4, <1>7, <2>1
<1>9. \A i \in 0 .. k : Readings(a, su)[m + i] = q[i]
  <2>1. \A i \in 0 .. k : m + i \in 0 .. m + k
    OBVIOUS
  <2> QED
    BY <1>4, <1>7, <2>1
<1>10. Read(a, su) = q[k]
  <2>1. k \in 0 .. k
    OBVIOUS
  <2> QED
    BY <1>1, <1>9, <2>1 DEF Read, su
<1>11. q[k] = Read(Read(a, st), u)
  BY DEF q, Read
<1> QED
  BY <1>1, <1>8, <1>9, <1>10, <1>11 DEF su, r, q, Behind

\* One byte.
LEMMA ReadOne ==
  ASSUME NEW a, NEW x
  PROVE  Read(a, <<x>>) = ReadByte(a, x)
<1> DEFINE u == <<x>>
           r == Readings(a, u)
<1>1. PICK k \in Nat : k = 1
  OBVIOUS
<1>2. Len(u) = k /\ u[1] = x /\ 1 \in 1 .. k /\ 1 - 1 = 0
  BY <1>1
<1> HIDE DEF u
<1>3. r[0] = a /\ \A i \in 1 .. k : r[i] = ReadByte(r[i - 1], u[i])
  BY ONLY k \in Nat, <1>2, ReadingsAt
<1>4. r[1] = ReadByte(a, x)
  <2> HIDE DEF r
  <2> QED
    BY <1>2, <1>3
<1>5. Read(a, u) = ReadByte(a, x)
  BY <1>1, <1>2, <1>4 DEF Read
<1> QED
  BY <1>5 DEF u

\* A part of a chunk: recv_helper has got the i bytes f more.
Ahead(a, f, i) == [b |-> a.b \o f, n |-> a.n - i, got |-> a.got]

LEMMA ReadChunk ==
  ASSUME NEW a \in Places, NEW u \in Seq(Byte), NEW k \in Nat, k = Len(u), k <= a.n
  PROVE  /\ \A i \in 0 .. k : Readings(a, u)[i] = Ahead(a, Front(u, i), i)
         /\ Read(a, u) = Ahead(a, u, k)
<1>0. PICK B \in Seq(Byte), N \in Nat : a = [b |-> B, n |-> N, got |-> a.got]
  BY DEF Places
<1>1. a.b = B /\ a.n = N /\ k <= N
  BY <1>0
<1> DEFINE f == [i \in 0 .. k |-> [b |-> B \o Front(u, i), n |-> N - i, got |-> a.got]]
<1>2. f[0] = a
  <2>1. Front(u, 0) = <<>>
    BY SubSeqEmpty DEF Front
  <2>2. B \o Front(u, 0) = B
    BY <2>1, ConcatEmptySeq
  <2>3. N - 0 = N
    OBVIOUS
  <2>4. f[0] = [b |-> B \o Front(u, 0), n |-> N - 0, got |-> a.got]
    OBVIOUS
  <2> HIDE DEF f
  <2> QED
    BY <1>0, <2>2, <2>3, <2>4
<1>3. ASSUME NEW i \in 1 .. k PROVE f[i] = ReadByte(f[i - 1], u[i])
  <2>1. /\ i - 1 \in 0 .. k /\ i \in 0 .. k
        /\ N - (i - 1) > 0 /\ (N - (i - 1)) - 1 = N - i
    BY ONLY k \in Nat, N \in Nat, i \in 1 .. k, <1>1
  <2>2. f[i - 1] = [b |-> B \o Front(u, i - 1), n |-> N - (i - 1), got |-> a.got]
    BY <2>1
  <2>3. f[i] = [b |-> B \o Front(u, i), n |-> N - i, got |-> a.got]
    BY <2>1
  <2>4. Append(B \o Front(u, i - 1), u[i]) = B \o Front(u, i)
    BY FrontMore
  <2> HIDE DEF f
  <2>5. PICK p, x : p = f[i - 1] /\ x = u[i]
    OBVIOUS
  <2>6. p.b = B \o Front(u, i - 1) /\ p.n = N - (i - 1) /\ p.got = a.got /\ p.n > 0
    <3>1. p = [b |-> B \o Front(u, i - 1), n |-> N - (i - 1), got |-> a.got]
      BY <2>2, <2>5
    <3> QED
      BY <2>1, <3>1
  <2>7. ReadByte(p, x) = [b |-> Append(p.b, x), n |-> p.n - 1, got |-> p.got]
    BY <2>6 DEF ReadByte
  <2>8. p.n - 1 = N - i /\ Append(p.b, x) = B \o Front(u, i)
    BY <2>1, <2>4, <2>5, <2>6
  <2> QED
    BY <2>3, <2>5, <2>6, <2>7, <2>8
<1>4. \A i \in 0 .. k : Readings(a, u)[i] = f[i]
  <2> HIDE DEF f
  <2> QED
    BY ONLY k \in Nat, k = Len(u), <1>2, <1>3, ReadsAs
<1>5. ASSUME NEW i \in 0 .. k
      PROVE  Readings(a, u)[i] = [b |-> B \o Front(u, i), n |-> N - i, got |-> a.got]
  BY <1>4
<1>6. Front(u, k) = u /\ k \in 0 .. k
  BY SubSeqFull DEF Front
<1> QED
  BY <1>1, <1>5, <1>6 DEF Read, Ahead

\* What has been returned before makes no difference.
Later(a, g) == [b |-> a.b, n |-> a.n, got |-> g \o a.got]

Associates(g, h, w) == Append(g \o h, w) = g \o Append(h, w)

LEMMA AppendLater ==
  ASSUME NEW S, NEW g \in Seq(S), NEW h \in Seq(S), NEW w \in S
  PROVE  Associates(g, h, w)
<1>1. g \o h \in Seq(S) /\ <<w>> \in Seq(S)
  BY ConcatProperties
<1>2. Append(g \o h, w) = (g \o h) \o <<w>> /\ Append(h, w) = h \o <<w>>
  BY <1>1, AppendIsConcat
<1>3. (g \o h) \o <<w>> = g \o (h \o <<w>>)
  BY <1>1, ConcatAssociative
<1> QED
  BY <1>2, <1>3 DEF Associates

LEMMA LaterByte ==
  ASSUME NEW p \in Places, NEW g \in Seq(Seq(Byte)), NEW x
  PROVE  Later(ReadByte(p, x), g) = ReadByte(Later(p, g), x)
<1>1. p.b \in Seq(Byte) /\ p.got \in Seq(Seq(Byte))
  BY DEF Places
<1>2. Append(g \o p.got, p.b) = g \o Append(p.got, p.b)
  <2>1. Associates(g, p.got, p.b)
    BY <1>1, AppendLater
  <2> QED
    BY <2>1, Zenon DEF Associates
<1>3. CASE p.n > 0
  BY <1>3 DEF Later, ReadByte
<1>4. CASE ~(p.n > 0) /\ x = 0
  BY <1>2, <1>4 DEF Later, ReadByte
<1>5. CASE ~(p.n > 0) /\ x # 0
  BY <1>5 DEF Later, ReadByte
<1> QED
  BY <1>3, <1>4, <1>5

LEMMA ReadLater ==
  ASSUME NEW a \in Places, NEW st \in Seq(Byte), NEW g,
         \A p \in Places : \A x : Later(ReadByte(p, x), g) = ReadByte(Later(p, g), x)
  PROVE  /\ \A i \in 0 .. Len(st) :
              Readings(Later(a, g), st)[i] = Later(Readings(a, st)[i], g)
         /\ Read(Later(a, g), st) = Later(Read(a, st), g)
<1>1. PICK m \in Nat : m = Len(st)
  OBVIOUS
<1>2. PICK r : r = Readings(a, st)
  OBVIOUS
<1>3. PICK c : c = Later(a, g)
  OBVIOUS
<1> DEFINE f == [i \in 0 .. m |-> Later(r[i], g)]
<1>4. r[0] = a /\ \A i \in 1 .. m : r[i] = ReadByte(r[i - 1], st[i])
  <2>1. Len(st) = m
    BY <1>1
  <2>2. /\ Readings(a, st)[0] = a
        /\ \A i \in 1 .. m : Readings(a, st)[i] = ReadByte(Readings(a, st)[i - 1], st[i])
    BY <2>1, ReadingsAt
  <2> QED
    BY <1>2, <2>2
<1>5. \A i \in 0 .. m : r[i] \in Places
  BY <1>1, <1>2, ReadingsType
<1>6. f[0] = c
  BY <1>3, <1>4
<1>7. ASSUME NEW i \in 1 .. m PROVE f[i] = ReadByte(f[i - 1], st[i])
  <2>1. i - 1 \in 0 .. m /\ i \in 0 .. m
    OBVIOUS
  <2>2. PICK p \in Places : p = r[i - 1]
    BY <1>5, <2>1
  <2>3. f[i] = Later(ReadByte(p, st[i]), g) /\ f[i - 1] = Later(p, g)
    BY <1>4, <2>1, <2>2
  <2> HIDE DEF f
  <2> QED
    BY <2>2, <2>3
<1>8. \A i \in 0 .. m : Readings(c, st)[i] = f[i]
  <2> HIDE DEF f
  <2>1. Len(st) = m
    BY <1>1
  <2> QED
    BY <1>6, <1>7, <2>1, ReadsAs
<1>9. m \in 0 .. m
  OBVIOUS
<1>10. \A i \in 0 .. m : Readings(c, st)[i] = Later(r[i], g)
  BY <1>8
<1> QED
  BY <1>1, <1>2, <1>3, <1>9, <1>10 DEF Read

-----------------------------------------------------------------------------
(***************************************************************************)
(* Streams that recv_helper has the room for.                              *)
(***************************************************************************)
Short(p) == Len(p.b) + p.n <= MAX_MSG_SIZE

Fits(a, st) == \A i \in 0 .. Len(st) : Short(Readings(a, st)[i])

LEMMA FitsConcat ==
  ASSUME NEW a \in Places, NEW st \in Seq(Byte), NEW u \in Seq(Byte)
  PROVE  Fits(a, st \o u) <=> Fits(a, st) /\ Fits(Read(a, st), u)
<1>1. PICK m \in Nat, k \in Nat : m = Len(st) /\ k = Len(u)
  OBVIOUS
<1>2. PICK r, q, f : r = Readings(a, st) /\ q = Readings(Read(a, st), u) /\ f = Readings(a, st \o u)
  OBVIOUS
<1>3. /\ Len(st \o u) = m + k
      /\ \A i \in 0 .. m : f[i] = r[i]
      /\ \A i \in 0 .. k : f[m + i] = q[i]
  <2>1. Len(st \o u) = m + k
    BY <1>1, ReadConcat
  <2>2. \A i \in 0 .. m : Readings(a, st \o u)[i] = Readings(a, st)[i]
    BY <1>1, ReadConcat
  <2>3. Behind(Readings(a, st \o u), m, Readings(Read(a, st), u), k)
    BY <1>1, ReadConcat
  <2> QED
    BY <1>2, <2>1, <2>2, <2>3 DEF Behind
<1>4. /\ Fits(a, st \o u) <=> \A i \in 0 .. m + k : Short(f[i])
      /\ Fits(a, st) <=> \A i \in 0 .. m : Short(r[i])
      /\ Fits(Read(a, st), u) <=> \A i \in 0 .. k : Short(q[i])
  BY <1>1, <1>2, <1>3 DEF Fits
<1>5. ASSUME \A i \in 0 .. m + k : Short(f[i])
      PROVE  (\A i \in 0 .. m : Short(r[i])) /\ (\A i \in 0 .. k : Short(q[i]))
  <2>1. (\A i \in 0 .. m : i \in 0 .. m + k) /\ (\A i \in 0 .. k : m + i \in 0 .. m + k)
    OBVIOUS
  <2> QED
    BY <1>3, <1>5, <2>1
<1>6. ASSUME \A i \in 0 .. m : Short(r[i]), \A i \in 0 .. k : Short(q[i]), NEW i \in 0 .. m + k
      PROVE  Short(f[i])
  <2>1. CASE i <= m
    BY <1>3, <1>6, <2>1
  <2>2. CASE ~(i <= m)
    <3>1. i - m \in 0 .. k
      BY <2>2
    <3>2. PICK j \in 0 .. k : j = i - m
      BY <3>1
    <3>3. i = m + j
      BY <3>2
    <3> QED
      BY <1>3, <1>6, <3>3
  <2> QED
    BY <2>1, <2>2
<1> QED
  BY <1>4, <1>5, <1>6

\* A stream that is read in two parts.
LEMMA ReadCut ==
  ASSUME NEW a \in Places, NEW st \in Seq(Byte), NEW n \in 0 .. Len(st), NEW c,
         c = Read(a, Front(st, n))
  PROVE  /\ c \in Places /\ Read(a, st) = Read(c, After(st, n))
         /\ Fits(a, st) <=> Fits(a, Front(st, n)) /\ Fits(c, After(st, n))
<1>1. PICK f, h \in Seq(Byte) : f = Front(st, n) /\ h = After(st, n)
  BY Cut
<1>2. st = f \o h
  BY <1>1, CutConcat
<1>3. Read(a, f \o h) = Read(c, h)
  <2>1. PICK k, m \in Nat : k = Len(f) /\ m = Len(h)
    OBVIOUS
  <2>2. Read(a, f \o h) = Read(Read(a, f), h)
    BY <2>1, ReadConcat
  <2> QED
    BY <1>1, <2>2
<1>4. Fits(a, f \o h) <=> Fits(a, f) /\ Fits(c, h)
  BY <1>1, FitsConcat
<1>5. c \in Places
  BY <1>1, ReadType
<1> QED
  BY <1>1, <1>2, <1>3, <1>4, <1>5

\* What comes later adds to what has been returned.
LEMMA ReadAdds ==
  ASSUME NEW a \in Places, NEW st \in Seq(Byte)
  PROVE  \E g \in Seq(Seq(Byte)) : Read(a, st).got = a.got \o g
<1>1. a.b \in Seq(Byte) /\ a.n \in Byte /\ a.got \in Seq(Seq(Byte))
  BY DEF Places
<1> DEFINE c == [b |-> a.b, n |-> a.n, got |-> <<>>]
<1>2. c \in Places /\ c.b = a.b /\ c.n = a.n /\ c.got = <<>>
  <2>1. <<>> \in Seq(Seq(Byte))
    OBVIOUS
  <2> QED
    BY <1>1, <2>1 DEF Places
<1>3. a = [b |-> a.b, n |-> a.n, got |-> a.got]
  BY DEF Places
<1>4. a.got \o <<>> = a.got
  BY <1>1, ConcatEmptySeq
<1> HIDE DEF c
<1>5. Later(c, a.got) = a
  BY <1>2, <1>3, <1>4 DEF Later
<1>6. \A p \in Places : \A x : Later(ReadByte(p, x), a.got) = ReadByte(Later(p, a.got), x)
  BY <1>1, LaterByte
<1>7. Read(Later(c, a.got), st) = Later(Read(c, st), a.got)
  BY <1>2, <1>6, ReadLater
<1>8. PICK d \in Places : d = Read(c, st)
  BY <1>2, ReadType
<1>9. Read(a, st) = Later(d, a.got)
  BY <1>5, <1>7, <1>8
<1>10. PICK g \in Seq(Seq(Byte)) : g = d.got
  BY DEF Places
<1>11. PICK t : t = a.got \o g
  OBVIOUS
<1>12. Read(a, st) = [b |-> d.b, n |-> d.n, got |-> t]
  BY <1>9, <1>10, <1>11 DEF Later
<1>13. Read(a, st).got = t
  BY <1>12
<1> QED
  BY <1>11, <1>13, Zenon

\* One byte at the end of a stream.
LEMMA ReadsByte ==
  ASSUME NEW a \in Places, NEW st \in Seq(Byte), NEW x \in Byte, NEW p, p = Read(a, st)
  PROVE  /\ Read(a, st \o <<x>>) = ReadByte(p, x)
         /\ Fits(a, st) /\ Short(ReadByte(p, x)) => Fits(a, st \o <<x>>)
<1>0. <<x>> \in Seq(Byte)
  OBVIOUS
<1>1. PICK u \in Seq(Byte) : u = <<x>>
  BY <1>0
<1>2. PICK m \in Nat, k \in Nat : m = Len(st) /\ k = Len(u)
  OBVIOUS
<1>3. k = 1
  BY <1>1, <1>2
<1>4. Read(p, u) = ReadByte(p, x)
  BY <1>1, ReadOne
<1>5. Read(a, st \o u) = Read(p, u)
  BY <1>2, ReadConcat
<1>6. ASSUME Fits(a, st), Short(ReadByte(p, x)) PROVE Fits(a, st \o u)
  <2>1. Short(p)
    <3>1. m \in 0 .. m
      OBVIOUS
    <3> QED
      BY <1>2, <1>6, <3>1 DEF Fits, Read
  <2>2. Readings(p, u)[0] = p
    BY <1>2, ReadingsAt
  <2>3. Readings(p, u)[1] = ReadByte(p, x)
    BY <1>2, <1>3, <1>4 DEF Read
  <2>4. \A i \in 0 .. k : i = 0 \/ i = 1
    BY <1>3
  <2>5. Fits(p, u)
    BY <1>2, <1>6, <2>1, <2>2, <2>3, <2>4 DEF Fits
  <2> QED
    BY <1>6, <2>5, FitsConcat
<1> QED
  BY <1>1, <1>4, <1>5, <1>6

\* A part of a chunk fits when the chunk does.
LEMMA FitsChunk ==
  ASSUME NEW a \in Places, NEW u \in Seq(Byte), Len(u) <= a.n, Short(a)
  PROVE  Fits(a, u)
<1>1. PICK B \in Seq(Byte), N \in Nat, G \in Seq(Seq(Byte)) : a = [b |-> B, n |-> N, got |-> G]
  BY DEF Places
<1>2. PICK k \in Nat, l \in Nat : k = Len(u) /\ l = Len(B)
  OBVIOUS
<1>3. a.b = B /\ a.n = N /\ a.got = G /\ k <= N /\ l + N <= MAX_MSG_SIZE
  BY <1>1, <1>2 DEF Short
<1>4. \A i \in 0 .. k : Readings(a, u)[i] = Ahead(a, Front(u, i), i)
  <2>1. k <= a.n /\ k = Len(u)
    BY <1>2, <1>3
  <2> QED
    BY <2>1, ReadChunk
<1> SUFFICES ASSUME NEW i \in 0 .. k PROVE Short(Readings(a, u)[i])
  BY <1>2 DEF Fits
<1>5. PICK f \in Seq(Byte) : f = Front(u, i) /\ Len(f) = i
  BY <1>2, Cut
<1>6. PICK h : h = B \o f
  OBVIOUS
<1>7. Len(h) = l + i
  BY <1>2, <1>5, <1>6, ConcatProperties
<1>8. PICK c : c = Readings(a, u)[i]
  OBVIOUS
<1>9. c = [b |-> h, n |-> N - i, got |-> G]
  BY <1>3, <1>4, <1>5, <1>6, <1>8 DEF Ahead
<1>10. c.b = h /\ c.n = N - i
  BY <1>9
<1>11. (l + i) + (N - i) <= MAX_MSG_SIZE
  BY <1>3
<1> QED
  BY <1>7, <1>8, <1>10, <1>11 DEF Short

\* A part of a chunk at the end of a stream.
LEMMA ReadsChunk ==
  ASSUME NEW a \in Places, NEW st \in Seq(Byte), NEW u \in Seq(Byte), NEW p, p = Read(a, st),
         Len(u) <= p.n
  PROVE  /\ Read(a, st \o u) = Ahead(p, u, Len(u))
         /\ Fits(a, st) => Fits(a, st \o u)
<1>1. PICK m \in Nat, k \in Nat : m = Len(st) /\ k = Len(u)
  OBVIOUS
<1>2. p \in Places
  BY ReadType
<1>3. Read(p, u) = Ahead(p, u, k)
  <2>1. k <= p.n /\ k = Len(u)
    BY <1>1
  <2> QED
    BY <1>2, <2>1, ReadChunk
<1>4. Read(a, st \o u) = Read(p, u)
  BY <1>1, ReadConcat
<1>5. ASSUME Fits(a, st) PROVE Fits(a, st \o u)
  <2>1. Short(p)
    <3>1. m \in 0 .. m
      OBVIOUS
    <3> QED
      BY <1>1, <1>5, <3>1 DEF Fits, Read
  <2>2. Fits(p, u)
    BY <1>2, <2>1, FitsChunk
  <2> QED
    BY <1>5, <2>2, FitsConcat
<1> QED
  BY <1>1, <1>3, <1>4, <1>5

\* The first byte of a stream has been read.
LEMMA TakesByte ==
  ASSUME NEW a \in Places, NEW st \in Seq(Byte), st # <<>>, NEW c, c = ReadByte(a, Head(st))
  PROVE  /\ c \in Places /\ Read(a, st) = Read(c, Tail(st))
         /\ Fits(a, st) => Fits(c, Tail(st))
<1>1. PICK m \in Nat : m = Len(st) /\ m > 0
  BY EmptySeq
<1>2. PICK x \in Byte : x = st[1] /\ x = Head(st)
  <2>1. Head(st) = st[1] /\ 1 \in 1 .. Len(st)
    BY <1>1, HeadTailProperties
  <2> QED
    BY <2>1, ElementOfSeq
<1>3. PICK n \in 0 .. Len(st) : n = 1
  BY <1>1
<1>4. Front(st, n) = <<x>>
  <2>1. PICK f \in Seq(Byte) : f = Front(st, n)
    BY Cut
  <2>2. Len(f) = n /\ \A i \in 1 .. n : f[i] = st[i]
    BY <2>1, Cut
  <2>3. Len(f) = 1 /\ f[1] = x
    BY <1>2, <1>3, <2>2
  <2>4. f = <<x>>
    BY <2>3
  <2> QED
    BY <2>1, <2>4
<1>5. After(st, n) = Tail(st)
  <2>1. Tail(st) = SubSeq(st, 2, m)
    BY <1>1, TailIsSubSeq
  <2>2. n + 1 = 2
    BY <1>3
  <2> QED
    BY <1>1, <2>1, <2>2 DEF After
<1>6. c = Read(a, Front(st, n))
  BY <1>2, <1>4, ReadOne
<1>7. /\ c \in Places /\ Read(a, st) = Read(c, After(st, n))
      /\ Fits(a, st) <=> Fits(a, Front(st, n)) /\ Fits(c, After(st, n))
  BY <1>6, ReadCut
<1> QED
  BY <1>5, <1>7

\* The first n bytes of a stream, a part of a chunk, have been read.
LEMMA TakesChunk ==
  ASSUME NEW a \in Places, NEW st \in Seq(Byte), NEW n \in 0 .. Len(st), n <= a.n,
         NEW c, c = Ahead(a, Front(st, n), n)
  PROVE  /\ c \in Places /\ Read(a, st) = Read(c, After(st, n))
         /\ Fits(a, st) => Fits(c, After(st, n))
<1>1. PICK f \in Seq(Byte) : f = Front(st, n) /\ Len(f) = n
  BY Cut
<1>2. n \in Nat
  OBVIOUS
<1>3. Read(a, f) = Ahead(a, f, n)
  <2>1. n = Len(f)
    BY <1>1
  <2> QED
    BY <1>2, <2>1, ReadChunk
<1>4. c = Read(a, Front(st, n))
  BY <1>1, <1>3
<1> QED
  BY <1>4, ReadCut

\* What the end of a stream brings comes after what the beginning brings.
Begins(g, h) == \E n \in 0 .. Len(h) : g = SubSeq(h, 1, n)

LEMMA ReadFront ==
  ASSUME NEW a \in Places, NEW st \in Seq(Byte), NEW n \in 0 .. Len(st)
  PROVE  /\ Fits(a, st) => Fits(a, Front(st, n))
         /\ Begins(Read(a, Front(st, n)).got, Read(a, st).got)
<1>1. PICK c : c = Read(a, Front(st, n))
  OBVIOUS
<1>2. /\ c \in Places /\ Read(a, st) = Read(c, After(st, n))
      /\ Fits(a, st) => Fits(a, Front(st, n))
  BY <1>1, ReadCut
<1>3. After(st, n) \in Seq(Byte)
  BY Cut
<1>4. PICK g \in Seq(Seq(Byte)) : Read(c, After(st, n)).got = c.got \o g
  BY <1>2, <1>3, ReadAdds
<1>5. c.got \in Seq(Seq(Byte))
  BY <1>2 DEF Places
<1>6. Begins(c.got, c.got \o g)
  <2>1. PICK T : T = Seq(Byte)
    OBVIOUS
  <2>2. PICK h : h = c.got
    OBVIOUS
  <2>3. h \in Seq(T) /\ g \in Seq(T)
    BY <1>5, <2>1, <2>2
  <2>4. Begins(h, h \o g)
    <3>1. PICK k \in Nat : k = Len(h)
      BY <2>3
    <3>2. SubSeq(h \o g, 1, k) = h
      <4>1. k \in 0 .. k
        OBVIOUS
      <4> QED
        BY <2>3, <3>1, <4>1, SubSeqOfConcat1, SubSeqFull
    <3>3. k \in 0 .. Len(h \o g)
      BY <2>3, <3>1, ConcatProperties
    <3> QED
      BY <3>2, <3>3 DEF Begins
  <2> QED
    BY <2>2, <2>4
<1> QED
  BY <1>1, <1>2, <1>4, <1>6

\* A message has been returned.
LEMMA ReadsLater ==
  ASSUME NEW d \in Places, NEW st \in Seq(Byte), NEW g \in Seq(Seq(Byte)),
         NEW c, c = Later(d, g)
  PROVE  /\ Read(c, st) = Later(Read(d, st), g)
         /\ Fits(c, st) => Fits(d, st)
<1>1. PICK m \in Nat : m = Len(st)
  OBVIOUS
<1>2. \A p \in Places : \A x : Later(ReadByte(p, x), g) = ReadByte(Later(p, g), x)
  BY LaterByte
<1>3. /\ \A i \in 0 .. m : Readings(c, st)[i] = Later(Readings(d, st)[i], g)
      /\ Read(c, st) = Later(Read(d, st), g)
  BY <1>1, <1>2, ReadLater
<1>4. \A p : Short(Later(p, g)) => Short(p)
  BY DEF Later, Short
<1>5. Fits(c, st) => Fits(d, st)
  BY <1>1, <1>3, <1>4 DEF Fits
<1> QED
  BY <1>3, <1>5

LEMMA ConsFacts ==
  ASSUME NEW T, NEW x \in T, NEW k \in Seq(T), NEW w, w = <<x>> \o k
  PROVE  w # <<>> /\ Head(w) = x /\ Tail(w) = k
<1>1. <<x>> \in Seq(T) /\ Len(<<x>>) = 1 /\ <<x>>[1] = x
  OBVIOUS
<1>2. PICK n \in Nat : n = Len(k)
  OBVIOUS
<1>3. /\ w \in Seq(T) /\ Len(w) = 1 + n
      /\ \A i \in 1 .. 1 + n : w[i] = IF i <= 1 THEN <<x>>[i] ELSE k[i - 1]
  BY <1>1, <1>2, ConcatProperties
<1>4. w # <<>> /\ Head(w) = x
  BY <1>1, <1>3
<1>5. Tail(w) \in Seq(T) /\ Len(Tail(w)) = n /\ \A i \in 1 .. n : Tail(w)[i] = w[i + 1]
  BY <1>3, <1>4, HeadTailProperties
<1>6. \A i \in 1 .. n : Tail(w)[i] = k[i]
  <2> SUFFICES ASSUME NEW i \in 1 .. n PROVE Tail(w)[i] = k[i]
    OBVIOUS
  <2>1. i + 1 \in 1 .. 1 + n /\ ~(i + 1 <= 1) /\ (i + 1) - 1 = i
    OBVIOUS
  <2> QED
    BY <1>3, <1>5, <2>1
<1>7. Tail(w) = k
  BY <1>2, <1>5, <1>6, SeqEqual
<1> QED
  BY <1>4, <1>7

-----------------------------------------------------------------------------
(***************************************************************************)
(* The inductive invariant.                                                *)
(***************************************************************************)
\* Where send_helper is in its message.
SenderInv ==
  /\ spc = "size" => sent < Len(msg)
  /\ spc = "data" => 0 < tosend /\ sent + tosend <= Len(msg)
  /\ spc = "end" => sent = Len(msg)

\* A receiver at p is where the sender is, at pc with s bytes of mg sent and t to
\* send of a chunk.  A sender that was cut off is nowhere.
InStep(pc, mg, s, t, p) ==
  /\ pc = "idle" => p.b = <<>> /\ p.n = 0
  /\ pc \in {"size", "end"} => p.b = Front(mg, s) /\ p.n = 0
  /\ pc = "data" => p.b = Front(mg, s) /\ p.n = t

\* The stream will bring recv_helper to where send_helper is now, and never
\* beyond the end of its buffer.
StreamInv ==
  Receiving =>
    /\ rpc = "data" => torecv > 0
    /\ Fits(Place, stream)
    /\ InStep(spc, msg, sent, tosend, Read(Place, stream))

IInv == TypeOK /\ SenderInv /\ StreamInv

-----------------------------------------------------------------------------
(***************************************************************************)
(* What the steps have in common.                                          *)
(***************************************************************************)
LEMMA Types ==
  ASSUME TypeOK
  PROVE  /\ msg \in Seq(Byte) /\ Len(msg) \in Nat /\ Len(msg) <= MAX_MSG_SIZE
         /\ stream \in Seq(Byte) /\ Len(stream) \in Nat
         /\ buf \in Seq(Byte) /\ Len(buf) \in Nat
         /\ sent \in Nat /\ tosend \in Nat /\ torecv \in Nat
<1>1. msg \in Msg \union {<<>>} /\ stream \in Seq(Byte) /\ buf \in Seq(Byte) /\ torecv \in Byte
  BY DEF TypeOK
<1>2. msg \in Seq(Byte) /\ Len(msg) <= MAX_MSG_SIZE
  <2>1. CASE msg \in Msg
    BY <2>1
  <2>2. CASE msg = <<>>
    <3>1. <<>> \in Seq(Byte) /\ Len(<<>>) = 0 /\ 0 <= MAX_MSG_SIZE
      OBVIOUS
    <3> QED
      BY <2>2, <3>1
  <2> QED
    BY <1>1, <2>1, <2>2
<1>3. torecv \in Nat
  BY <1>1
<1>4. Len(msg) \in Nat /\ Len(stream) \in Nat /\ Len(buf) \in Nat
  BY <1>1, <1>2, LenProperties
<1>5. sent \in Nat /\ tosend \in Nat
  BY <1>4 DEF TypeOK
<1> QED
  BY <1>1, <1>2, <1>3, <1>4, <1>5

LEMMA PlaceType ==
  ASSUME TypeOK
  PROVE  Place \in Places /\ Place.b = buf /\ Place.got = <<>>
<1>1. buf \in Seq(Byte) /\ torecv \in Byte /\ 0 \in Byte /\ <<>> \in Seq(Seq(Byte))
  BY DEF TypeOK
<1>2. (IF rpc = "data" THEN torecv ELSE 0) \in Byte
  BY <1>1
<1> QED
  BY <1>1, <1>2 DEF Place, Places

\* The stream after a send.
LEMMA PutFacts ==
  ASSUME TypeOK, NEW bytes \in Seq(Byte), Put(bytes)
  PROVE  /\ stream' \in Seq(Byte) /\ Len(stream') <= SockBuf
         /\ ~Left => stream' = stream \o bytes
<1>1. stream \in Seq(Byte) /\ Len(stream) <= SockBuf
  BY DEF TypeOK
<1>2. CASE Left
  BY <1>1, <1>2 DEF Put
<1>3. CASE ~Left
  <2>1. stream' = stream \o bytes /\ Len(stream) + Len(bytes) <= SockBuf
    BY <1>3 DEF Put
  <2>2. /\ stream \o bytes \in Seq(Byte)
        /\ Len(stream \o bytes) = Len(stream) + Len(bytes)
    BY <1>1
  <2> QED
    BY <2>1, <2>2
<1> QED
  BY <1>2, <1>3

\* recv_helper has not moved.
LEMMA RecvKept ==
  ASSUME UNCHANGED recvVars
  PROVE  /\ rpc' = rpc /\ buf' = buf /\ torecv' = torecv /\ returned' = returned
         /\ Place' = Place /\ (Left' <=> Left) /\ (Receiving' <=> Receiving)
         /\ (~Receiving => Wire = <<>> /\ Wire' = <<>>)
  BY DEF recvVars, Place, Left, Receiving, Wire

\* send_helper has not moved.
LEMMA SendKept ==
  ASSUME UNCHANGED sendVars
  PROVE  /\ spc' = spc /\ msg' = msg /\ sent' = sent /\ tosend' = tosend /\ handed' = handed
         /\ (SenderInv <=> SenderInv') /\ Hand' = Hand /\ (SenderOpen' <=> SenderOpen)
  BY DEF sendVars, SenderInv, Hand, Sending, SenderOpen

\* What StreamInv and Wire are after a step of the receiver ...
LEMMA ReceiverMoved ==
  ASSUME rpc' \in {"size", "data"}, rpc' = "data" => torecv' > 0, NEW c, NEW p,
         c = [b |-> buf', n |-> IF rpc' = "data" THEN torecv' ELSE 0, got |-> <<>>],
         Fits(c, stream'), p = Read(c, stream'), InStep(spc', msg', sent', tosend', p)
  PROVE  StreamInv' /\ Wire' = p.got /\ Receiving'
<1>1. Place' = c /\ Receiving'
  BY DEF Place, Receiving
<1> QED
  BY <1>1 DEF StreamInv, Wire, InStep, Fits, Read, Readings

\* ... and of the sender.
LEMMA SenderMoved ==
  ASSUME UNCHANGED recvVars, StreamInv, Receiving, NEW p,
         Fits(Place, stream'), p = Read(Place, stream'), InStep(spc', msg', sent', tosend', p)
  PROVE  StreamInv' /\ Wire' = p.got
<1>1. rpc' = rpc /\ buf' = buf /\ torecv' = torecv
  BY RecvKept
<1>2. rpc \in {"size", "data"} /\ (rpc = "data" => torecv > 0)
  BY DEF StreamInv, Receiving
<1> QED
  BY <1>1, <1>2, ReceiverMoved DEF Place

\* What they are when recv_helper has stopped.
LEMMA NotReceiving ==
  ASSUME rpc' \notin {"size", "data"}
  PROVE  StreamInv' /\ Wire' = <<>> /\ ~Receiving'
<1>1. ~Receiving'
  BY DEF Receiving
<1> QED
  BY <1>1 DEF StreamInv, Wire

-----------------------------------------------------------------------------
(***************************************************************************)
(* The steps of the abstract specification, in the terms of this module.   *)
(***************************************************************************)
WholeStep == [Whole!Next]_(Whole!vars)

LEMMA WholeStutters ==
  ASSUME Hand' = Hand, Wire' = Wire, returned' = returned,
         SenderOpen' <=> SenderOpen, Receiving' <=> Receiving
  PROVE  WholeStep
BY DEF WholeStep, Whole!vars

LEMMA WholeTakes ==
  ASSUME NEW m \in Msg, SenderOpen, Hand = <<>>, Hand' = <<m>>, Wire' = Wire,
         returned' = returned, SenderOpen', Receiving' <=> Receiving
  PROVE  WholeStep
<1>1. Whole!Take(m)
  BY DEF Whole!Take
<1> QED
  BY <1>1 DEF WholeStep, Whole!Next

LEMMA WholeSends ==
  ASSUME SenderOpen, Hand # <<>>, Hand' = <<>>, SenderOpen', Receiving' <=> Receiving,
         Receiving => Wire' = Wire \o Hand, ~Receiving => Wire' = Wire, returned' = returned
  PROVE  WholeStep
<1>1. Whole!Send
  BY DEF Whole!Send
<1> QED
  BY <1>1 DEF WholeStep, Whole!Next

LEMMA WholeReceives ==
  ASSUME Receiving, Receiving', NEW x, NEW g, NEW h, Wire = h, h # <<>>, Head(h) = x, Tail(h) = g,
         returned' = Append(returned, x), Wire' = g, Hand' = Hand, SenderOpen' <=> SenderOpen
  PROVE  WholeStep
<1>1. Whole!Receive
  BY DEF Whole!Receive
<1> QED
  BY <1>1 DEF WholeStep, Whole!Next

LEMMA WholeIsCutOff ==
  ASSUME ~SenderOpen', Hand' = <<>>, NEW g, NEW h, Wire = h, Wire' = g, Begins(g, h),
         returned' = returned, Receiving' <=> Receiving
  PROVE  WholeStep
<1>1. Whole!CutOff
  <2>1. SenderOpen' = FALSE
    BY DEF SenderOpen
  <2> QED
    BY <2>1 DEF Whole!CutOff, Begins, SenderOpen, Receiving
<1> QED
  BY <1>1 DEF WholeStep, Whole!Next

LEMMA WholeEnds ==
  ASSUME ~Receiving', Wire' = <<>>, Hand' = Hand, returned' = returned,
         SenderOpen' <=> SenderOpen
  PROVE  WholeStep
<1>1. Whole!End
  <2>1. Receiving' = FALSE
    BY DEF Receiving
  <2> QED
    BY <2>1 DEF Whole!End, SenderOpen, Receiving
<1> QED
  BY <1>1 DEF WholeStep, Whole!Next

-----------------------------------------------------------------------------
(***************************************************************************)
(* The steps of the sender.                                                *)
(***************************************************************************)
LEMMA CallSendStep ==
  ASSUME IInv, NEW m \in Msg, CallSend(m)
  PROVE  IInv' /\ WholeStep
<1>1. /\ spc = "idle" /\ spc' = IF Len(m) > 0 THEN "size" ELSE "end"
      /\ msg' = m /\ sent' = 0 /\ handed' = Append(handed, m) /\ tosend' = tosend
      /\ stream' = stream /\ reset' = reset /\ UNCHANGED recvVars
  BY DEF CallSend
<1>2. /\ rpc' = rpc /\ buf' = buf /\ torecv' = torecv /\ returned' = returned
      /\ (Receiving' <=> Receiving)
  BY <1>1, RecvKept
<1>3. m \in Seq(Byte) /\ Len(m) \in Nat
  OBVIOUS
<1>4. handed' \in Seq(Msg)
  BY <1>1 DEF IInv, TypeOK
<1>5. TypeOK'
  BY <1>1, <1>2, <1>3, <1>4 DEF IInv, TypeOK
<1>6. SenderInv'
  BY <1>1, <1>3 DEF SenderInv
<1>7. Front(m, 0) = <<>>
  BY SubSeqEmpty DEF Front
<1>8. StreamInv' /\ Wire' = Wire
  <2>1. CASE Receiving
    <3>1. PICK p : p = Read(Place, stream)
      OBVIOUS
    <3>2. Fits(Place, stream) /\ InStep(spc, msg, sent, tosend, p)
      BY <2>1, <3>1 DEF IInv, StreamInv
    <3>3. InStep(spc', msg', sent', tosend', p)
      BY <1>1, <1>7, <3>2 DEF InStep
    <3>4. Wire = p.got
      BY <2>1, <3>1 DEF Wire
    <3>5. StreamInv' /\ Wire' = p.got
      BY <1>1, <2>1, <3>1, <3>2, <3>3, SenderMoved DEF IInv
    <3> QED
      BY <3>4, <3>5
  <2>2. CASE ~Receiving
    BY <1>1, <2>2, RecvKept DEF StreamInv
  <2> QED
    BY <2>1, <2>2
<1>9. WholeStep
  <2>1. SenderOpen /\ SenderOpen' /\ Hand = <<>> /\ Hand' = <<m>>
    BY <1>1 DEF SenderOpen, Hand, Sending
  <2> QED
    BY <1>2, <1>8, <2>1, WholeTakes
<1> QED
  BY <1>5, <1>6, <1>8, <1>9 DEF IInv

LEMMA SendSizeStep ==
  ASSUME IInv, SendSize
  PROVE  IInv' /\ WholeStep
<1>1. /\ spc = "size" /\ spc' = "data" /\ tosend' = Least(Len(msg) - sent, CHUNK)
      /\ Put(<<tosend' % UINT8>>) /\ msg' = msg /\ sent' = sent /\ handed' = handed
      /\ reset' = reset /\ UNCHANGED recvVars
  BY DEF SendSize
<1>2. /\ sent < Len(msg) /\ Len(msg) \in Nat /\ Len(msg) <= MAX_MSG_SIZE /\ sent \in Nat
      /\ msg \in Seq(Byte)
  BY <1>1, Types DEF IInv, SenderInv
<1>3. PICK t \in Byte :
        t = tosend' /\ t > 0 /\ t <= CHUNK /\ sent + t <= Len(msg) /\ sent + t <= MAX_MSG_SIZE
  <2>1. PICK l \in Nat, k \in Nat : l = Len(msg) /\ k = sent /\ k < l /\ l <= MAX_MSG_SIZE
    BY <1>2
  <2>2. PICK t \in Nat : t = Least(l - k, CHUNK)
    <3>1. l - k \in Nat /\ CHUNK \in Nat
      BY <2>1
    <3>2. Least(l - k, CHUNK) \in Nat
      BY <3>1 DEF Least
    <3> QED
      BY <3>2
  <2>3. t > 0 /\ t <= CHUNK /\ k + t <= l /\ k + t <= MAX_MSG_SIZE /\ t \in Byte
    BY <2>1, <2>2 DEF Least
  <2> QED
    BY <1>1, <2>1, <2>2, <2>3
<1>4. Put(<<t>>) /\ <<t>> \in Seq(Byte)
  <2>1. \A x \in Byte : x % UINT8 = x
    OBVIOUS
  <2> QED
    BY <1>1, <1>3, <2>1
<1>5. stream' \in Seq(Byte) /\ Len(stream') <= SockBuf /\ (~Left => stream' = stream \o <<t>>)
  BY <1>4, PutFacts DEF IInv
<1>6. TypeOK'
  BY <1>1, <1>3, <1>5 DEF IInv, TypeOK, recvVars
<1>7. SenderInv'
  BY <1>1, <1>3 DEF SenderInv
<1>8. StreamInv' /\ Wire' = Wire
  <2>1. CASE Receiving
    <3>1. PICK a \in Places, st \in Seq(Byte) : a = Place /\ st = stream
      BY PlaceType, Types DEF IInv
    <3>2. PICK p \in Places : p = Read(a, st)
      BY ReadType
    <3>3. Fits(a, st) /\ p.b = Front(msg, sent) /\ p.n = 0 /\ Wire = p.got
      BY <1>1, <2>1, <3>1, <3>2 DEF IInv, StreamInv, InStep, Wire
    <3>4. PICK q : q = ReadByte(p, t)
      OBVIOUS
    <3>5. q.b = p.b /\ q.n = t /\ q.got = p.got
      BY <1>3, <3>3, <3>4 DEF ReadByte
    <3>6. Short(q)
      <4>1. sent \in 0 .. Len(msg)
        BY <1>2
      <4>2. Len(Front(msg, sent)) = sent
        BY <1>2, <4>1, Cut
      <4> QED
        BY <1>3, <3>3, <3>5, <4>2 DEF Short
    <3>7. Read(a, st \o <<t>>) = q /\ Fits(a, st \o <<t>>)
      BY <3>2, <3>3, <3>4, <3>6, ReadsByte
    <3>8. stream' = st \o <<t>>
      BY <1>5, <2>1, <3>1 DEF Left, Receiving
    <3>9. InStep(spc', msg', sent', tosend', q)
      BY <1>1, <1>3, <3>3, <3>5 DEF InStep
    <3>10. Fits(Place, stream') /\ q = Read(Place, stream')
      BY <3>1, <3>7, <3>8
    <3>11. StreamInv' /\ Wire' = q.got
      BY <1>1, <2>1, <3>9, <3>10, SenderMoved DEF IInv
    <3> QED
      BY <3>3, <3>5, <3>11
  <2>2. CASE ~Receiving
    BY <1>1, <2>2, RecvKept DEF StreamInv
  <2> QED
    BY <2>1, <2>2
<1>9. WholeStep
  <2>1. SenderOpen /\ SenderOpen' /\ Hand' = Hand
    BY <1>1 DEF SenderOpen, Hand, Sending
  <2> QED
    BY <1>1, <1>8, <2>1, RecvKept, WholeStutters
<1> QED
  BY <1>6, <1>7, <1>8, <1>9 DEF IInv

LEMMA SendDataStep ==
  ASSUME IInv, SendData
  PROVE  IInv' /\ WholeStep
<1>1. PICK r \in 1 .. tosend :
        /\ spc = "data" /\ Put(SubSeq(msg, sent + 1, sent + r))
        /\ tosend' = tosend - r /\ sent' = sent + r
        /\ spc' = IF tosend' > 0 THEN "data" ELSE IF sent' < Len(msg) THEN "size" ELSE "end"
        /\ msg' = msg /\ handed' = handed /\ reset' = reset /\ UNCHANGED recvVars
  BY DEF SendData
<1>2. PICK l \in Nat, k \in Nat, t \in Nat :
        /\ l = Len(msg) /\ k = sent /\ t = tosend /\ 0 < t /\ k + t <= l /\ t <= CHUNK
  BY <1>1, Types DEF IInv, SenderInv, TypeOK
<1>3. r \in Nat /\ r <= t /\ k + r <= l /\ k \in 0 .. l /\ k + r \in 0 .. l
  BY <1>1, <1>2
<1>4. msg \in Seq(Byte)
  BY Types DEF IInv
<1>5. PICK u \in Seq(Byte) : /\ u = SubSeq(msg, sent + 1, sent + r) /\ Len(u) = r
                             /\ Front(msg, k) \o u = Front(msg, k + r)
  BY <1>2, <1>3, <1>4, FrontFurther
<1>6. stream' \in Seq(Byte) /\ Len(stream') <= SockBuf /\ (~Left => stream' = stream \o u)
  BY <1>1, <1>5, PutFacts DEF IInv
<1>7. TypeOK'
  <2>1. sent' \in 0 .. Len(msg) /\ tosend' \in 0 .. CHUNK
    BY <1>1, <1>2, <1>3
  <2>2. spc' \in {"data", "size", "end"}
    BY <1>1
  <2> QED
    BY <1>1, <1>6, <2>1, <2>2 DEF IInv, TypeOK, recvVars
<1>8. SenderInv'
  BY <1>1, <1>2, <1>3 DEF SenderInv
<1>9. StreamInv' /\ Wire' = Wire
  <2>1. CASE Receiving
    <3>1. PICK a \in Places, st \in Seq(Byte) : a = Place /\ st = stream
      BY PlaceType, Types DEF IInv
    <3>2. PICK p \in Places : p = Read(a, st)
      BY ReadType
    <3>3. Fits(a, st) /\ p.b = Front(msg, k) /\ p.n = t /\ Wire = p.got
      BY <1>1, <1>2, <2>1, <3>1, <3>2 DEF IInv, StreamInv, InStep, Wire
    <3>4. PICK q : q = Ahead(p, u, r)
      OBVIOUS
    <3>5. q.b = Front(msg, k + r) /\ q.n = t - r /\ q.got = p.got
      BY <1>5, <3>3, <3>4 DEF Ahead
    <3>6. Read(a, st \o u) = q /\ Fits(a, st \o u)
      <4>1. Len(u) <= p.n
        BY <1>3, <1>5, <3>3
      <4>2. Read(a, st \o u) = Ahead(p, u, Len(u))
        BY <3>2, <4>1, ReadsChunk
      <4>3. Fits(a, st \o u)
        BY <3>2, <3>3, <4>1, ReadsChunk
      <4> QED
        BY <1>5, <3>4, <4>2, <4>3
    <3>7. stream' = st \o u
      BY <1>6, <2>1, <3>1 DEF Left, Receiving
    <3>8. InStep(spc', msg', sent', tosend', q)
      <4>1. q.b = Front(msg', sent') /\ q.n = tosend' /\ tosend' = t - r
        BY <1>1, <1>2, <3>5
      <4>2. spc' \in {"data", "size", "end"} /\ (spc' # "data" => ~(t - r > 0))
        BY <1>1, <4>1
      <4>3. spc' # "data" => q.n = 0
        BY <1>3, <4>1, <4>2
      <4> QED
        BY <4>1, <4>2, <4>3 DEF InStep
    <3>9. Fits(Place, stream') /\ q = Read(Place, stream')
      BY <3>1, <3>6, <3>7
    <3>10. StreamInv' /\ Wire' = q.got
      BY <1>1, <2>1, <3>8, <3>9, SenderMoved DEF IInv
    <3> QED
      BY <3>3, <3>5, <3>10
  <2>2. CASE ~Receiving
    BY <1>1, <2>2, RecvKept DEF StreamInv
  <2> QED
    BY <2>1, <2>2
<1>10. WholeStep
  <2>1. SenderOpen /\ SenderOpen' /\ Hand' = Hand
    BY <1>1 DEF SenderOpen, Hand, Sending
  <2> QED
    BY <1>1, <1>9, <2>1, RecvKept, WholeStutters
<1> QED
  BY <1>7, <1>8, <1>9, <1>10 DEF IInv

LEMMA SendEndStep ==
  ASSUME IInv, SendEnd
  PROVE  IInv' /\ WholeStep
<1>1. /\ spc = "end" /\ spc' = "idle" /\ Put(<<0>>)
      /\ msg' = msg /\ sent' = sent /\ tosend' = tosend /\ handed' = handed
      /\ reset' = reset /\ UNCHANGED recvVars
  BY DEF SendEnd
<1>2. 0 \in Byte /\ <<0>> \in Seq(Byte)
  OBVIOUS
<1>3. stream' \in Seq(Byte) /\ Len(stream') <= SockBuf /\ (~Left => stream' = stream \o <<0>>)
  BY <1>1, <1>2, PutFacts DEF IInv
<1>4. TypeOK'
  BY <1>1, <1>3 DEF IInv, TypeOK, recvVars
<1>5. SenderInv'
  BY <1>1 DEF SenderInv
<1>6. msg \in Seq(Byte) /\ Front(msg, sent) = msg
  BY <1>1, Types, SubSeqFull DEF IInv, SenderInv, Front
<1>7. /\ StreamInv' /\ (~Receiving => Wire' = Wire)
      /\ (Receiving => Wire' = Wire \o <<msg>>)
  <2>1. CASE Receiving
    <3>1. PICK a \in Places, st \in Seq(Byte) : a = Place /\ st = stream
      BY PlaceType, Types DEF IInv
    <3>2. PICK p \in Places : p = Read(a, st)
      BY ReadType
    <3>3. Fits(a, st) /\ p.b = msg /\ p.n = 0 /\ Wire = p.got
      BY <1>1, <1>6, <2>1, <3>1, <3>2 DEF IInv, StreamInv, InStep, Wire
    <3>4. PICK q : q = ReadByte(p, 0)
      OBVIOUS
    <3>5. q.b = <<>> /\ q.n = 0 /\ q.got = Append(p.got, p.b)
      BY <3>3, <3>4 DEF ReadByte
    <3>6. Short(q)
      <4>1. Len(<<>>) = 0 /\ 0 + 0 <= MAX_MSG_SIZE
        OBVIOUS
      <4> QED
        BY <3>5, <4>1 DEF Short
    <3>7. Read(a, st \o <<0>>) = q /\ Fits(a, st \o <<0>>)
      BY <1>2, <3>2, <3>3, <3>4, <3>6, ReadsByte
    <3>8. stream' = st \o <<0>>
      BY <1>3, <2>1, <3>1 DEF Left, Receiving
    <3>9. InStep(spc', msg', sent', tosend', q)
      BY <1>1, <3>5 DEF InStep
    <3>10. Fits(Place, stream') /\ q = Read(Place, stream')
      BY <3>1, <3>7, <3>8
    <3>11. StreamInv' /\ Wire' = q.got
      BY <1>1, <2>1, <3>9, <3>10, SenderMoved DEF IInv
    <3>12. q.got = Wire \o <<msg>>
      <4>1. PICK T, g, w : T = Seq(Byte) /\ g = p.got /\ w = p.b
        OBVIOUS
      <4>2. g \in Seq(T) /\ w \in T
        BY <4>1 DEF Places
      <4>3. Append(g, w) = g \o <<w>>
        BY <4>2, AppendIsConcat
      <4> QED
        BY <3>3, <3>5, <4>1, <4>3
    <3> QED
      BY <2>1, <3>11, <3>12
  <2>2. CASE ~Receiving
    BY <1>1, <2>2, RecvKept DEF StreamInv
  <2> QED
    BY <2>1, <2>2
<1>8. WholeStep
  <2>1. SenderOpen /\ SenderOpen' /\ Hand' = <<>> /\ Hand = <<msg>> /\ Hand # <<>>
    BY <1>1 DEF SenderOpen, Hand, Sending
  <2> QED
    BY <1>1, <1>7, <2>1, RecvKept, WholeSends
<1> QED
  BY <1>4, <1>5, <1>7, <1>8 DEF IInv

\* The sender is cut off, and the end of the stream may be lost: SendFails, Close.
LEMMA CutOff ==
  ASSUME IInv, spc' = "closed", msg' = msg, sent' = sent, tosend' = tosend, handed' = handed,
         UNCHANGED recvVars, reset' \in BOOLEAN,
         NEW n \in 0 .. Len(stream), stream' = Front(stream, n)
  PROVE  IInv' /\ WholeStep
<1>1. stream \in Seq(Byte) /\ Len(stream) \in Nat /\ Len(stream) <= SockBuf
  BY Types DEF IInv, TypeOK
<1>2. stream' \in Seq(Byte) /\ Len(stream') = n
  BY <1>1, Cut
<1>3. TypeOK'
  <2>1. Len(stream') <= SockBuf
    BY <1>1, <1>2
  <2> QED
    BY <1>2, <2>1, RecvKept DEF IInv, TypeOK
<1>4. SenderInv'
  BY DEF SenderInv
<1>5. StreamInv' /\ Begins(Wire', Wire)
  <2>1. CASE Receiving
    <3>1. PICK a \in Places, st \in Seq(Byte) : a = Place /\ st = stream
      BY <1>1, PlaceType DEF IInv
    <3>2. PICK p, q : p = Read(a, st) /\ q = Read(a, Front(st, n))
      OBVIOUS
    <3>3. Fits(a, st) /\ Wire = p.got
      BY <2>1, <3>1, <3>2 DEF IInv, StreamInv, Wire
    <3>4. Fits(a, Front(st, n)) /\ Begins(q.got, p.got)
      BY <3>1, <3>2, <3>3, ReadFront
    <3>5. InStep(spc', msg', sent', tosend', q)
      BY DEF InStep
    <3>6. Fits(Place, stream') /\ q = Read(Place, stream')
      BY <3>1, <3>2, <3>4
    <3>7. StreamInv' /\ Wire' = q.got
      BY <2>1, <3>5, <3>6, SenderMoved DEF IInv
    <3> QED
      BY <3>3, <3>4, <3>7
  <2>2. CASE ~Receiving
    <3>1. Wire = <<>> /\ Wire' = <<>> /\ StreamInv'
      BY <2>2, RecvKept DEF StreamInv
    <3>2. Begins(<<>>, <<>>)
      <4>1. 0 \in 0 .. Len(<<>>) /\ SubSeq(<<>>, 1, 0) = <<>>
        BY SubSeqEmpty
      <4> QED
        BY <4>1 DEF Begins
    <3> QED
      BY <3>1, <3>2
  <2> QED
    BY <2>1, <2>2
<1>6. WholeStep
  <2>1. ~SenderOpen' /\ Hand' = <<>>
    BY DEF SenderOpen, Hand, Sending
  <2>2. PICK g, h : g = Wire' /\ h = Wire
    OBVIOUS
  <2>3. Begins(g, h)
    BY <1>5, <2>2
  <2> QED
    BY <2>1, <2>2, <2>3, RecvKept, WholeIsCutOff
<1> QED
  BY <1>3, <1>4, <1>5, <1>6 DEF IInv

LEMMA SendFailsStep ==
  ASSUME IInv, SendFails
  PROVE  IInv' /\ WholeStep
<1>1. stream \in Seq(Byte) /\ Len(stream) \in Nat /\ reset \in BOOLEAN
  BY Types DEF IInv, TypeOK
<1>2. PICK n \in 0 .. Len(stream) : n = Len(stream)
  BY <1>1
<1>3. stream = Front(stream, n)
  BY <1>1, <1>2, SubSeqFull DEF Front
<1>4. /\ spc' = "closed" /\ msg' = msg /\ sent' = sent /\ tosend' = tosend /\ handed' = handed
      /\ stream' = stream /\ reset' = reset /\ UNCHANGED recvVars
  BY DEF SendFails
<1> QED
  BY <1>1, <1>3, <1>4, CutOff

LEMMA CloseStep ==
  ASSUME IInv, Close
  PROVE  IInv' /\ WholeStep
<1>1. stream \in Seq(Byte) /\ Len(stream) \in Nat /\ reset \in BOOLEAN
  BY Types DEF IInv, TypeOK
<1>2. /\ spc' = "closed" /\ msg' = msg /\ sent' = sent /\ tosend' = tosend /\ handed' = handed
      /\ UNCHANGED recvVars
      /\ \/ UNCHANGED <<stream, reset>>
         \/ reset' = TRUE /\ \E n \in 0 .. Len(stream) : stream' = SubSeq(stream, 1, n)
  BY DEF Close
<1>3. reset' \in BOOLEAN
  BY <1>1, <1>2
<1>4. PICK n \in 0 .. Len(stream) : stream' = Front(stream, n)
  <2>1. CASE stream' = stream
    <3>1. Front(stream, Len(stream)) = stream /\ Len(stream) \in 0 .. Len(stream)
      BY <1>1, SubSeqFull DEF Front
    <3> QED
      BY <2>1, <3>1
  <2>2. CASE \E n \in 0 .. Len(stream) : stream' = SubSeq(stream, 1, n)
    BY <2>2 DEF Front
  <2> QED
    BY <1>2, <2>1, <2>2
<1> QED
  BY <1>2, <1>3, <1>4, CutOff

-----------------------------------------------------------------------------
(***************************************************************************)
(* The steps of the receiver.                                              *)
(***************************************************************************)
LEMMA RecvSizeStep ==
  ASSUME IInv, RecvSize
  PROVE  IInv' /\ WholeStep
<1>1. /\ rpc = "size" /\ stream # <<>> /\ stream' = Tail(stream)
      /\ IF Head(stream) = 0
         THEN returned' = Append(returned, buf) /\ buf' = <<>> /\ rpc' = rpc /\ torecv' = torecv
         ELSE torecv' = Head(stream) /\ rpc' = "data" /\ buf' = buf /\ returned' = returned
      /\ UNCHANGED sendVars /\ reset' = reset
  BY DEF RecvSize
<1>2. PICK st \in Seq(Byte), h \in Seq(Byte), x \in Byte :
        /\ st = stream /\ st # <<>> /\ x = Head(st) /\ h = Tail(st) /\ Len(h) <= SockBuf
  <2>1. stream \in Seq(Byte) /\ stream # <<>> /\ Len(stream) <= SockBuf /\ Len(stream) \in Nat
    BY <1>1, Types DEF IInv, TypeOK
  <2>2. /\ Head(stream) \in Byte /\ Tail(stream) \in Seq(Byte)
        /\ Len(Tail(stream)) = Len(stream) - 1
    BY <2>1, HeadTailProperties
  <2>3. Len(Tail(stream)) <= SockBuf
    BY <2>1, <2>2
  <2> QED
    BY <2>1, <2>2, <2>3
<1>3. /\ returned \in Seq(Seq(Byte)) /\ buf \in Seq(Byte) /\ torecv \in Byte /\ <<>> \in Seq(Byte)
  BY DEF IInv, TypeOK
<1>4. TypeOK'
  <2>1. returned' \in Seq(Seq(Byte))
    <3>1. Append(returned, buf) \in Seq(Seq(Byte))
      BY <1>3, AppendProperties
    <3> QED
      BY <1>1, <1>3, <3>1
  <2>2. buf' \in Seq(Byte) /\ torecv' \in Byte /\ rpc' \in {"size", "data"}
    BY <1>1, <1>2, <1>3
  <2> QED
    BY <1>1, <1>2, <2>1, <2>2, SendKept DEF IInv, TypeOK
<1>5. SenderInv'
  BY <1>1, SendKept DEF IInv
<1>6. PICK a \in Places : a = Place /\ a.b = buf /\ a.n = 0 /\ a.got = <<>>
  <2>1. Place.n = 0
    BY <1>1 DEF Place
  <2> QED
    BY <2>1, PlaceType DEF IInv
<1>7. PICK p \in Places : p = Read(a, st)
  BY ReadType
<1>8. /\ Receiving /\ Fits(a, st) /\ Wire = p.got
      /\ InStep(spc', msg', sent', tosend', p)
  BY <1>1, <1>2, <1>6, <1>7, SendKept DEF IInv, StreamInv, Receiving, Wire
<1>9. PICK c : c = ReadByte(a, x)
  OBVIOUS
<1>10. c \in Places /\ p = Read(c, h) /\ Fits(c, h)
  BY <1>2, <1>7, <1>8, <1>9, TakesByte
<1>11. CASE x # 0
  <2>1. c = [b |-> buf, n |-> x, got |-> <<>>]
    BY <1>6, <1>9, <1>11 DEF ReadByte
  <2>2. rpc' = "data" /\ torecv' = x /\ buf' = buf /\ returned' = returned /\ stream' = h
    BY <1>1, <1>2, <1>11
  <2>3. torecv' > 0
    BY <1>11, <2>2
  <2>4. c = [b |-> buf', n |-> IF rpc' = "data" THEN torecv' ELSE 0, got |-> <<>>]
    BY <2>1, <2>2
  <2>5. StreamInv' /\ Wire' = p.got /\ Receiving'
    BY <1>8, <1>10, <2>2, <2>3, <2>4, ReceiverMoved
  <2>6. WholeStep
    BY <1>1, <1>8, <2>2, <2>5, SendKept, WholeStutters
  <2> QED
    BY <1>4, <1>5, <2>5, <2>6 DEF IInv
<1>12. CASE x = 0
  <2>1. rpc' = "size" /\ buf' = <<>> /\ returned' = Append(returned, buf) /\ stream' = h
    BY <1>1, <1>2, <1>12
  <2>2. c = [b |-> <<>>, n |-> 0, got |-> Append(<<>>, buf)]
    BY <1>6, <1>9, <1>12 DEF ReadByte
  <2>3. PICK d \in Places : d = [b |-> <<>>, n |-> 0, got |-> <<>>]
    <3>1. 0 \in Byte /\ <<>> \in Seq(Byte) /\ <<>> \in Seq(Seq(Byte))
      OBVIOUS
    <3> QED
      BY <3>1 DEF Places
  <2>4. PICK g \in Seq(Seq(Byte)) : g = <<buf>>
    <3>1. <<buf>> \in Seq(Seq(Byte))
      BY <1>3
    <3> QED
      BY <3>1
  <2>5. c = Later(d, g)
    <3>1. Append(<<>>, buf) = <<buf>>
      BY <1>3
    <3>2. g \o <<>> = g
      BY ConcatEmptySeq
    <3> QED
      BY <2>2, <2>3, <2>4, <3>1, <3>2 DEF Later
  <2>6. PICK q \in Places : q = Read(d, h)
    BY ReadType
  <2>7. p = Later(q, g) /\ Fits(d, h)
    BY <1>10, <2>5, <2>6, ReadsLater
  <2>8. p.b = q.b /\ p.n = q.n /\ p.got = g \o q.got
    BY <2>7 DEF Later
  <2>9. InStep(spc', msg', sent', tosend', q)
    BY <1>8, <2>8 DEF InStep
  <2>10. d = [b |-> buf', n |-> IF rpc' = "data" THEN torecv' ELSE 0, got |-> <<>>]
    BY <2>1, <2>3
  <2>11. StreamInv' /\ Wire' = q.got /\ Receiving'
    BY <2>1, <2>6, <2>7, <2>9, <2>10, ReceiverMoved
  <2>12. PICK w : w = Wire
    OBVIOUS
  <2>13. w # <<>> /\ Head(w) = buf /\ Tail(w) = q.got
    <3>1. PICK k \in Seq(Seq(Byte)) : k = q.got
      BY DEF Places
    <3>2. w = <<buf>> \o k
      BY <1>8, <2>4, <2>8, <2>12, <3>1
    <3> QED
      BY <1>3, <3>1, <3>2, ConsFacts
  <2>14. WholeStep
    BY <1>1, <1>8, <2>1, <2>11, <2>12, <2>13, SendKept, WholeReceives
  <2> QED
    BY <1>4, <1>5, <2>11, <2>14 DEF IInv
<1> QED
  BY <1>11, <1>12

LEMMA RecvDataStep ==
  ASSUME IInv, RecvData
  PROVE  IInv' /\ WholeStep
<1>1. PICK r \in 1 .. Least(torecv, Len(stream)) :
        /\ rpc = "data" /\ buf' = buf \o SubSeq(stream, 1, r)
        /\ stream' = SubSeq(stream, r + 1, Len(stream)) /\ torecv' = torecv - r
        /\ rpc' = IF torecv' > 0 THEN "data" ELSE "size"
        /\ returned' = returned /\ UNCHANGED sendVars /\ reset' = reset
  BY DEF RecvData
<1>2. PICK l \in Nat, t \in Nat : l = Len(stream) /\ t = torecv /\ t \in Byte /\ l <= SockBuf
  BY Types DEF IInv, TypeOK
<1>3. r \in Nat /\ r \in 0 .. l /\ r <= t /\ t - r \in Byte
  BY <1>1, <1>2 DEF Least
<1>4. PICK st \in Seq(Byte) : st = stream
  BY Types DEF IInv
<1>5. PICK f \in Seq(Byte), h \in Seq(Byte) :
        f = Front(st, r) /\ h = After(st, r) /\ Len(h) = l - r
  <2>1. r \in 0 .. Len(st) /\ l = Len(st)
    BY <1>2, <1>3, <1>4
  <2>2. Front(st, r) \in Seq(Byte) /\ After(st, r) \in Seq(Byte) /\ Len(After(st, r)) = Len(st) - r
    BY <2>1, Cut
  <2> QED
    BY <2>1, <2>2
<1>6. stream' = h /\ buf' = buf \o f /\ torecv' = t - r
  BY <1>1, <1>2, <1>4, <1>5 DEF Front, After
<1>7. buf' \in Seq(Byte)
  BY <1>5, <1>6, ConcatProperties DEF IInv, TypeOK
<1>8. TypeOK'
  <2>1. Len(stream') <= SockBuf
    BY <1>2, <1>3, <1>5, <1>6
  <2>2. rpc' \in {"size", "data"}
    BY <1>1
  <2> QED
    BY <1>1, <1>3, <1>6, <1>7, <2>1, <2>2, SendKept DEF IInv, TypeOK
<1>9. SenderInv'
  BY <1>1, SendKept DEF IInv
<1>10. PICK a \in Places : a = Place /\ a.b = buf /\ a.n = t /\ a.got = <<>>
  <2>1. Place.n = t
    BY <1>1, <1>2 DEF Place
  <2> QED
    BY <2>1, PlaceType DEF IInv
<1>11. PICK p : p = Read(a, st)
  OBVIOUS
<1>12. /\ Receiving /\ Fits(a, st) /\ Wire = p.got
       /\ InStep(spc', msg', sent', tosend', p)
  BY <1>1, <1>4, <1>10, <1>11, SendKept DEF IInv, StreamInv, Receiving, Wire
<1>13. PICK c : c = Ahead(a, Front(st, r), r)
  OBVIOUS
<1>14. p = Read(c, h) /\ Fits(c, h)
  <2>1. r \in 0 .. Len(st) /\ r <= a.n
    BY <1>2, <1>3, <1>4, <1>10
  <2> QED
    BY <1>5, <1>11, <1>12, <1>13, <2>1, TakesChunk
<1>15. c = [b |-> buf', n |-> t - r, got |-> <<>>]
  BY <1>5, <1>6, <1>10, <1>13 DEF Ahead
<1>16. /\ rpc' \in {"size", "data"} /\ (rpc' = "data" => torecv' > 0)
       /\ (IF rpc' = "data" THEN torecv' ELSE 0) = t - r
  <2>1. PICK n \in Nat : n = t - r
    BY <1>2, <1>3
  <2>2. torecv' = n /\ rpc' = IF n > 0 THEN "data" ELSE "size"
    BY <1>1, <1>6, <2>1
  <2>3. CASE n > 0
    BY <2>1, <2>2, <2>3
  <2>4. CASE n = 0
    BY <2>1, <2>2, <2>4
  <2> QED
    BY <2>3, <2>4
<1>17. c = [b |-> buf', n |-> IF rpc' = "data" THEN torecv' ELSE 0, got |-> <<>>]
  BY <1>15, <1>16
<1>18. StreamInv' /\ Wire' = p.got /\ Receiving'
  BY <1>6, <1>12, <1>14, <1>16, <1>17, ReceiverMoved
<1>19. WholeStep
  BY <1>1, <1>12, <1>18, SendKept, WholeStutters
<1> QED
  BY <1>8, <1>9, <1>18, <1>19 DEF IInv

\* The receiver stops: RecvNothing, RecvFails, Leave.
LEMMA Stops ==
  ASSUME IInv, rpc' \in {"ended", "failed", "left"}, stream' = stream \/ stream' = <<>>,
         buf' = buf \/ buf' = <<>>, torecv' = torecv, returned' = returned, reset' = reset,
         UNCHANGED sendVars
  PROVE  IInv' /\ WholeStep
<1>1. StreamInv' /\ Wire' = <<>> /\ ~Receiving'
  BY NotReceiving
<1>2. SenderInv'
  BY SendKept DEF IInv
<1>3. TypeOK'
  <2>1. stream' \in Seq(Byte) /\ Len(stream') <= SockBuf
    <3>1. CASE stream' = stream
      BY <3>1 DEF IInv, TypeOK
    <3>2. CASE stream' = <<>>
      <4>1. <<>> \in Seq(Byte) /\ Len(<<>>) = 0 /\ 0 <= SockBuf
        OBVIOUS
      <4> QED
        BY <3>2, <4>1
    <3> QED
      BY <3>1, <3>2
  <2>2. buf' \in Seq(Byte)
    <3>1. <<>> \in Seq(Byte) /\ buf \in Seq(Byte)
      BY DEF IInv, TypeOK
    <3> QED
      BY <3>1
  <2> QED
    BY <2>1, <2>2, SendKept DEF IInv, TypeOK
<1>4. WholeStep
  BY <1>1, SendKept, WholeEnds
<1> QED
  BY <1>1, <1>2, <1>3, <1>4 DEF IInv

-----------------------------------------------------------------------------
(***************************************************************************)
(* The invariant, and what follows from it.                                *)
(***************************************************************************)
LEMMA InitIInv == Init => IInv /\ Whole!Init
<1> SUFFICES ASSUME Init PROVE IInv /\ Whole!Init
  OBVIOUS
<1>1. TypeOK
  <2>1. /\ <<>> \in Seq(Byte) /\ <<>> \in Seq(Msg) /\ <<>> \in Seq(Seq(Byte))
        /\ Len(<<>>) = 0 /\ 0 \in Byte /\ 0 \in 0 .. 0 /\ 0 \in 0 .. CHUNK /\ 0 <= SockBuf
    OBVIOUS
  <2> QED
    BY <2>1 DEF Init, TypeOK
<1>2. SenderInv
  BY DEF Init, SenderInv
<1>3. PICK st \in Seq(Byte), k \in Nat : st = <<>> /\ k = 0 /\ Len(st) = k
  <2>1. <<>> \in Seq(Byte) /\ Len(<<>>) = 0
    OBVIOUS
  <2> QED
    BY <2>1
<1>4. PICK p : p = [b |-> <<>>, n |-> 0, got |-> <<>>]
  OBVIOUS
<1>5. p.b = <<>> /\ p.n = 0 /\ p.got = <<>>
  BY <1>4
<1>6. Place = p /\ stream = st /\ spc = "idle" /\ rpc = "size" /\ returned = <<>>
  BY <1>3, <1>4 DEF Init, Place
<1>7. Readings(p, st)[0] = p
  BY <1>3, ReadingsAt
<1>8. Read(p, st) = p /\ Fits(p, st)
  <2>1. Short(p)
    <3>1. Len(<<>>) = 0 /\ 0 + 0 <= MAX_MSG_SIZE
      OBVIOUS
    <3> QED
      BY <1>5, <3>1 DEF Short
  <2>2. Read(p, st) = p
    BY <1>3, <1>7 DEF Read
  <2>3. \A i \in 0 .. k : i = 0
    BY <1>3
  <2> QED
    BY <1>3, <1>7, <2>1, <2>2, <2>3 DEF Fits
<1>9. StreamInv
  BY <1>5, <1>6, <1>8 DEF StreamInv, InStep
<1>10. Whole!Init
  <2>1. Wire = <<>> /\ Hand = <<>> /\ SenderOpen = TRUE /\ Receiving = TRUE
    BY <1>5, <1>6, <1>8 DEF Wire, Hand, Sending, SenderOpen, Receiving
  <2> QED
    BY <1>6, <2>1 DEF Whole!Init
<1> QED
  BY <1>1, <1>2, <1>9, <1>10 DEF IInv

LEMMA NextIInv == IInv /\ [Next]_vars => IInv' /\ WholeStep
<1> SUFFICES ASSUME IInv, [Next]_vars PROVE IInv' /\ WholeStep
  OBVIOUS
<1>1. ASSUME NEW m \in Msg, CallSend(m) PROVE IInv' /\ WholeStep
  BY <1>1, CallSendStep
<1>2. CASE SendSize
  BY <1>2, SendSizeStep
<1>3. CASE SendData
  BY <1>3, SendDataStep
<1>4. CASE SendEnd
  BY <1>4, SendEndStep
<1>5. CASE SendFails
  BY <1>5, SendFailsStep
<1>6. CASE Close
  BY <1>6, CloseStep
<1>7. CASE RecvSize
  BY <1>7, RecvSizeStep
<1>8. CASE RecvData
  BY <1>8, RecvDataStep
<1>9. CASE RecvNothing \/ RecvFails \/ Leave
  BY <1>9, Stops DEF RecvNothing, RecvFails, Leave
<1>10. CASE UNCHANGED vars
  <2>1. /\ UNCHANGED sendVars /\ UNCHANGED recvVars /\ stream' = stream /\ reset' = reset
    BY <1>10 DEF vars
  <2>2. TypeOK' /\ SenderInv'
    BY <2>1, SendKept, RecvKept DEF IInv, TypeOK
  <2>3. StreamInv' /\ Wire' = Wire
    BY <2>1, SendKept, RecvKept DEF IInv, StreamInv, Wire, Fits, Read, Readings, InStep
  <2>4. WholeStep
    BY <2>1, <2>3, SendKept, RecvKept, WholeStutters
  <2> QED
    BY <2>2, <2>3, <2>4 DEF IInv
<1> QED
  BY <1>1, <1>2, <1>3, <1>4, <1>5, <1>6, <1>7, <1>8, <1>9, <1>10 DEF Next, send_helper, recv_helper

LEMMA Invariance == Spec => []IInv
  BY InitIInv, NextIInv, PTL DEF Spec

(***************************************************************************)
(* The variables of the two helpers keep their types; among it, send_helper*)
(* never sends beyond its message nor a chunk above CHUNK bytes.           *)
(***************************************************************************)
THEOREM FramingTypeCorrect == Spec => []TypeOK
<1>1. IInv => TypeOK
  BY DEF IInv
<1> QED
  BY <1>1, Invariance, PTL

(***************************************************************************)
(* recv_helper never asks recv for more than is left of its buffer.        *)
(***************************************************************************)
THEOREM BufferNeverOverrun == Spec => []BufferSuffices
<1>1. IInv => BufferSuffices
  <2> SUFFICES ASSUME IInv, rpc = "data" PROVE Len(buf) + torecv <= MAX_MSG_SIZE
    BY DEF BufferSuffices
  <2>1. PICK a \in Places, st \in Seq(Byte), k \in Nat : a = Place /\ st = stream /\ k = Len(st)
    BY Types, PlaceType DEF IInv
  <2>2. Fits(a, st)
    BY <2>1 DEF IInv, StreamInv, Receiving
  <2>3. Readings(a, st)[0] = a
    BY <2>1, ReadingsAt
  <2>4. 0 \in 0 .. k
    OBVIOUS
  <2>5. Short(a)
    BY <2>1, <2>2, <2>3, <2>4 DEF Fits
  <2>6. a.b = buf /\ a.n = torecv
    BY <2>1 DEF Place
  <2> QED
    BY <2>5, <2>6 DEF Short
<1> QED
  BY <1>1, Invariance, PTL

(***************************************************************************)
(* The two helpers carry whole messages: what recv_helper returns, and     *)
(* what is still to be read of the stream, are messages send_helper was    *)
(* called with, in order and each once, however the kernel cuts the stream *)
(* and wherever it ends.                                                   *)
(***************************************************************************)
THEOREM FramingCarriesWholeMessages == Spec => CarriesWholeMessages
<1>1. Init => Whole!Init
  BY InitIInv
<1>2. IInv /\ [Next]_vars => [Whole!Next]_(Whole!vars)
  BY NextIInv DEF WholeStep
<1> QED
  BY <1>1, <1>2, Invariance, PTL DEF Spec, CarriesWholeMessages, Whole!Spec
=============================================================================
