------------------------- MODULE ConnectionsProofs -------------------------
(***************************************************************************)
(* For tables of any size, any number of connections and of messages: what *)
(* the set-up of mysocket.c leaves from one connection to the next never   *)
(* reaches the program, and harms nobody unless a thread runs early.       *)
(***************************************************************************)
EXTENDS Connections, SequenceTheorems, TLAPS

USE ConnectionsAssumption

-----------------------------------------------------------------------------
(***************************************************************************)
(* The inductive invariant.                                                *)
(***************************************************************************)
Setting == {"locks", "createS", "createR", "allocSend", "allocRecv", "initSend", "clearSend",
            "initRecv", "clearRecv"}

Round == 1 .. Rounds
Slot == 0 .. Rounds

\* The types, the histories included.
ConnTypes ==
  /\ TypeOK
  /\ table \in [Round -> [Table -> Seq(Slot) \union {Raw}]]
  /\ accepted \in Seq(Round) /\ out \in Seq(Slot)
  /\ got \in Seq(Round) /\ returned \in Seq(Round)

\* How far init_connection is: which pointers lead to a table of this
\* connection, and which of these tables are initialised.
SetUpInv ==
  /\ app # "closed" => round \in Round
  /\ \A x \in Table : ptr[x] <= round
  /\ \A k \in Round : k > round => \A x \in Table : table[k][x] = Raw
  /\ app \in {"allocRecv", "initSend", "clearSend", "initRecv", "clearRecv", "open"}
       => ptr["send"] = round
  /\ app \in {"initSend", "clearSend", "initRecv", "clearRecv", "open"} => ptr["recv"] = round
  /\ app \in {"clearSend", "initRecv", "clearRecv", "open"} => table[round]["send"] # Raw
  /\ app \in {"clearRecv", "open"} => table[round]["recv"] # Raw

\* The threads of the last connection have ended before those of the next
\* begin, and what is freed belongs to a connection before.
TurnInv ==
  /\ app \in {"closed", "locks", "createS"} => S \in {"none", "dead"}
  /\ app \in {"closed", "locks", "createS", "createR"} => R \in {"none", "dead"}
  /\ freed \subseteq 1 .. round
  /\ app \in Setting \union {"open"} => round \notin freed

\* A thread with a message in hand, or about to take one, has met a table.
UseInv ==
  /\ S = "take" => ptr["send"] # 0
  /\ R = "put" => ptr["recv"] # 0

\* Messages of this connection only, in its table and at the program.
OwnInv ==
  /\ returned \in Seq({round})
  /\ round \in Round => table[round]["recv"] \in Seq({Hole, round}) \union {Raw}

\* As long as no thread has run early: nothing has happened before
\* init_connection returns, then nothing is lost, and what a thread has
\* found in its test still holds.
SoundInv ==
  ~early =>
    /\ app # "crashed"
    /\ app \in Setting =>
         /\ accepted = <<>> /\ out = <<>> /\ got = <<>> /\ returned = <<>>
         /\ S \in {"none", "dead", "start"} /\ R \in {"none", "dead", "recv", "start"}
    /\ app \in {"clearSend", "initRecv", "clearRecv"} => table[round]["send"] = <<>>
    /\ app = "clearRecv" => table[round]["recv"] = <<>>
    /\ app = "open" =>
         /\ accepted = out \o table[round]["send"]
         /\ got = returned \o table[round]["recv"]
         /\ S = "take" => table[round]["send"] # <<>>
         /\ R = "put" => Len(table[round]["recv"]) < MAX_MSG

IInv == ConnTypes /\ SetUpInv /\ TurnInv /\ UseInv /\ OwnInv /\ SoundInv

-----------------------------------------------------------------------------
(***************************************************************************)
(* Sequences.                                                              *)
(***************************************************************************)
LEMMA EmptyFacts ==
  /\ <<>> \in Seq(Slot) /\ <<>> \in Seq({Hole, round}) /\ Len(<<>>) <= MAX_MSG
  /\ <<>> # Raw /\ <<>> \o <<>> = <<>>
<1>1. <<>> \in Seq(Slot) /\ <<>> \in Seq({Hole, round}) /\ Len(<<>>) = 0
  OBVIOUS
<1>2. <<>> # Raw
  BY <1>1 DEF Slot
<1>3. <<>> \o <<>> = <<>>
  BY <1>1, ConcatEmptySeq
<1> QED
  BY <1>1, <1>2, <1>3

LEMMA AppendFacts ==
  ASSUME NEW A, NEW s \in Seq(A), NEW t \in Seq(A), NEW x \in A
  PROVE  /\ Append(s, x) \in Seq(A) /\ Len(Append(s, x)) = Len(s) + 1
         /\ Append(s, x) # <<>> /\ t \o Append(s, x) = Append(t \o s, x)
  BY AppendProperties

LEMMA TailFacts ==
  ASSUME NEW A, NEW s \in Seq(A), NEW t \in Seq(A), s # <<>>
  PROVE  /\ Head(s) \in A /\ Tail(s) \in Seq(A) /\ Len(Tail(s)) = Len(s) - 1
         /\ Append(t, Head(s)) \o Tail(s) = t \o s
<1>1. Head(s) \in A /\ Tail(s) \in Seq(A) /\ Len(Tail(s)) = Len(s) - 1
  BY HeadTailProperties
<1>2. Append(t, Head(s)) = t \o <<Head(s)>> /\ <<Head(s)>> \o Tail(s) = s
  BY <1>1
<1>3. (t \o <<Head(s)>>) \o Tail(s) = t \o (<<Head(s)>> \o Tail(s))
  BY <1>1, ConcatAssociative
<1> QED
  BY <1>1, <1>2, <1>3

-----------------------------------------------------------------------------
(***************************************************************************)
(* Tables.                                                                 *)
(***************************************************************************)
\* What a pointer that is not NULL leads to.
LEMMA TabFacts ==
  ASSUME ConnTypes, NEW x \in Table, ptr[x] # 0
  PROVE  /\ ptr[x] \in Round /\ Tab(x) = table[ptr[x]][x] /\ Tab(x) # Null
         /\ Tab(x) # Raw => Tab(x) \in Seq(Slot) /\ Len(Tab(x)) \in 0 .. MAX_MSG
<1>1. ptr[x] \in Round /\ Tab(x) = table[ptr[x]][x]
  BY DEF ConnTypes, TypeOK, Round, Tab
<1>2. Tab(x) \in Seq(Slot) \union {Raw}
  BY <1>1 DEF ConnTypes
<1>3. Tab(x) # Raw => Len(Tab(x)) \in 0 .. MAX_MSG
  BY <1>1, <1>2 DEF ConnTypes, TypeOK, Round, Slot
<1> QED
  BY <1>1, <1>2, <1>3 DEF Round, Slot

\* On an open connection it is the table of this connection, initialised.
LEMMA OpenTab ==
  ASSUME IInv, app = "open", NEW x \in Table
  PROVE  /\ round \in Round /\ ptr[x] = round /\ Tab(x) = table[round][x]
         /\ Tab(x) # Null /\ Tab(x) # Raw
         /\ Tab(x) \in Seq(Slot) /\ Len(Tab(x)) \in 0 .. MAX_MSG
<1>1. round \in Round /\ ptr[x] = round /\ round # 0 /\ table[round][x] # Raw
  BY DEF IInv, SetUpInv, Table, Round
<1> QED
  BY <1>1, TabFacts DEF IInv

\* One table becomes v.
Becomes(k, x, v) ==
  /\ table' \in [Round -> [Table -> Seq(Slot) \union {Raw}]]
  /\ \A j \in Round, y \in Table :
       /\ table'[j][y] = IF j = k /\ y = x THEN v ELSE table[j][y]
       /\ table'[j][y] # Raw
            => table'[j][y] \in Seq(0 .. Rounds) /\ Len(table'[j][y]) <= MAX_MSG

LEMMA TableChange ==
  ASSUME ConnTypes, NEW k \in Round, NEW x \in Table,
         NEW v \in Seq(Slot), Len(v) <= MAX_MSG, table' = [table EXCEPT ![k][x] = v]
  PROVE  Becomes(k, x, v)
<1>1. table' \in [Round -> [Table -> Seq(Slot) \union {Raw}]]
  BY DEF ConnTypes
<1>2. \A j \in Round, y \in Table :
        table'[j][y] = IF j = k /\ y = x THEN v ELSE table[j][y]
  BY DEF ConnTypes
<1>3. \A j \in Round, y \in Table :
        table[j][y] # Raw
          => table[j][y] \in Seq(0 .. Rounds) /\ Len(table[j][y]) <= MAX_MSG
  BY DEF ConnTypes, TypeOK, Round, Slot
<1> QED
  BY <1>1, <1>2, <1>3 DEF Round, Slot, Becomes

-----------------------------------------------------------------------------

\* A thread has ended the process, by a crash only if it has run early.
LEMMA EndStep ==
  ASSUME IInv, app' \in {"exited", "crashed"}, app' = "crashed" => early',
         early => early', early' \in BOOLEAN, app # "closed",
         UNCHANGED <<round, fd, threadVars, inbox, histVars>>
  PROVE  IInv'
<1> USE DEF threadVars, histVars
<1>1. ConnTypes'
  BY DEF IInv, ConnTypes, TypeOK, Table
<1>2. SetUpInv'
  BY DEF IInv, SetUpInv, Table
<1>3. TurnInv'
  BY DEF IInv, TurnInv, Setting
<1>4. UseInv'
  BY DEF IInv, UseInv
<1>5. OwnInv'
  BY DEF IInv, OwnInv
<1>6. SoundInv'
  BY DEF IInv, SoundInv, Setting
<1> QED
  BY <1>1, <1>2, <1>3, <1>4, <1>5, <1>6 DEF IInv

LEMMA EstablishStep == IInv /\ Establish => IInv'
<1> SUFFICES ASSUME IInv, Establish PROVE IInv'
  OBVIOUS
<1> USE DEF Establish, threadVars
<1>1. ConnTypes'
  <2>1. <<>> \in Seq(Round)
    OBVIOUS
  <2>2. round + 1 \in 0 .. Rounds /\ Messages \in 0 .. Messages
    BY DEF IInv, ConnTypes, TypeOK
  <2>3. TypeOK'
    BY <2>2 DEF IInv, ConnTypes, TypeOK
  <2> QED
    BY <2>1, <2>3 DEF IInv, ConnTypes
<1>2. SetUpInv'
  BY DEF IInv, ConnTypes, TypeOK, SetUpInv, Table, Round
<1>3. TurnInv'
  BY DEF IInv, ConnTypes, TypeOK, TurnInv, Setting
<1>4. UseInv'
  BY DEF IInv, UseInv
<1>5. OwnInv'
  BY DEF IInv, ConnTypes, TypeOK, SetUpInv, OwnInv, Round, Table
<1>6. SoundInv'
  BY DEF IInv, TurnInv, SoundInv, Setting
<1> QED
  BY <1>1, <1>2, <1>3, <1>4, <1>5, <1>6 DEF IInv

LEMMA InitLocksStep == IInv /\ InitLocks => IInv'
<1> SUFFICES ASSUME IInv, InitLocks PROVE IInv'
  OBVIOUS
<1> USE DEF InitLocks, To, histVars
<1>1. ConnTypes'
  BY DEF IInv, ConnTypes, TypeOK, Table
<1>2. SetUpInv'
  BY DEF IInv, SetUpInv, Table
<1>3. TurnInv'
  BY DEF IInv, TurnInv, Setting
<1>4. UseInv'
  BY DEF IInv, UseInv
<1>5. OwnInv'
  BY DEF IInv, OwnInv
<1>6. SoundInv'
  BY DEF IInv, SoundInv, Setting
<1> QED
  BY <1>1, <1>2, <1>3, <1>4, <1>5, <1>6 DEF IInv

LEMMA CreateSStep == IInv /\ CreateS => IInv'
<1> SUFFICES ASSUME IInv, CreateS PROVE IInv'
  OBVIOUS
<1> USE DEF CreateS, To, histVars
<1>1. ConnTypes'
  BY DEF IInv, ConnTypes, TypeOK, Table
<1>2. SetUpInv'
  BY DEF IInv, SetUpInv, Table
<1>3. TurnInv'
  BY DEF IInv, TurnInv, Setting
<1>4. UseInv'
  BY DEF IInv, UseInv
<1>5. OwnInv'
  BY DEF IInv, OwnInv
<1>6. SoundInv'
  BY DEF IInv, SoundInv, Setting
<1> QED
  BY <1>1, <1>2, <1>3, <1>4, <1>5, <1>6 DEF IInv

LEMMA CreateRStep == IInv /\ CreateR => IInv'
<1> SUFFICES ASSUME IInv, CreateR PROVE IInv'
  OBVIOUS
<1> USE DEF CreateR, To, histVars
<1>1. ConnTypes'
  BY DEF IInv, ConnTypes, TypeOK, Table
<1>2. SetUpInv'
  BY DEF IInv, SetUpInv, Table
<1>3. TurnInv'
  BY DEF IInv, TurnInv, Setting
<1>4. UseInv'
  BY DEF IInv, UseInv
<1>5. OwnInv'
  BY DEF IInv, OwnInv
<1>6. SoundInv'
  BY DEF IInv, SoundInv, Setting
<1> QED
  BY <1>1, <1>2, <1>3, <1>4, <1>5, <1>6 DEF IInv

LEMMA AllocSendStep == IInv /\ Alloc("send", "allocSend", "allocRecv") => IInv'
<1> SUFFICES ASSUME IInv, Alloc("send", "allocSend", "allocRecv") PROVE IInv'
  OBVIOUS
<1> USE DEF Alloc, To, histVars
<1>1. ConnTypes'
  BY DEF IInv, ConnTypes, TypeOK, Table
<1>2. SetUpInv'
  BY DEF IInv, ConnTypes, TypeOK, SetUpInv, Table, Round
<1>3. TurnInv'
  BY DEF IInv, TurnInv, Setting
<1>4. UseInv'
  BY DEF IInv, ConnTypes, TypeOK, SetUpInv, UseInv, Table, Round
<1>5. OwnInv'
  BY DEF IInv, OwnInv
<1>6. SoundInv'
  BY DEF IInv, SoundInv, Setting
<1> QED
  BY <1>1, <1>2, <1>3, <1>4, <1>5, <1>6 DEF IInv

LEMMA AllocRecvStep == IInv /\ Alloc("recv", "allocRecv", "initSend") => IInv'
<1> SUFFICES ASSUME IInv, Alloc("recv", "allocRecv", "initSend") PROVE IInv'
  OBVIOUS
<1> USE DEF Alloc, To, histVars
<1>1. ConnTypes'
  BY DEF IInv, ConnTypes, TypeOK, Table
<1>2. SetUpInv'
  BY DEF IInv, ConnTypes, TypeOK, SetUpInv, Table, Round
<1>3. TurnInv'
  BY DEF IInv, TurnInv, Setting
<1>4. UseInv'
  BY DEF IInv, ConnTypes, TypeOK, SetUpInv, UseInv, Table, Round
<1>5. OwnInv'
  BY DEF IInv, OwnInv
<1>6. SoundInv'
  BY DEF IInv, SoundInv, Setting
<1> QED
  BY <1>1, <1>2, <1>3, <1>4, <1>5, <1>6 DEF IInv

\* What the slots of a queue may become.
LEMMA SlotsFacts ==
  ASSUME round \in Round, NEW n \in 0 .. MAX_MSG, NEW s \in [1 .. n -> {Hole, round}]
  PROVE  /\ s \in Seq({Hole, round}) /\ s \in Seq(Slot) /\ Len(s) = n /\ s # Raw
         /\ n = 0 => s = <<>>
<1>1. n \in Nat /\ s \in Seq({Hole, round}) /\ Len(s) = n
  OBVIOUS
<1>2. {Hole, round} \subseteq Slot
  BY DEF Hole, Round, Slot
<1>3. s \in Seq(Slot)
  BY <1>1, <1>2
<1>4. s # Raw
  BY <1>3 DEF Slot
<1>5. n = 0 => s = <<>>
  BY <1>1, EmptySeq
<1> QED
  BY <1>1, <1>3, <1>4, <1>5

\* A step of initqueue: table x of this connection becomes v, empty if no
\* thread has run early.
LEMMA InitFacts ==
  ASSUME IInv, NEW x \in Table, NEW v \in Seq(Slot), v \in Seq({Hole, round}),
         Len(v) <= MAX_MSG, v # Raw, round \in Round, ptr[x] = round,
         table' = [table EXCEPT ![round][x] = v],
         UNCHANGED <<round, fd, S, R, ptr, freed, mutex, inbox, early, accepted, out, got,
                     returned>>,
         table[round][x] = <<>> => v = <<>>,
         \/ x = "send" /\ app = "initSend" /\ app' = "clearSend" /\ v = <<>>
         \/ x = "send" /\ app = "clearSend" /\ app' = "initRecv"
         \/ x = "recv" /\ app = "initRecv" /\ app' = "clearRecv" /\ v = <<>>
         \/ x = "recv" /\ app = "clearRecv" /\ app' = "open"
  PROVE  IInv'
<1>1. ConnTypes
  BY DEF IInv
<1>2. Becomes(round, x, v)
  BY <1>1, TableChange
<1>3. /\ table'[round][x] = v
      /\ \A j \in Round, y \in Table : j # round \/ y # x => table'[j][y] = table[j][y]
  BY <1>2 DEF Becomes
<1>4. ConnTypes'
  <2>1. TypeOK'
    BY <1>1, <1>2 DEF ConnTypes, TypeOK, Becomes, Round, Table
  <2> QED
    BY <1>1, <1>2, <2>1 DEF ConnTypes, Becomes
<1>5. SetUpInv'
  <2>1. \A j \in Round : j > round => \A y \in Table : table'[j][y] = table[j][y]
    BY <1>3 DEF Round
  <2>2. \A y \in Table : table[round][y] # Raw => table'[round][y] # Raw
    BY <1>3
  <2> QED
    BY <1>3, <2>1, <2>2 DEF IInv, SetUpInv, Table
<1>6. TurnInv' /\ UseInv'
  BY DEF IInv, TurnInv, UseInv, Setting
<1>7. OwnInv'
  BY <1>3 DEF IInv, OwnInv, Table
<1>8. SoundInv'
  <2>1. <<>> \o <<>> = <<>>
    BY EmptyFacts
  <2>2. /\ x = "send" => table'[round]["recv"] = table[round]["recv"]
        /\ x = "recv" => table'[round]["send"] = table[round]["send"]
    BY <1>3 DEF Table
  <2> QED
    BY <1>3, <2>1, <2>2 DEF IInv, SoundInv, Setting
<1> QED
  BY <1>4, <1>5, <1>6, <1>7, <1>8 DEF IInv

LEMMA ResetSendStep == IInv /\ ResetIndices("send", "initSend", "clearSend") => IInv'
<1> SUFFICES ASSUME IInv, ResetIndices("send", "initSend", "clearSend") PROVE IInv'
  OBVIOUS
<1>1. /\ app = "initSend" /\ app' = "clearSend" /\ "send" \in Table
      /\ UNCHANGED <<round, fd, S, R, ptr, freed, mutex, inbox, early, accepted, out, got, returned>>
  BY DEF ResetIndices, To, histVars, Table
<1>2. round \in Round /\ ptr["send"] = round /\ table' = [table EXCEPT ![round]["send"] = <<>>]
  BY <1>1 DEF IInv, SetUpInv, ResetIndices
<1> QED
  BY <1>1, <1>2, EmptyFacts, InitFacts

LEMMA ClearSendStep == IInv /\ ClearSlots("send", "clearSend", "initRecv") => IInv'
<1> SUFFICES ASSUME IInv, ClearSlots("send", "clearSend", "initRecv") PROVE IInv'
  OBVIOUS
<1>1. /\ app = "clearSend" /\ app' = "initRecv" /\ "send" \in Table
      /\ UNCHANGED <<round, fd, S, R, ptr, freed, mutex, inbox, early, accepted, out, got, returned>>
  BY DEF ClearSlots, To, histVars, Table
<1>2. /\ round \in Round /\ ptr["send"] = round /\ table[round]["send"] # Raw
      /\ Tab("send") = table[round]["send"]
  BY <1>1, TabFacts DEF IInv, SetUpInv, Round
<1>3. PICK t \in Seq(Slot) : t = table[round]["send"] /\ Len(t) \in 0 .. MAX_MSG
  BY <1>1, <1>2, TabFacts DEF IInv, Round
<1>4. PICK s \in [1 .. Len(t) -> {Hole, round}] : table' = [table EXCEPT ![round]["send"] = s]
  BY <1>2, <1>3 DEF ClearSlots
<1>5. /\ s \in Seq({Hole, round}) /\ s \in Seq(Slot) /\ Len(s) <= MAX_MSG /\ s # Raw
      /\ t = <<>> => s = <<>>
  BY <1>2, <1>3, <1>4, SlotsFacts
<1> QED
  BY <1>1, <1>2, <1>3, <1>4, <1>5, InitFacts

LEMMA ResetRecvStep == IInv /\ ResetIndices("recv", "initRecv", "clearRecv") => IInv'
<1> SUFFICES ASSUME IInv, ResetIndices("recv", "initRecv", "clearRecv") PROVE IInv'
  OBVIOUS
<1>1. /\ app = "initRecv" /\ app' = "clearRecv" /\ "recv" \in Table
      /\ UNCHANGED <<round, fd, S, R, ptr, freed, mutex, inbox, early, accepted, out, got, returned>>
  BY DEF ResetIndices, To, histVars, Table
<1>2. round \in Round /\ ptr["recv"] = round /\ table' = [table EXCEPT ![round]["recv"] = <<>>]
  BY <1>1 DEF IInv, SetUpInv, ResetIndices
<1> QED
  BY <1>1, <1>2, EmptyFacts, InitFacts

LEMMA ClearRecvStep == IInv /\ ClearSlots("recv", "clearRecv", "open") => IInv'
<1> SUFFICES ASSUME IInv, ClearSlots("recv", "clearRecv", "open") PROVE IInv'
  OBVIOUS
<1>1. /\ app = "clearRecv" /\ app' = "open" /\ "recv" \in Table
      /\ UNCHANGED <<round, fd, S, R, ptr, freed, mutex, inbox, early, accepted, out, got, returned>>
  BY DEF ClearSlots, To, histVars, Table
<1>2. /\ round \in Round /\ ptr["recv"] = round /\ table[round]["recv"] # Raw
      /\ Tab("recv") = table[round]["recv"]
  BY <1>1, TabFacts DEF IInv, SetUpInv, Round
<1>3. PICK t \in Seq(Slot) : t = table[round]["recv"] /\ Len(t) \in 0 .. MAX_MSG
  BY <1>1, <1>2, TabFacts DEF IInv, Round
<1>4. PICK s \in [1 .. Len(t) -> {Hole, round}] : table' = [table EXCEPT ![round]["recv"] = s]
  BY <1>2, <1>3 DEF ClearSlots
<1>5. /\ s \in Seq({Hole, round}) /\ s \in Seq(Slot) /\ Len(s) <= MAX_MSG /\ s # Raw
      /\ t = <<>> => s = <<>>
  BY <1>2, <1>3, <1>4, SlotsFacts
<1> QED
  BY <1>1, <1>2, <1>3, <1>4, <1>5, InitFacts

LEMMA GiveUpStep == IInv /\ GiveUp => IInv'
<1> SUFFICES ASSUME IInv, GiveUp PROVE IInv'
  OBVIOUS
<1> USE DEF GiveUp, threadVars, histVars
<1>1. ConnTypes'
  BY DEF IInv, ConnTypes, TypeOK, Table
<1>2. SetUpInv'
  BY DEF IInv, SetUpInv, Table
<1>3. TurnInv'
  BY DEF IInv, TurnInv, Setting
<1>4. UseInv'
  BY DEF IInv, UseInv
<1>5. OwnInv'
  BY DEF IInv, OwnInv
<1>6. SoundInv'
  BY DEF IInv, SoundInv, Setting
<1> QED
  BY <1>1, <1>2, <1>3, <1>4, <1>5, <1>6 DEF IInv

LEMMA my_sendStep == IInv /\ my_send => IInv'
<1> SUFFICES ASSUME IInv, my_send PROVE IInv'
  OBVIOUS
<1> DEFINE T == table[round]["send"]
<1>1. /\ app = "open" /\ "send" \in Table
      /\ UNCHANGED <<app, round, fd, R, ptr, freed, mutex, inbox, early, out, got, returned>>
  BY DEF my_send, Table
<1>2. /\ round \in Round /\ ptr["send"] = round /\ T \in Seq(Slot)
      /\ Len(T) \in 0 .. MAX_MSG
  BY <1>1, OpenTab
<1>3. /\ Len(T) < MAX_MSG /\ accepted' = Append(accepted, round)
      /\ table' = [table EXCEPT ![round]["send"] = Append(T, round)]
      /\ S' = IF S = "wait" THEN "start" ELSE S
  BY <1>2 DEF my_send, isfull, Woken
<1> HIDE DEF T
<1> DEFINE new == Append(T, round)
<1>4. /\ new \in Seq(Slot) /\ Len(new) <= MAX_MSG /\ new # <<>>
      /\ out \o new = Append(out \o T, round)
  <2>1. out \in Seq(Slot) /\ round \in Slot
    BY <1>2 DEF IInv, ConnTypes, Round, Slot
  <2> QED
    BY <2>1, <1>2, <1>3, AppendFacts
<1>5. table' = [table EXCEPT ![round]["send"] = new]
  BY <1>3
<1>6. accepted' \in Seq(Round)
  BY <1>2, <1>3, AppendFacts DEF IInv, ConnTypes
<1> HIDE DEF new
<1>7. Becomes(round, "send", new) /\ new # Raw
  <2>1. ConnTypes
    BY DEF IInv
  <2> QED
    BY <1>1, <1>2, <1>4, <1>5, <2>1, TableChange DEF Slot
<1>8. ConnTypes'
  <2>1. TypeOK'
    BY <1>1, <1>3, <1>7 DEF IInv, ConnTypes, TypeOK, Becomes, Round, Slot, Table
  <2> QED
    BY <2>1, <1>1, <1>6, <1>7 DEF IInv, ConnTypes, Becomes
<1>9. SetUpInv'
  BY <1>1, <1>2, <1>7 DEF IInv, SetUpInv, Becomes, Table
<1>10. TurnInv'
  BY <1>1, <1>2, <1>3, <1>7 DEF IInv, TurnInv, Setting
<1>11. UseInv'
  BY <1>1, <1>2, <1>3, <1>7 DEF IInv, UseInv
<1>12. OwnInv'
  BY <1>1, <1>2, <1>7 DEF IInv, OwnInv, Becomes, Table
<1>13. SoundInv'
  BY <1>1, <1>2, <1>3, <1>4, <1>7 DEF IInv, ConnTypes, SoundInv, Setting, Table, T, Becomes
<1> QED
  BY <1>8, <1>9, <1>10, <1>11, <1>12, <1>13 DEF IInv

\* my_recv does not find a slot that is NULL unless R has run early.
LEMMA my_recvFinds ==
  ASSUME IInv, my_recv, ~early
  PROVE  Head(table[round]["recv"]) # Hole
<1> DEFINE T == table[round]["recv"]
<1>1. app = "open" /\ "recv" \in Table
  BY DEF my_recv, Table
<1>2. ptr["recv"] = round /\ T \in Seq(Slot)
  BY <1>1, OpenTab
<1>3. T # <<>>
  BY <1>2 DEF my_recv
<1>4. got = returned \o T /\ got \in Seq(Round) /\ returned \in Seq(Slot)
  <2>1. got = returned \o T /\ got \in Seq(Round) /\ returned \in Seq(Round)
    BY <1>1 DEF IInv, ConnTypes, SoundInv
  <2> QED
    BY <2>1 DEF Round, Slot
<1> HIDE DEF T
<1>5. PICK n \in Nat, m \in Nat : n = Len(returned) /\ m = Len(T) /\ m # 0
  BY <1>2, <1>3, <1>4
<1>6. Len(got) = n + m /\ got[n + 1] = T[1]
  <2>1. /\ Len(returned \o T) = n + m
        /\ \A i \in 1 .. n + m :
             (returned \o T)[i] = IF i <= n THEN returned[i] ELSE T[i - n]
    BY <1>2, <1>4, <1>5, ConcatProperties
  <2>2. n + 1 \in 1 .. n + m /\ ~(n + 1 <= n) /\ (n + 1) - n = 1
    BY <1>5
  <2> QED
    BY <1>4, <2>1, <2>2
<1>7. got[n + 1] \in Round
  <2>1. n + 1 \in 1 .. Len(got)
    BY <1>5, <1>6
  <2> QED
    BY <1>4, <2>1, ElementOfSeq
<1>8. Head(T) = T[1]
  BY <1>2, <1>3
<1>9. Head(T) # Hole
  BY <1>6, <1>7, <1>8 DEF Hole, Round
<1> QED
  BY <1>9 DEF T

LEMMA my_recvTakes ==
  ASSUME IInv, my_recv, Head(table[round]["recv"]) # Hole
  PROVE  IInv'
<1> DEFINE T == table[round]["recv"]
           new == Tail(T)
<1>1. /\ app = "open" /\ "recv" \in Table /\ ptr["recv"] = round
      /\ UNCHANGED <<app, round, fd, S, ptr, freed, mutex, inbox, early, accepted, out, got>>
  <2>1. app = "open" /\ ptr["recv"] = round
    BY OpenTab DEF my_recv, Table
  <2> QED
    BY <2>1 DEF my_recv, Table
<1>2. /\ round \in Round /\ ptr["recv"] = round /\ T \in Seq(Slot)
      /\ Len(T) \in 0 .. MAX_MSG /\ T \in Seq({Hole, round})
  <2>1. T # Raw
    BY <1>1, OpenTab
  <2> QED
    BY <1>1, <2>1, OpenTab DEF IInv, OwnInv
<1>3. /\ T # <<>> /\ Head(T) # Hole /\ returned' = Append(returned, Head(T))
      /\ table' = [table EXCEPT ![round]["recv"] = new]
      /\ R' = IF R = "wait" THEN "start" ELSE R
  BY <1>2 DEF my_recv, Woken
<1> HIDE DEF T
<1>4. /\ new \in Seq(Slot) /\ new \in Seq({Hole, round}) /\ Len(new) = Len(T) - 1
      /\ Head(T) = round /\ returned' \o new = returned \o T
  <2>1. returned \in Seq(Slot)
    BY DEF IInv, ConnTypes, Round, Slot
  <2>2. /\ new \in Seq(Slot) /\ Len(new) = Len(T) - 1
        /\ returned' \o new = returned \o T
    BY <2>1, <1>2, <1>3, TailFacts
  <2>3. new \in Seq({Hole, round}) /\ Head(T) \in {Hole, round}
    BY <1>2, <1>3, HeadTailProperties
  <2> QED
    BY <1>3, <2>2, <2>3
<1>5. returned' \in Seq(Round) /\ returned' \in Seq({round})
  <2>1. returned \in Seq(Round) /\ returned \in Seq({round})
    BY DEF IInv, ConnTypes, OwnInv
  <2> QED
    BY <2>1, <1>2, <1>3, <1>4, AppendProperties
<1>6. table' = [table EXCEPT ![round]["recv"] = new]
  BY <1>3
<1> HIDE DEF new
<1>7. Becomes(round, "recv", new) /\ new # Raw
  <2>1. ConnTypes
    BY DEF IInv
  <2>2. Len(new) <= MAX_MSG
    BY <1>2, <1>4
  <2> QED
    BY <1>1, <1>2, <1>4, <1>6, <2>1, <2>2, TableChange DEF Slot
<1>8. ConnTypes'
  <2>1. TypeOK'
    BY <1>1, <1>3, <1>7 DEF IInv, ConnTypes, TypeOK, Becomes, Round, Slot, Table
  <2> QED
    BY <2>1, <1>1, <1>5, <1>7 DEF IInv, ConnTypes, Becomes
<1>9. SetUpInv'
  BY <1>1, <1>2, <1>7 DEF IInv, SetUpInv, Becomes, Table
<1>10. TurnInv'
  BY <1>1, <1>2, <1>3, <1>7 DEF IInv, TurnInv, Setting
<1>11. UseInv'
  BY <1>1, <1>2, <1>3, <1>7 DEF IInv, UseInv
<1>12. OwnInv'
  BY <1>1, <1>2, <1>4, <1>5, <1>7 DEF IInv, OwnInv, Becomes, Table
<1>13. SoundInv'
  <2>1. ASSUME ~early PROVE got' = returned' \o new /\ (R' = "put" => Len(new) < MAX_MSG)
    <3>1. got = returned \o T /\ (R = "put" => Len(T) < MAX_MSG)
      BY <2>1, <1>1 DEF IInv, SoundInv, T
    <3>2. R' = "put" => Len(new) < MAX_MSG
      BY <1>2, <1>3, <1>4, <3>1
    <3> QED
      BY <1>1, <1>4, <3>1, <3>2
  <2>2. table'[round]["recv"] = new /\ table'[round]["send"] = table[round]["send"]
    BY <1>1, <1>2, <1>7 DEF Becomes, Table
  <2> QED
    BY <1>1, <2>1, <2>2 DEF IInv, SoundInv, Setting
<1> QED
  BY <1>8, <1>9, <1>10, <1>11, <1>12, <1>13 DEF IInv

LEMMA my_recvStep == IInv /\ my_recv => IInv'
<1> SUFFICES ASSUME IInv, my_recv PROVE IInv'
  OBVIOUS
<1>1. /\ app = "open" /\ ptr["recv"] = round
      /\ UNCHANGED <<round, fd, S, ptr, freed, mutex, inbox, early, accepted, out, got>>
  <2>1. app = "open" /\ ptr["recv"] = round
    BY OpenTab DEF my_recv, Table
  <2> QED
    BY <2>1 DEF my_recv
<1>2. CASE Head(table[round]["recv"]) = Hole
  <2>1. app' = "crashed" /\ UNCHANGED <<table, returned, R>>
    BY <1>1, <1>2 DEF my_recv
  <2>2. early /\ early \in BOOLEAN
    BY <1>2, my_recvFinds DEF IInv, ConnTypes, TypeOK
  <2> QED
    BY <1>1, <2>1, <2>2, EndStep DEF threadVars, histVars
<1> QED
  BY <1>2, my_recvTakes

LEMMA my_closeStep == IInv /\ my_close => IInv'
<1> SUFFICES ASSUME IInv, my_close PROVE IInv'
  OBVIOUS
<1> USE DEF my_close, histVars
<1>1. ConnTypes'
  BY DEF IInv, ConnTypes, TypeOK, SetUpInv, Table, Round
<1>2. SetUpInv'
  BY DEF IInv, SetUpInv, Table
<1>3. TurnInv'
  BY DEF IInv, ConnTypes, TypeOK, SetUpInv, TurnInv, Setting, Round
<1>4. UseInv'
  BY DEF IInv, UseInv
<1>5. OwnInv'
  BY DEF IInv, OwnInv
<1>6. SoundInv'
  BY DEF IInv, SoundInv, Setting
<1> QED
  BY <1>1, <1>2, <1>3, <1>4, <1>5, <1>6 DEF IInv

LEMMA STestStep == IInv /\ STest => IInv'
<1> SUFFICES ASSUME IInv, STest PROVE IInv'
  OBVIOUS
<1> USE DEF STest, Looks, Crash, Tab, MayBeEmpty
<1>1. ConnTypes'
  BY DEF IInv, ConnTypes, TypeOK, Table
<1>2. SetUpInv'
  BY DEF IInv, SetUpInv, TurnInv, Setting
<1>3. TurnInv'
  BY DEF IInv, TurnInv, Setting
<1>4. UseInv'
  BY DEF IInv, UseInv
<1>5. OwnInv'
  BY DEF IInv, OwnInv
<1>6. SoundInv'
  <2>1. CASE early'
    BY <2>1 DEF SoundInv
  <2>2. CASE ~early'
    <3>1. ~early /\ app = "open"
      BY <2>2 DEF IInv, TurnInv
    <3>2. Tab("send") # Null /\ Tab("send") = table[round]["send"]
      BY <3>1, OpenTab DEF Table
    <3>3. /\ app' = "open" /\ UNCHANGED <<round, R, table, accepted, out, got, returned>>
          /\ S' = "take" => Tab("send") # <<>>
      BY <3>1, <3>2
    <3> QED
      BY <3>1, <3>2, <3>3 DEF IInv, SoundInv, Setting
  <2> QED
    BY <2>1, <2>2
<1> QED
  BY <1>1, <1>2, <1>3, <1>4, <1>5, <1>6 DEF IInv

LEMMA STakeStep == IInv /\ STake => IInv'
<1> SUFFICES ASSUME IInv, STake PROVE IInv'
  OBVIOUS
<1> DEFINE T == Tab("send")
           k == ptr["send"]
<1>1. /\ S = "take" /\ Looks /\ k # 0 /\ app # "closed" /\ "send" \in Table /\ ConnTypes
      /\ UNCHANGED <<round, fd, ptr, freed, inbox, accepted, returned>>
  BY DEF STake, IInv, UseInv, TurnInv, Table
<1>2. /\ k \in Round /\ T = table[k]["send"] /\ T # Null
      /\ T # Raw => T \in Seq(Slot) /\ Len(T) \in 0 .. MAX_MSG
  BY <1>1, TabFacts
<1>3. early' \in BOOLEAN /\ (early => early')
  BY <1>1 DEF Looks, ConnTypes, TypeOK
<1>4. ASSUME ~early'
      PROVE  /\ ~early /\ app = "open" /\ k = round
             /\ T \notin {Raw, <<>>} /\ ptr["send"] \notin freed
             /\ accepted = out \o T /\ table[round]["send"] = T
  <2>1. ~early /\ app = "open"
    BY <1>1, <1>4 DEF Looks
  <2>2. k = round /\ T = table[round]["send"] /\ T # Raw
    BY <1>1, <2>1, OpenTab
  <2> QED
    BY <1>1, <2>1, <2>2 DEF IInv, SoundInv, TurnInv
<1>5. CASE (T \in {Raw, <<>>} \/ ptr["send"] \in freed) /\ Crash
  BY <1>1, <1>3, <1>4, <1>5, EndStep DEF Crash, threadVars, histVars
<1>8. CASE /\ T = Raw /\ out' = Append(out, Hole)
           /\ S' = "start" /\ mutex' = [mutex EXCEPT !["send"] = "none"]
           /\ UNCHANGED <<app, R, table, got>>
  <2>1. early'
    BY <1>4, <1>8
  <2>2. out' \in Seq(Slot)
    <3>1. out \in Seq(Slot) /\ Hole \in Slot
      BY <1>1 DEF ConnTypes, Hole, Slot
    <3> QED
      BY <1>8, <3>1, AppendProperties
  <2>3. ConnTypes'
    <3>1. TypeOK'
      BY <1>1, <1>3, <1>8 DEF ConnTypes, TypeOK, Table
    <3> QED
      BY <3>1, <1>1, <1>8, <2>2 DEF ConnTypes
  <2>4. SetUpInv' /\ OwnInv'
    BY <1>1, <1>8 DEF IInv, SetUpInv, OwnInv
  <2>5. TurnInv' /\ UseInv'
    BY <1>1, <1>8 DEF IInv, TurnInv, UseInv, Setting
  <2> QED
    BY <2>1, <2>3, <2>4, <2>5 DEF IInv, SoundInv
<1>6. CASE app' = "exited" /\ UNCHANGED <<S, R, table, mutex, out, got>>
  BY <1>1, <1>3, <1>6, EndStep DEF threadVars, histVars
<1>7. CASE /\ T \notin {Raw, <<>>}
           /\ table' = [table EXCEPT ![ptr["send"]]["send"] = Tail(@)]
           /\ out' = Append(out, Head(T))
           /\ S' = "start" /\ mutex' = [mutex EXCEPT !["send"] = "none"]
           /\ UNCHANGED <<app, R, got>>
  <2> DEFINE new == Tail(T)
  <2>1. table' = [table EXCEPT ![k]["send"] = new]
    BY <1>2, <1>7
  <2>2. T \in Seq(Slot) /\ T # <<>> /\ Len(T) \in 0 .. MAX_MSG /\ T # Raw
    BY <1>2, <1>7
  <2> HIDE DEF T, k
  <2>3. /\ new \in Seq(Slot) /\ Len(new) <= MAX_MSG /\ Head(T) \in Slot
        /\ out' \in Seq(Slot) /\ out' \o new = out \o T
    <3>1. out \in Seq(Slot)
      BY <1>1 DEF ConnTypes
    <3>2. /\ new \in Seq(Slot) /\ Len(new) = Len(T) - 1 /\ Head(T) \in Slot
          /\ Append(out, Head(T)) \o new = out \o T
      BY <2>2, <3>1, TailFacts
    <3>3. Append(out, Head(T)) \in Seq(Slot)
      BY <3>1, <3>2, AppendProperties
    <3> QED
      BY <1>7, <2>2, <3>2, <3>3
  <2> HIDE DEF new
  <2>4. Becomes(k, "send", new) /\ new # Raw
    BY <1>1, <1>2, <2>1, <2>3, TableChange DEF Slot
  <2>5. ConnTypes'
    <3>1. TypeOK'
      BY <1>1, <1>3, <1>7, <2>4 DEF ConnTypes, TypeOK, Becomes, Round, Slot, Table
    <3> QED
      BY <3>1, <1>1, <1>7, <2>3, <2>4 DEF ConnTypes, Becomes
  <2>6. SetUpInv'
    <3>1. \A j \in Round, y \in Table :
            (table'[j][y] = Raw) <=> (table[j][y] = Raw)
      BY <1>2, <2>2, <2>4 DEF Becomes
    <3> QED
      BY <1>1, <1>7, <3>1 DEF IInv, SetUpInv, Table
  <2>7. TurnInv' /\ UseInv'
    BY <1>1, <1>7 DEF IInv, TurnInv, UseInv, Setting
  <2>8. OwnInv'
    <3>1. \A j \in Round : table'[j]["recv"] = table[j]["recv"]
      BY <2>4 DEF Becomes, Table
    <3> QED
      BY <1>1, <3>1 DEF IInv, OwnInv
  <2>9. SoundInv'
    <3>1. CASE early'
      BY <3>1 DEF SoundInv
    <3>2. CASE ~early'
      <4>1. table'[round]["send"] = new /\ table'[round]["recv"] = table[round]["recv"]
        BY <1>1, <1>2, <1>4, <2>4, <3>2 DEF Becomes, Table
      <4> QED
        BY <1>1, <1>4, <1>7, <2>3, <3>2, <4>1 DEF IInv, SoundInv, Setting
    <3> QED
      BY <3>1, <3>2
  <2> QED
    BY <2>5, <2>6, <2>7, <2>8, <2>9 DEF IInv
<1> QED
  BY <1>5, <1>6, <1>7, <1>8 DEF STake

LEMMA RReceiveStep == IInv /\ RReceive => IInv'
<1> SUFFICES ASSUME IInv, RReceive PROVE IInv'
  OBVIOUS
<1> USE DEF RReceive, histVars
<1>1. ConnTypes'
  BY DEF IInv, ConnTypes, TypeOK, Table
<1>2. SetUpInv'
  BY DEF IInv, SetUpInv, Table
<1>3. TurnInv'
  BY DEF IInv, TurnInv, Setting
<1>4. UseInv'
  BY DEF IInv, UseInv
<1>5. OwnInv'
  BY DEF IInv, OwnInv
<1>6. SoundInv'
  BY DEF IInv, SoundInv, Setting
<1> QED
  BY <1>1, <1>2, <1>3, <1>4, <1>5, <1>6 DEF IInv

LEMMA RFailStep == IInv /\ RFail => IInv'
<1> SUFFICES ASSUME IInv, RFail PROVE IInv'
  OBVIOUS
<1> USE DEF RFail, threadVars, histVars
<1>1. ConnTypes'
  BY DEF IInv, ConnTypes, TypeOK, Table
<1>2. SetUpInv'
  BY DEF IInv, SetUpInv, TurnInv
<1>3. TurnInv'
  BY DEF IInv, TurnInv, Setting
<1>4. UseInv'
  BY DEF IInv, UseInv
<1>5. OwnInv'
  BY DEF IInv, OwnInv
<1>6. SoundInv'
  BY DEF IInv, SoundInv, Setting
<1> QED
  BY <1>1, <1>2, <1>3, <1>4, <1>5, <1>6 DEF IInv

LEMMA RTestStep == IInv /\ RTest => IInv'
<1> SUFFICES ASSUME IInv, RTest PROVE IInv'
  OBVIOUS
<1> USE DEF RTest, Looks, Crash, Tab, MayBeFull, MayHaveRoom, isfull
<1>1. ConnTypes'
  BY DEF IInv, ConnTypes, TypeOK, Table
<1>2. SetUpInv'
  BY DEF IInv, SetUpInv, TurnInv
<1>3. TurnInv'
  BY DEF IInv, TurnInv, Setting
<1>4. UseInv'
  BY DEF IInv, UseInv
<1>5. OwnInv'
  BY DEF IInv, OwnInv
<1>6. SoundInv'
  <2>1. CASE early'
    BY <2>1 DEF SoundInv
  <2>2. CASE ~early'
    <3>1. ~early /\ app = "open"
      BY <2>2 DEF IInv, TurnInv
    <3>2. /\ Tab("recv") # Null /\ Tab("recv") # Raw /\ Tab("recv") = table[round]["recv"]
          /\ Len(Tab("recv")) \in 0 .. MAX_MSG
      BY <3>1, OpenTab DEF Table
    <3>3. /\ app' = "open" /\ UNCHANGED <<round, S, table, accepted, out, got, returned>>
          /\ R' = "put" => Len(Tab("recv")) < MAX_MSG
      BY <3>1, <3>2
    <3> QED
      BY <3>1, <3>2, <3>3 DEF IInv, SoundInv, Setting
  <2> QED
    BY <2>1, <2>2
<1> QED
  BY <1>1, <1>2, <1>3, <1>4, <1>5, <1>6 DEF IInv

LEMMA RPutStep == IInv /\ RPut => IInv'
<1> SUFFICES ASSUME IInv, RPut PROVE IInv'
  OBVIOUS
<1> DEFINE T == Tab("recv")
           k == ptr["recv"]
<1>1. /\ R = "put" /\ Looks /\ k # 0 /\ app # "closed" /\ "recv" \in Table /\ ConnTypes
      /\ UNCHANGED <<round, fd, ptr, freed, inbox, accepted, returned>>
  BY DEF RPut, IInv, UseInv, TurnInv, Table
<1>2. /\ k \in Round /\ T = table[k]["recv"] /\ T # Null /\ round \in Round
      /\ T # Raw => T \in Seq(Slot) /\ Len(T) \in 0 .. MAX_MSG
  BY <1>1, TabFacts DEF IInv, SetUpInv
<1>3. early' \in BOOLEAN /\ (early => early')
  BY <1>1 DEF Looks, ConnTypes, TypeOK
<1>4. ASSUME ~early'
      PROVE  /\ ~early /\ app = "open" /\ k = round
             /\ T # Raw /\ Len(T) < MAX_MSG
             /\ got = returned \o T /\ table[round]["recv"] = T
  <2>1. ~early /\ app = "open"
    BY <1>1, <1>4 DEF Looks
  <2>2. k = round /\ T = table[round]["recv"] /\ T # Raw
    BY <1>1, <2>1, OpenTab
  <2> QED
    BY <1>1, <2>1, <2>2 DEF IInv, SoundInv
<1>5. CASE T = Raw /\ Crash
  BY <1>1, <1>3, <1>4, <1>5, EndStep DEF Crash, threadVars, histVars
<1>6. CASE /\ table' = IF T = Raw \/ Len(T) = MAX_MSG THEN table
                       ELSE [table EXCEPT ![ptr["recv"]]["recv"] = Append(@, round)]
           /\ got' = Append(got, round)
           /\ R' = "recv" /\ mutex' = [mutex EXCEPT !["recv"] = "none"]
           /\ UNCHANGED <<app, S, out>>
  <2> DEFINE new == Append(T, round)
  <2>1. got' \in Seq(Round)
    BY <1>1, <1>2, <1>6, AppendFacts DEF ConnTypes
  <2>2. TurnInv' /\ UseInv'
    BY <1>1, <1>6 DEF IInv, TurnInv, UseInv, Setting
  <2>3. CASE T = Raw \/ Len(T) = MAX_MSG
    <3>1. table' = table /\ early'
      BY <1>3, <1>4, <1>6, <2>3 DEF ConnTypes, TypeOK
    <3> HIDE DEF T, k
    <3>2. ConnTypes'
      <4>1. TypeOK'
        BY <1>1, <1>3, <1>6, <3>1 DEF ConnTypes, TypeOK, Table
      <4> QED
        BY <4>1, <1>1, <1>6, <2>1, <3>1 DEF ConnTypes
    <3>3. SetUpInv' /\ OwnInv' /\ SoundInv'
      BY <1>1, <1>6, <3>1 DEF IInv, SetUpInv, OwnInv, SoundInv
    <3> QED
      BY <2>2, <3>2, <3>3 DEF IInv
  <2>4. CASE T # Raw /\ Len(T) # MAX_MSG
    <3>1. table' = [table EXCEPT ![k]["recv"] = new]
      BY <1>2, <1>6, <2>4
    <3>2. T \in Seq(Slot) /\ Len(T) < MAX_MSG
      BY <1>2, <2>4
    <3> HIDE DEF T, k
    <3>3. /\ new \in Seq(Slot) /\ Len(new) = Len(T) + 1
          /\ returned \o new = Append(returned \o T, round)
      BY <1>1, <1>2, <3>2, AppendFacts DEF ConnTypes, Round, Slot
    <3>4. T \in Seq({Hole, round}) => new \in Seq({Hole, round})
      BY AppendProperties
    <3> HIDE DEF new
    <3>5. Becomes(k, "recv", new) /\ new # Raw
      <4>1. Len(new) <= MAX_MSG
        BY <3>2, <3>3
      <4> QED
        BY <1>1, <1>2, <3>1, <3>3, <4>1, TableChange DEF Slot
    <3>6. ConnTypes'
      <4>1. TypeOK'
        BY <1>1, <1>3, <1>6, <3>5 DEF ConnTypes, TypeOK, Becomes, Round, Slot, Table
      <4> QED
        BY <4>1, <1>1, <1>6, <2>1, <3>5 DEF ConnTypes, Becomes
    <3>7. SetUpInv'
      <4>1. \A j \in Round, y \in Table :
              (table'[j][y] = Raw) <=> (table[j][y] = Raw)
        BY <1>2, <2>4, <3>5 DEF Becomes
      <4> QED
        BY <1>1, <1>6, <4>1 DEF IInv, SetUpInv, Table
    <3>8. OwnInv'
      <4>1. table'[round]["recv"] = IF k = round THEN new ELSE table[round]["recv"]
        BY <1>1, <1>2, <3>5 DEF Becomes
      <4>2. k = round => T \in Seq({Hole, round})
        BY <1>2, <2>4 DEF IInv, OwnInv
      <4> QED
        BY <1>1, <1>2, <3>4, <4>1, <4>2 DEF IInv, OwnInv
    <3>9. SoundInv'
      <4>1. CASE early'
        BY <4>1 DEF SoundInv
      <4>2. CASE ~early'
        <5>1. table'[round]["recv"] = new /\ table'[round]["send"] = table[round]["send"]
          BY <1>1, <1>2, <1>4, <3>5, <4>2 DEF Becomes, Table
        <5> QED
          BY <1>1, <1>4, <1>6, <3>3, <4>2, <5>1 DEF IInv, SoundInv, Setting
      <4> QED
        BY <4>1, <4>2
    <3> QED
      BY <2>2, <3>6, <3>7, <3>8, <3>9 DEF IInv
  <2> QED
    BY <2>3, <2>4
<1> QED
  BY <1>1, <1>5, <1>6 DEF RPut

-----------------------------------------------------------------------------
(***************************************************************************)
(* The invariant holds.                                                    *)
(***************************************************************************)
LEMMA InitIInv == Init => IInv
<1> SUFFICES ASSUME Init PROVE IInv
  OBVIOUS
<1> USE DEF Init, Round, Table
<1>1. <<>> \in Seq(Round) /\ <<>> \in Seq({round})
  OBVIOUS
<1>2. ConnTypes
  <2>1. 0 \in 0 .. Rounds /\ 0 \in 0 .. Messages
    OBVIOUS
  <2>2. \A k \in 1 .. Rounds, x \in Table : table[k][x] = Raw
    OBVIOUS
  <2>3. ptr \in [Table -> 0 .. Rounds] /\ mutex \in [Table -> {"none", "S", "R", "dead"}]
    BY <2>1
  <2>4. TypeOK
    BY <2>1, <2>2, <2>3 DEF TypeOK
  <2> QED
    BY <1>1, <2>4 DEF ConnTypes
<1>3. SetUpInv /\ TurnInv /\ UseInv /\ OwnInv /\ SoundInv
  BY <1>1 DEF SetUpInv, TurnInv, UseInv, OwnInv, SoundInv, Setting
<1> QED
  BY <1>2, <1>3 DEF IInv

LEMMA NextIInv == IInv /\ [Next]_vars => IInv'
<1> SUFFICES ASSUME IInv, [Next]_vars PROVE IInv'
  OBVIOUS
<1>1. CASE program
  <2>1. CASE init_connection
    BY <2>1, InitLocksStep, CreateSStep, CreateRStep, AllocSendStep, AllocRecvStep,
       ResetSendStep, ClearSendStep, ResetRecvStep, ClearRecvStep DEF init_connection, initqueue
  <2> QED
    BY <1>1, <2>1, EstablishStep, GiveUpStep, my_sendStep, my_recvStep, my_closeStep
       DEF program
<1>2. CASE threads
  BY <1>2, STestStep, STakeStep, RReceiveStep, RFailStep, RTestStep, RPutStep DEF threads
<1>3. CASE UNCHANGED vars
  <2> USE <1>3 DEF vars, threadVars, histVars
  <2>1. ConnTypes'
    BY DEF IInv, ConnTypes, TypeOK
  <2>2. SetUpInv' /\ TurnInv' /\ UseInv' /\ OwnInv' /\ SoundInv'
    BY DEF IInv, SetUpInv, TurnInv, UseInv, OwnInv, SoundInv
  <2> QED
    BY <2>1, <2>2 DEF IInv
<1> QED
  BY <1>1, <1>2, <1>3 DEF Next

LEMMA Invariance == Spec => []IInv
  BY InitIInv, NextIInv, PTL DEF Spec

-----------------------------------------------------------------------------
(***************************************************************************)
(* Of every connection: the variables of the set-up have their types.      *)
(***************************************************************************)
THEOREM SetUpTypeCorrect == Spec => []TypeOK
<1>1. IInv => TypeOK
  BY DEF IInv, ConnTypes
<1> QED
  BY <1>1, Invariance, PTL

(***************************************************************************)
(* The program never gets a message of another connection, whatever the    *)
(* connections before have left behind and however early a thread runs.    *)
(***************************************************************************)
THEOREM OnlyOwnMessages == Spec => []OwnMessages
<1>1. IInv => OwnMessages
  <2> SUFFICES ASSUME IInv, NEW j \in 1 .. Len(returned) PROVE returned[j] = round
    BY DEF OwnMessages
  <2>1. returned \in Seq({round})
    BY DEF IInv, OwnInv
  <2>2. returned[j] \in {round}
    BY <2>1, ElementOfSeq
  <2> QED
    BY <2>2
<1> QED
  BY <1>1, Invariance, PTL

(***************************************************************************)
(* Threads that do not run before init_connection has returned lose no     *)
(* message and use no memory that they must not use.                       *)
(***************************************************************************)
THEOREM SetUpSound == Spec => []SoundUnlessEarly
<1>1. IInv => SoundUnlessEarly
  <2> SUFFICES ASSUME IInv, ~early
               PROVE  /\ app # "crashed"
                      /\ app = "open" => /\ accepted = out \o Tab("send")
                                         /\ got = returned \o Tab("recv")
    BY DEF SoundUnlessEarly
  <2>1. app = "open" => Tab("send") = table[round]["send"] /\ Tab("recv") = table[round]["recv"]
    BY OpenTab DEF Table
  <2> QED
    BY <2>1 DEF IInv, SoundInv
<1> QED
  BY <1>1, Invariance, PTL
=============================================================================
