----------------------------- MODULE HttpServer -----------------------------
(***************************************************************************)
(* MyHTTP.c: the parent that accepts and forks, and its children, which    *)
(* share nothing but the files.  HttpExchange shows how one child receives *)
(* and sends; here a file is a sequence of pieces, what one chunk of a PUT *)
(* writes, and every access to a file is a step of its own, so that the    *)
(* children meet in the files wherever the code lets them.                 *)
(*                                                                         *)
(* A path keeps its inode (no child removes a file), so a child that has   *)
(* the file open sees what the others do to it.  The log is one of the     *)
(* files: a request may name it.                                           *)
(***************************************************************************)
EXTENDS Integers, Sequences

CONSTANTS Child,    \* the connections, each served by a child of its own
          Path,     \* the files
          Log,      \* AccessLog.txt
          None,     \* no file
          Requests, \* what clients may ask: method, path, the length that a PUT announces
            \* in pieces, and how many pieces its client sends, if they all arrive
          Disk      \* the writer of the pieces that are there at the beginning

Piece == [by : Child \union {Disk}, no : Nat \ {0}]

ASSUME ServerAssumption ==
  /\ Log \in Path /\ Disk \notin Child /\ None \notin Seq(Piece)
  /\ Requests \subseteq
       [method : {"GET", "PUT", "other"}, path : Path, length : Nat, pieces : Nat]

\* Pieces i to j of what c sends.
Part(c, i, j) == [k \in 1 .. (j - i + 1) |-> [by |-> c, no |-> i + k - 1]]

VARIABLES
  parent,   \* "starting", "accept" or "exited"
  request,  \* request[c]: what the client of c asks
  pc,       \* pc[c]: where the child is
  store,    \* store[p]: the content of the file, or None
  got,      \* got[c]: how many pieces getRequest has received
  first,    \* first[c]: how many of them came with the header
  declared, \* declared[c]: the Content-Length of the answer to a GET
  sent,     \* sent[c]: the pieces sent to the client
  clash     \* clash[c]: another child has written to the file while c used it

vars == <<parent, request, pc, store, got, first, declared, sent, clash>>

Init ==
  /\ parent = "starting"
  /\ request \in [Child -> Requests]
  /\ pc = [c \in Child |-> "connecting"]
  /\ store \in [Path -> {None, Part(Disk, 1, 2)}]
  /\ got = [c \in Child |-> 0] /\ first = [c \in Child |-> 0]
  /\ declared = [c \in Child |-> 0] /\ sent = [c \in Child |-> <<>>]
  /\ clash = [c \in Child |-> FALSE]

PathOf(c) == request[c].path
File(c) == store[PathOf(c)]

Asks(c, m) == request[c].method = m

Moves(c, from, to) == pc[c] = from /\ pc' = [pc EXCEPT ![c] = to]

\* A child exits, at once or with an answer that is only a header.
Exits(c, from) == Moves(c, from, "ended") /\ UNCHANGED <<store, got, first, declared, sent>>

-----------------------------------------------------------------------------
(***************************************************************************)
(* The parent.                                                             *)
(***************************************************************************)
Listen ==
  /\ parent = "starting" /\ parent' = "accept"
  /\ UNCHANGED <<pc, store, got, first, declared, sent>>

\* socket or bind fails, or accept, which also meets a listen that has failed.
ParentFails ==
  /\ parent \in {"starting", "accept"} /\ parent' = "exited"
  /\ UNCHANGED <<pc, store, got, first, declared, sent>>

Accept(c) ==
  /\ parent = "accept" /\ Moves(c, "connecting", "header")
  /\ UNCHANGED <<parent, store, got, first, declared, sent>>

\* fork fails, which the parent takes for its own side: it closes the
\* connection, and nobody answers.
ForkFails(c) ==
  parent = "accept" /\ Exits(c, "connecting") /\ UNCHANGED parent

-----------------------------------------------------------------------------
(***************************************************************************)
(* getRequest.                                                             *)
(***************************************************************************)
\* 400: not a request of GET or PUT.
BadRequest(c) == Asks(c, "other") /\ Exits(c, "header")

\* stat: 404, 403 or 304.
Stat(c) ==
  /\ Asks(c, "GET")
  /\ \/ Exits(c, "header")
     \/ /\ File(c) # None /\ Moves(c, "header", "open")
        /\ UNCHANGED <<store, got, first, declared, sent>>

\* fopen "wb" fails: 403.
Forbidden(c) == Asks(c, "PUT") /\ Exits(c, "header")

\* Mutant: what came with the header is counted with the LF before it.
Truncate_withLF(c) ==
  /\ Asks(c, "PUT") /\ Moves(c, "header", "write")
  /\ store' = [store EXCEPT ![PathOf(c)] = <<>>]
  /\ first' \in {[first EXCEPT ![c] = n + 1] : n \in 0 .. request[c].pieces}
  /\ UNCHANGED <<got, declared, sent>>

\* fopen "wb": the file is there and empty.  What has come with the header may be
\* more than was announced.
Truncate(c) ==
  /\ Asks(c, "PUT") /\ Moves(c, "header", "write")
  /\ store' = [store EXCEPT ![PathOf(c)] = <<>>]
  /\ first' \in {[first EXCEPT ![c] = n] : n \in 0 .. request[c].pieces}
  /\ UNCHANGED <<got, declared, sent>>

\* The content s with new written over its beginning.
Over(s, new) == new \o SubSeq(s, Len(new) + 1, Len(s))

\* fclose writes what came with the header, from the beginning of the file.
WriteFirst(c) ==
  /\ Moves(c, "write", "receive")
  /\ store' = [store EXCEPT ![PathOf(c)] = Over(@, Part(c, 1, first[c]))]
  /\ got' = [got EXCEPT ![c] = first[c]]
  /\ UNCHANGED <<first, declared, sent>>

\* Mutant: every chunk is written from the beginning ("wb" for "ab").
AppendChunk_over(c) ==
  \E n \in got[c] + 1 .. request[c].pieces :
    /\ Moves(c, "receive", IF n >= request[c].length THEN "respond" ELSE "receive")
    /\ store' = [store EXCEPT ![PathOf(c)] = Part(c, got[c] + 1, n)]
    /\ got' = [got EXCEPT ![c] = n]
    /\ UNCHANGED <<first, declared, sent>>

\* Mutant: the beginning of the file is written with the later chunks again.
AppendChunk_again(c) ==
  \E n \in got[c] + 1 .. request[c].pieces :
    /\ Moves(c, "receive", IF n >= request[c].length THEN "respond" ELSE "receive")
    /\ store' = [store EXCEPT ![PathOf(c)] = @ \o Part(c, 1, n)]
    /\ got' = [got EXCEPT ![c] = n]
    /\ UNCHANGED <<first, declared, sent>>

\* A later chunk is appended ("ab"), whatever was announced: only then does the
\* child look whether it has enough.
AppendChunk(c) ==
  \E n \in got[c] + 1 .. request[c].pieces :
    /\ Moves(c, "receive", IF n >= request[c].length THEN "respond" ELSE "receive")
    /\ store' = [store EXCEPT ![PathOf(c)] = @ \o Part(c, got[c] + 1, n)]
    /\ got' = [got EXCEPT ![c] = n]
    /\ UNCHANGED <<first, declared, sent>>

\* The client goes away, at the latest when it has waited too long.
Disconnected(c) == \E from \in {"header", "receive"} : Exits(c, from)

-----------------------------------------------------------------------------
(***************************************************************************)
(* The rest of the child's main.                                           *)
(***************************************************************************)
\* fopen "rb" and ftell.
Measure(c) ==
  /\ Moves(c, "open", "date")
  /\ declared' = [declared EXCEPT ![c] = Len(File(c))]
  /\ UNCHANGED <<store, got, first, sent>>

CannotOpen(c) == Exits(c, "open")

\* getFileLastModified and the header.
SendHeader(c) ==
  /\ Moves(c, "date", "read") /\ UNCHANGED <<store, got, first, declared, sent>>

\* fread reads on from where it has come to.
ReadOn(c) ==
  /\ Moves(c, "read", "read")
  /\ \E n \in Len(sent[c]) + 1 .. Len(File(c)) :
       sent' = [sent EXCEPT ![c] = @ \o SubSeq(File(c), Len(@) + 1, n)]
  /\ UNCHANGED <<store, got, first, declared>>

\* Mutant: the answer ends when as much as was announced has been read.
ReadEnd_early(c) ==
  /\ Moves(c, "read", "log") /\ Len(sent[c]) + 1 >= Len(File(c))
  /\ UNCHANGED <<store, got, first, declared, sent>>

ReadEnd(c) ==
  /\ Moves(c, "read", "log") /\ Len(sent[c]) >= Len(File(c))
  /\ UNCHANGED <<store, got, first, declared, sent>>

SendFails(c) ==
  /\ \E from \in {"date", "read", "respond"} : Moves(c, from, "failed")
  /\ UNCHANGED <<store, got, first, declared, sent>>

\* The header that answers a PUT.
Respond(c) ==
  Moves(c, "respond", "log") /\ UNCHANGED <<store, got, first, declared, sent>>

\* exit writes the line of fprintf at the end of the log.
logRequest(c) ==
  /\ \E from \in {"log", "failed"} : Moves(c, from, "ended")
  /\ store' = [store EXCEPT ![Log] = (IF @ = None THEN <<>> ELSE @)
                                       \o <<[by |-> c, no |-> request[c].pieces + 1]>>]
  /\ UNCHANGED <<got, first, declared, sent>>

\* SIGPIPE.
Killed(c) == \E from \in {"date", "read", "respond"} : Exits(c, from)

-----------------------------------------------------------------------------
\* c has its file in use: it has begun to write or measure it, and has not come
\* to the answer or the end of the reading.
Uses(c) ==
  pc[c] \in IF Asks(c, "PUT") THEN {"write", "receive", "respond"} ELSE {"date", "read"}

\* c, in a step, may write to a file that others use.
Meets(c) ==
  clash' = [d \in Child |->
    clash[d] \/ (d # c /\ Uses(d) /\ store'[PathOf(d)] # store[PathOf(d)])]

getRequest(c) ==
  \/ BadRequest(c) \/ Stat(c) \/ Forbidden(c) \/ Truncate(c) \/ WriteFirst(c)
  \/ AppendChunk(c) \/ Disconnected(c)

answer(c) ==
  \/ Measure(c) \/ CannotOpen(c) \/ SendHeader(c) \/ ReadOn(c) \/ ReadEnd(c)
  \/ SendFails(c) \/ Respond(c) \/ logRequest(c) \/ Killed(c)

Next ==
  \/ (Listen \/ ParentFails) /\ UNCHANGED <<request, clash>>
  \/ \E c \in Child :
       /\ \/ Accept(c) \/ ForkFails(c)
          \/ (getRequest(c) \/ answer(c)) /\ UNCHANGED parent
       /\ Meets(c) /\ UNCHANGED request

Spec == Init /\ [][Next]_vars

-----------------------------------------------------------------------------
(***************************************************************************)
(* Properties.                                                             *)
(***************************************************************************)
TypeOK ==
  /\ parent \in {"starting", "accept", "exited"}
  /\ request \in [Child -> Requests]
  /\ pc \in [Child -> {"connecting", "header", "open", "date", "read", "write",
                       "receive", "respond", "log", "failed", "ended"}]
  /\ store \in [Path -> Seq(Piece) \union {None}]
  /\ got \in [Child -> Nat] /\ first \in [Child -> Nat]
  /\ \A c \in Child : got[c] <= request[c].pieces /\ first[c] <= request[c].pieces
  /\ declared \in [Child -> Nat]
  /\ sent \in [Child -> Seq(Piece)]
  /\ clash \in [Child -> BOOLEAN]

(***************************************************************************)
(* A PUT that no other child has written into stores what has come of it,  *)
(* and answers 200 only when that is at least what was announced.          *)
(***************************************************************************)
PutAlone ==
  \A c \in Child :
    Asks(c, "PUT") /\ ~clash[c] /\ pc[c] \in {"receive", "respond"}
      => /\ File(c) = Part(c, 1, got[c])
         /\ pc[c] = "respond" => got[c] >= request[c].length

(***************************************************************************)
(* The Content-Length of the answer to a GET is the length of what is sent *)
(* if no other child has written to the file between the ftell and the     *)
(* last fread.                                                             *)
(***************************************************************************)
GetAlone ==
  \A c \in Child :
    Asks(c, "GET") /\ ~clash[c]
      => /\ pc[c] = "log" => Len(sent[c]) = declared[c]
         /\ pc[c] \in {"read", "failed"} => Len(sent[c]) <= declared[c]

(***************************************************************************)
(* Whatever the children do to each other's files, the pieces of one PUT   *)
(* are in a file, and in the answer to a GET, in the order in which they   *)
(* were sent, none of them twice; its line in the log comes after them.    *)
(***************************************************************************)
Ascends(s) ==
  \A i, j \in 1 .. Len(s) : i < j /\ s[i].by = s[j].by => s[i].no < s[j].no

InOrder ==
  /\ \A p \in Path : store[p] # None => Ascends(store[p])
  /\ \A c \in Child : Ascends(sent[c])

-----------------------------------------------------------------------------
(***************************************************************************)
(* The inductive invariant: what a child knows of its file at each of its  *)
(* steps, and how far the pieces of a child have come.                     *)
(***************************************************************************)
PutInv(c) ==
  /\ pc[c] \in {"connecting", "header", "write"} => got[c] = 0
  /\ pc[c] \in {"write", "receive", "respond"} => Asks(c, "PUT") /\ File(c) # None
  /\ pc[c] = "respond" => got[c] >= request[c].length
  /\ pc[c] \in {"write", "receive", "respond"} /\ ~clash[c]
       => File(c) = Part(c, 1, got[c])

GetInv(c) ==
  /\ pc[c] \in {"open", "date", "read"} => Asks(c, "GET") /\ File(c) # None
  /\ pc[c] \notin {"read", "log", "failed", "ended"} => sent[c] = <<>>
  /\ pc[c] \in {"date", "read"} /\ ~clash[c] => declared[c] = Len(File(c))
  /\ Asks(c, "GET") /\ pc[c] \in {"read", "failed"} /\ ~clash[c]
       => Len(sent[c]) <= declared[c]
  /\ Asks(c, "GET") /\ pc[c] = "log" /\ ~clash[c] => Len(sent[c]) = declared[c]

\* The number of the youngest piece that c may have written.
Youngest(c) == IF pc[c] = "ended" THEN request[c].pieces + 1 ELSE got[c]

UpTo(s, c, n) == \A k \in 1 .. Len(s) : s[k].by = c => s[k].no <= n

\* What comes after the end of u in s follows what u holds.
Follows(u, s) ==
  \A j \in 1 .. Len(u), k \in Len(u) + 1 .. Len(s) :
    u[j].by = s[k].by => u[j].no < s[k].no

StoreInv(p) ==
  store[p] # None =>
    Ascends(store[p]) /\ \A c \in Child : UpTo(store[p], c, Youngest(c))

SentInv(d) ==
  /\ Ascends(sent[d]) /\ \A c \in Child : UpTo(sent[d], c, Youngest(c))
  /\ pc[d] = "read" => Follows(sent[d], File(d))

IInv ==
  /\ TypeOK
  /\ \A c \in Child : PutInv(c) /\ GetInv(c) /\ SentInv(c)
  /\ \A p \in Path : StoreInv(p)
=============================================================================
