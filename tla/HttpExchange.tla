---------------------------- MODULE HttpExchange ----------------------------
(***************************************************************************)
(* One command of MyBrowser.c and the child of MyHTTP.c that serves it,    *)
(* byte by byte: send_request and sendfile, getRequest and the rest of the *)
(* child's main, getresponse with its time limit, and the files at both    *)
(* sides.  Browser.tla runs one command after the other.                   *)
(*                                                                         *)
(* getRequest and getresponse have the same loop: it looks for the blank   *)
(* line in what recv returns, chunk by chunk, and writes what follows to a *)
(* file.  A byte is "r" (CR), "n" (LF) or "c" (any other); what a header   *)
(* says (Headers.tla) is kept beside its bytes, in cmd and reply.          *)
(***************************************************************************)
EXTENDS Headers

CONSTANTS CHUNKSIZE,  \* the most that a send of a file, or a recv, moves
          Content,    \* the contents of files
          None        \* no file

ASSUME ExchangeAssumption ==
  /\ CHUNKSIZE \in Nat \ {0}
  /\ Content \subseteq Seq({"c", "r", "n"}) /\ None \notin Content

Side == {"browser", "child"}

\* Two lines and the blank line.
Header == <<"c", "r", "n", "c", "r", "n", "r", "n">>

VARIABLES
  cmd,    \* what the child reads in the request, and what it is let do
  bpc,    \* where the browser is
  cpc,    \* where the child is
  file,   \* file[s]: the file named by the command at side s
  reply,  \* the response header
  loop,   \* loop[s]: the variables of the receiving loop of side s
  unsent, \* unsent[s]: what is left of the file that s sends
  net,    \* net[s]: bytes under way to s
  gone,   \* gone[s]: s has closed its descriptor, or has ended
  result  \* what getresponse returned

vars == <<cmd, bpc, cpc, file, reply, loop, unsent, net, gone, result>>

Other(s) == IF s = "browser" THEN "child" ELSE "browser"

\* The server's view of the path: it may write, or read and the file is newer
\* than the browser's date; or one of them fails, fopen alone ("closed") if the
\* server is not the owner whose permission it has looked at.
Access(method) ==
  {"allowed", "forbidden"} \union IF method = "GET" THEN {"old", "closed"} ELSE {}

NoReply == [status |-> 0, lines |-> <<>>]
Nothing == [s \in Side |-> <<>>]
NoLoop  == [s \in Side |->
             [cnt |-> 0, htemp |-> <<>>, found |-> FALSE, total |-> 0, torn |-> FALSE]]
Nobody  == [s \in Side |-> FALSE]

Init ==
  /\ file \in [Side -> Content \union {None}]
  /\ \/ \E access \in Access("GET") :
          cmd = [method |-> "GET", length |-> 0, access |-> access]
     \/ /\ file["browser"] # None
        /\ \E access \in Access("PUT") :
             cmd = [method |-> "PUT", length |-> Len(file["browser"]), access |-> access]
  /\ bpc = "start" /\ cpc = "getRequest"
  /\ reply = NoReply /\ loop = NoLoop /\ unsent = Nothing
  /\ net = Nothing /\ gone = Nobody /\ result = "none"

-----------------------------------------------------------------------------
(***************************************************************************)
(* The receiving loop.                                                     *)
(***************************************************************************)
\* What recv may return.
Chunks(s) == {SubSeq(net[s], 1, n) : n \in 1 .. Min({CHUNKSIZE, Len(net[s])})}

\* Mutant: a CR counts whatever came after the one before.
Count_kept(cnt, b) == IF b = "r" THEN cnt + 1 ELSE cnt

\* cnt after one more byte of the header.
Count(cnt, b) ==
  CASE b = "r" -> cnt + 1 [] b = "c" /\ cnt = 1 -> 0 [] OTHER -> cnt

\* cnt after each byte of the chunk.
Counts(cnt, chunk) ==
  LET c[i \in 0 .. Len(chunk)] == IF i = 0 THEN cnt ELSE Count(c[i - 1], chunk[i])
  IN  c

\* Mutant: the loop does not stop at the blank line.
HeaderBytes_all(cnt, chunk) == Len(chunk)

\* How many bytes of the chunk belong to the header, up to its last CR.
HeaderBytes(cnt, chunk) ==
  LET ends == {i \in 1 .. Len(chunk) : Counts(cnt, chunk)[i] = 2}
  IN  IF ends = {} THEN Len(chunk) ELSE Min(ends)

\* The loop variables l after the chunk, while the header is not complete.
Scan(l, chunk) ==
  LET k == HeaderBytes(l.cnt, chunk)
      cnt == Counts(l.cnt, chunk)[k]
      end == cnt = 2
  IN  [cnt   |-> cnt,
       htemp |-> l.htemp \o SubSeq(chunk, 1, k) \o (IF end THEN <<"n">> ELSE <<>>),
       found |-> end,
       total |-> IF end THEN Len(chunk) - k - 1 ELSE 0,
       torn  |-> end /\ k = Len(chunk)]

\* What fwrite may write of the chunk in which the header ends.  If it ends
\* with the chunk the size is -1, which fwrite takes for the largest size_t:
\* it writes nothing, or whatever follows the buffer.
Rest(l, chunk) ==
  LET k == HeaderBytes(l.cnt, chunk)
  IN  IF k = Len(chunk) THEN {<<>>, <<"garbage">>}
                        ELSE {SubSeq(chunk, k + 2, Len(chunk))}

Take(s, chunk) ==
  net' = [net EXCEPT ![s] = SubSeq(@, Len(chunk) + 1, Len(@))]

\* The end of the header has not come yet.
MoreHeader(s, chunk) ==
  /\ ~loop[s].found /\ ~Scan(loop[s], chunk).found
  /\ loop' = [loop EXCEPT ![s] = Scan(@, chunk)]

\* It has, and what follows is the beginning of the file.
FirstOfBody(s, chunk) ==
  /\ loop' = [loop EXCEPT ![s] = Scan(@, chunk)]
  /\ \E rest \in Rest(loop[s], chunk) : file' = [file EXCEPT ![s] = rest]

\* Later chunks are appended; length is what the header has announced.
MoreBody(s, chunk) ==
  /\ loop[s].found
  /\ file' = [file EXCEPT ![s] = @ \o chunk]
  /\ loop' = [loop EXCEPT ![s].total = @ + Len(chunk)]

-----------------------------------------------------------------------------
(***************************************************************************)
(* The child of MyHTTP.c.                                                  *)
(***************************************************************************)
ChildSends(bytes) ==
  net' = [net EXCEPT !["browser"] = IF gone["browser"] THEN @ ELSE @ \o bytes]

\* close and exit; what has come and was not received is dropped.
ChildEnds ==
  /\ cpc' = "ended" /\ gone' = [gone EXCEPT !["child"] = TRUE]

\* A refusal: the header is sent and the child exits.
Refuse(status, chunk) ==
  /\ reply' = Refused(status)
  /\ net' = [net EXCEPT !["child"] = SubSeq(@, Len(chunk) + 1, Len(@)),
                        !["browser"] = IF gone["browser"] THEN @ ELSE @ \o Header]
  /\ ChildEnds

\* The status with which getRequest refuses the command, 0 if it does not.  It
\* has no cause to answer 400: no request of MyBrowser.c is invalid.
Refusal ==
  IF cmd.method = "GET" /\ file["child"] = None THEN 404
  ELSE CASE cmd.access = "forbidden" -> 403
         [] cmd.access = "old" -> 304
         [] OTHER -> 0

CHeader(chunk) ==
  MoreHeader("child", chunk) /\ Take("child", chunk)
    /\ UNCHANGED <<cpc, file, reply, gone>>

CRefuse(chunk) ==
  /\ ~loop["child"].found /\ Scan(loop["child"], chunk).found /\ Refusal # 0
  /\ loop' = [loop EXCEPT !["child"] = Scan(@, chunk)]
  /\ Refuse(Refusal, chunk) /\ UNCHANGED file

\* getRequest returns at the end of a header of GET.
CGet(chunk) ==
  /\ ~loop["child"].found /\ Scan(loop["child"], chunk).found /\ Refusal = 0
  /\ cmd.method = "GET"
  /\ loop' = [loop EXCEPT !["child"] = Scan(@, chunk)]
  /\ Take("child", chunk)
  /\ cpc' = "respond" /\ UNCHANGED <<file, reply, gone>>

\* The file of a PUT is opened and gets what came with the header: getRequest
\* goes on to recv, whatever the length.
CPut(chunk) ==
  /\ ~loop["child"].found /\ Scan(loop["child"], chunk).found /\ Refusal = 0
  /\ cmd.method = "PUT"
  /\ FirstOfBody("child", chunk) /\ Take("child", chunk)
  /\ UNCHANGED <<cpc, reply, gone>>

\* Mutant: one byte is enough.
CBody_anyLength(chunk) ==
  /\ MoreBody("child", chunk) /\ Take("child", chunk)
  /\ cpc' = "respond"
  /\ UNCHANGED <<reply, gone>>

CBody(chunk) ==
  /\ MoreBody("child", chunk) /\ Take("child", chunk)
  /\ cpc' = IF loop'["child"].total >= cmd.length
              THEN "respond" ELSE "getRequest"
  /\ UNCHANGED <<reply, gone>>

\* The browser has gone, in order or not.
CDisconnected ==
  /\ gone["browser"] /\ net["child"] = <<>>
  /\ ChildEnds /\ UNCHANGED <<file, reply, loop, net>>

getRequest ==
  /\ cpc = "getRequest" /\ UNCHANGED unsent
  /\ \/ CDisconnected
     \/ \E chunk \in Chunks("child") :
          CHeader(chunk) \/ CRefuse(chunk) \/ CGet(chunk) \/ CPut(chunk) \/ CBody(chunk)

\* fwrite of -1 bytes may also end the child.
CCrash ==
  /\ cpc = "getRequest" /\ loop["child"].torn
  /\ ChildEnds /\ UNCHANGED <<file, reply, loop, unsent, net>>

\* There is no child, for fork fails: the server, which takes this for the
\* parent's side, closes the connection.
CNotForked ==
  /\ cpc = "getRequest" /\ loop["child"] = NoLoop["child"]
  /\ ChildEnds /\ UNCHANGED <<file, reply, loop, unsent, net>>

CRespond ==
  /\ cpc = "respond" /\ cmd.access # "closed"
  /\ LET get == cmd.method = "GET"
     IN  /\ reply' = IF get THEN Gets(<<"type">>, Len(file["child"])) ELSE Puts
         /\ unsent' = [unsent EXCEPT !["child"] = IF get THEN file["child"] ELSE <<>>]
  /\ ChildSends(Header) /\ cpc' = "sendfile"
  /\ UNCHANGED <<file, loop, gone>>

\* The file of a GET cannot be opened after all.
CNotOpened ==
  /\ cpc = "respond" /\ cmd.access = "closed"
  /\ Refuse(404, <<>>) /\ UNCHANGED <<file, loop, unsent>>

\* One turn of the loop that reads the file and sends.
CSendFile ==
  /\ cpc = "sendfile" /\ unsent["child"] # <<>>
  /\ LET n == Min({CHUNKSIZE, Len(unsent["child"])})
     IN  /\ ChildSends(SubSeq(unsent["child"], 1, n))
         /\ unsent' = [unsent EXCEPT !["child"] = SubSeq(@, n + 1, Len(@))]
  /\ UNCHANGED <<cpc, file, reply, loop, gone>>

CLogAndExit ==
  /\ cpc = "sendfile" /\ unsent["child"] = <<>>
  /\ ChildEnds /\ UNCHANGED <<file, reply, loop, unsent, net>>

\* A send to a browser that has gone fails, or SIGPIPE ends the child.
CSendFails ==
  /\ cpc \in {"respond", "sendfile"} /\ gone["browser"]
  /\ ChildEnds /\ UNCHANGED <<file, reply, loop, unsent, net>>

child ==
  /\ \/ CNotForked \/ getRequest \/ CCrash \/ CRespond \/ CNotOpened
     \/ CSendFile \/ CLogAndExit \/ CSendFails
  /\ UNCHANGED <<cmd, bpc, result>>

-----------------------------------------------------------------------------
(***************************************************************************)
(* MyBrowser.c.                                                            *)
(***************************************************************************)
BrowserEnds == bpc' = "ended" /\ gone' = [gone EXCEPT !["browser"] = TRUE]

BrowserSends(bytes) ==
  net' = [net EXCEPT !["child"] = IF gone["child"] THEN @ ELSE @ \o bytes]

BSendHeader ==
  /\ bpc = "start"
  /\ BrowserSends(Header)
  /\ IF cmd.method = "PUT"
     THEN /\ bpc' = "sendfile"
          /\ unsent' = [unsent EXCEPT !["browser"] = file["browser"]]
     ELSE bpc' = "getresponse" /\ UNCHANGED unsent
  /\ UNCHANGED <<file, loop, gone, result>>

\* connect fails and the browser exits.
BCannotConnect ==
  /\ bpc = "start" /\ BrowserEnds
  /\ UNCHANGED <<file, loop, unsent, net, result>>

sendfile ==
  /\ bpc = "sendfile"
  /\ IF unsent["browser"] = <<>>
     THEN bpc' = "getresponse" /\ UNCHANGED <<unsent, net>>
     ELSE LET n == Min({CHUNKSIZE, Len(unsent["browser"])})
          IN  /\ BrowserSends(SubSeq(unsent["browser"], 1, n))
              /\ unsent' = [unsent EXCEPT !["browser"] = SubSeq(@, n + 1, Len(@))]
              /\ UNCHANGED bpc
  /\ UNCHANGED <<file, loop, gone, result>>

\* SIGPIPE: the child has refused the command and closed.
BKilled ==
  /\ bpc = "sendfile" /\ gone["child"]
  /\ BrowserEnds /\ UNCHANGED <<file, loop, unsent, net, result>>

Return(r) == result' = r /\ BrowserEnds

\* Mutant: poll waits without a limit.
BTimeout_never == FALSE

\* poll returns 0: nothing has come for three seconds.  What the child has sent,
\* and its close, may be under way.
BTimeout == Return("timeout") /\ UNCHANGED <<file, loop, net>>

BDisconnected ==
  /\ net["browser"] = <<>> /\ gone["child"]
  /\ Return("disconnected") /\ UNCHANGED <<file, loop, net>>

BHeader(chunk) ==
  MoreHeader("browser", chunk) /\ Take("browser", chunk)
    /\ UNCHANGED <<bpc, file, gone, result>>

\* A refusal, or the answer of a PUT: the header is all there is.
BOnlyHeader(chunk) ==
  /\ ~loop["browser"].found /\ Scan(loop["browser"], chunk).found
  /\ reply.status # 200 \/ cmd.method = "PUT"
  /\ loop' = [loop EXCEPT !["browser"] = Scan(@, chunk)]
  /\ Take("browser", chunk)
  /\ Return("header") /\ UNCHANGED file

\* Mutant: the status is not looked at.
BGet_anyStatus(chunk) ==
  /\ ~loop["browser"].found /\ Scan(loop["browser"], chunk).found
  /\ cmd.method = "GET"
  /\ FirstOfBody("browser", chunk) /\ Take("browser", chunk)
  /\ UNCHANGED <<bpc, gone, result>>

\* The file of a GET gets what came with the header, and getresponse goes on
\* to poll, whatever the length.
BGet(chunk) ==
  /\ ~loop["browser"].found /\ Scan(loop["browser"], chunk).found
  /\ reply.status = 200 /\ cmd.method = "GET"
  /\ FirstOfBody("browser", chunk) /\ Take("browser", chunk)
  /\ UNCHANGED <<bpc, gone, result>>

\* fopen of the local file fails and nobody looks: fwrite ends the browser.
BNotOpened(chunk) ==
  /\ ~loop["browser"].found /\ Scan(loop["browser"], chunk).found
  /\ reply.status = 200 /\ cmd.method = "GET"
  /\ BrowserEnds /\ UNCHANGED <<file, loop, net, result>>

\* The file is complete, and is opened.
BBody(chunk) ==
  /\ MoreBody("browser", chunk) /\ Take("browser", chunk)
  /\ IF loop'["browser"].total >= content_len(reply)
     THEN Return("opened") ELSE UNCHANGED <<bpc, gone, result>>

getresponse ==
  /\ bpc = "getresponse" /\ UNCHANGED unsent
  /\ \/ BTimeout \/ BDisconnected
     \/ \E chunk \in Chunks("browser") :
          \/ BHeader(chunk) \/ BOnlyHeader(chunk) \/ BGet(chunk)
          \/ BNotOpened(chunk) \/ BBody(chunk)

BCrash ==
  /\ bpc = "getresponse" /\ loop["browser"].torn
  /\ BrowserEnds /\ UNCHANGED <<file, loop, unsent, net, result>>

browser ==
  /\ BSendHeader \/ BCannotConnect \/ sendfile \/ BKilled \/ getresponse \/ BCrash
  /\ UNCHANGED <<cmd, cpc, reply>>

-----------------------------------------------------------------------------
\* A child that closes with bytes of the request unread, or that gets more of
\* them later, resets the connection: the browser may lose what was sent.
Reset ==
  /\ gone["child"] /\ net["child"] # <<>> /\ net["browser"] # <<>>
  /\ net' = [s \in Side |-> <<>>]
  /\ UNCHANGED <<cmd, bpc, cpc, file, reply, loop, unsent, gone, result>>

Next == browser \/ child \/ Reset

Spec == Init /\ [][Next]_vars

-----------------------------------------------------------------------------
(***************************************************************************)
(* Properties.                                                             *)
(***************************************************************************)
Bytes == {"c", "r", "n", "garbage"}

TypeOK ==
  /\ cmd.method \in {"GET", "PUT"} /\ cmd.length \in Nat /\ cmd.access \in Access(cmd.method)
  /\ bpc \in {"start", "sendfile", "getresponse", "ended"}
  /\ cpc \in {"getRequest", "respond", "sendfile", "ended"}
  /\ \A s \in Side :
       /\ file[s] = None \/ file[s] \in Seq(Bytes)
       /\ net[s] \in Seq(Bytes) /\ unsent[s] \in Seq(Bytes)
       /\ gone[s] \in BOOLEAN
       /\ loop[s].cnt \in 0 .. 2 /\ loop[s].htemp \in Seq(Bytes)
       /\ loop[s].total \in Int
  /\ reply.status \in {0, 200, 304, 403, 404} /\ content_len(reply) \in Nat \union {-1}
  /\ result \in {"none", "timeout", "disconnected", "header", "opened"}

(***************************************************************************)
(* However recv cuts the stream, both loops find the end of the header     *)
(* where the blank line is, and hold the header and no more of the stream. *)
(***************************************************************************)
HeaderExact ==
  \A s \in Side :
    LET h == loop[s].htemp
    IN  IF loop[s].found THEN h = Header
        ELSE h = SubSeq(Header, 1, Len(h)) /\ Len(h) < Len(Header) - 1

(***************************************************************************)
(* The file arrives as it was sent: when the child answers a PUT with 200  *)
(* it has stored the browser's file, and when the browser opens the file   *)
(* of a GET it has the child's, unless a header ended with a chunk (torn). *)
(* Until then the receiver has a beginning of it, and total says how much. *)
(***************************************************************************)
Arrives(s) ==
  LET original == file[Other(s)]
      n == loop[s].total
  IN  /\ n = Len(file[s]) /\ n <= Len(original)
      /\ file[s] = SubSeq(original, 1, n)

Whole(s) == file[s] = file[Other(s)]

FilesArrive ==
  /\ cmd.method = "PUT" /\ loop["child"].found /\ Refusal = 0 /\ ~loop["child"].torn
       => Arrives("child") /\ (reply.status = 200 => Whole("child"))
  /\ cmd.method = "GET" /\ loop["browser"].found /\ reply.status = 200
       /\ ~loop["browser"].torn
       => Arrives("browser") /\ (result = "opened" => Whole("browser"))

(***************************************************************************)
(* Only the side that receives a file writes it, and only once it has seen *)
(* the whole header of the other side: of a PUT before there is an answer, *)
(* of a GET whose answer is 200.  A refused command leaves both files as   *)
(* they were (a new command names other files).                            *)
(***************************************************************************)
OnlyReceiversWrite ==
  [][bpc' # "start" => \A s \in Side :
       file'[s] # file[s]
         => /\ loop'[s].found
            /\ cmd.method = IF s = "child" THEN "PUT" ELSE "GET"
            /\ reply.status \in IF s = "child" THEN {0} ELSE {200}]_vars

-----------------------------------------------------------------------------
\* getRequest: "return true if get request success".  It waits for more
\* although all of the file has come.
WaitsOnlyForMore ==
  cpc = "getRequest" /\ loop["child"].found /\ ~loop["child"].torn
    => loop["child"].total < Len(file["browser"])
=============================================================================
