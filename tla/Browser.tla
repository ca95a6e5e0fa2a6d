------------------------------- MODULE Browser -------------------------------
(***************************************************************************)
(* The main loop of MyBrowser.c: it reads a line, takes it apart, and runs *)
(* the exchange of HttpExchange.tla that the line asks for, on the files   *)
(* that the line names at both sides.  The loop of client.c, the earlier   *)
(* version, is the same but for the arrays of the words, which it does not *)
(* clear between the lines.                                                *)
(*                                                                         *)
(* Assumed: the user types the next line when the child of the last        *)
(* command has ended (HttpServer.tla has children side by side).           *)
(***************************************************************************)
EXTENDS HttpExchange

CONSTANTS Urls,     \* urls, taken apart: host, port and late port, or "none", and path
          Names,    \* names of local files
          Number,   \* what atoi makes of a token, where it is a number
          Disks,    \* the files at both sides at the beginning
          MaxLines  \* bound: lines typed

\* A path begins with a slash and has no colon of its own.
IsUrl(u) ==
  /\ u \in [host : STRING, port : STRING, path : Seq(STRING), late : STRING]
  /\ u.host \notin {":", "/"} /\ {u.port, u.late} \subseteq DOMAIN Number \union {"none"}
  /\ u.path # <<>> => u.path[1] = "/"
  /\ \A i \in DOMAIN u.path : u.path[i] # ":"

\* A component of a name is one token.
IsName(n) ==
  n \in Seq(STRING) \ {<<>>} /\ \A i \in 1 .. Len(n) - 1 : "/" \in {n[i], n[i + 1]}

ASSUME BrowserAssumption ==
  /\ MaxLines \in Nat
  /\ \A d \in Disks : \A s \in Side : \A n \in DOMAIN d[s] : d[s][n] \in Content
  /\ DOMAIN Number \intersect {"none", ":", "/"} = {} /\ "80" \in DOMAIN Number /\ Number["80"] = 80
  /\ (\A u \in Urls : IsUrl(u)) /\ \A n \in Names : IsName(n)

VARIABLES
  version, \* "MyBrowser" or "client"
  words,   \* the arrays cmd, url and filename
  at,      \* "prompt", "busy" with a command, or "over"
  disk,    \* disk[s]: the files at side s by name
  name,    \* name[s]: the name at side s of the file of the command
  lines,   \* number of lines typed
  said,    \* history: what the user has said, see Said
  stored   \* history: what the last PUT to a name has stored, if it is known

session == <<version, words, at, disk, name, lines, said, stored>>
bvars == <<vars, session>>

-----------------------------------------------------------------------------
(***************************************************************************)
(* The text of a line.  Words, like all names, are sequences of tokens,    *)
(* and only ":" and "/" have a meaning.                                    *)
(***************************************************************************)
\* The text of a url, the port at either of its two places.
UrlText(u) ==
  LET port(p) == IF p = "none" THEN <<>> ELSE <<":", p>>
  IN  <<"http", ":", "/", "/", u.host>> \o port(u.port) \o u.path \o port(u.late)

\* What may be typed: a method, a url and a file, or the first of them.
Lines ==
  {<<>>, <<"QUIT">>, <<"GET">>, <<"PUT">>, <<"HEAD">>}
    \union ({"GET", "PUT"} \X Urls) \union ({"PUT"} \X Urls \X Names)

Text(line) ==
  [i \in DOMAIN line |->
     CASE i = 1 -> <<line[1]>> [] i = 2 -> UrlText(line[2]) [] i = 3 -> line[3]]

Cleared == <<<<>>, <<>>, <<>>>>

\* sscanf leaves alone the arrays for which the line has no word.
sscanf(arrays, text) == [i \in 1 .. 3 |-> IF i \in DOMAIN text THEN text[i] ELSE arrays[i]]

\* Mutant: MyBrowser.c does not clear its arrays.
Read_kept(text) == sscanf(words, text)

\* The arrays after the line.  Never written, those of client.c hold something
\* that is neither a command, a url nor the name of a file.
Read(text) == sscanf(IF version = "client" THEN words ELSE Cleared, text)

atoi(port) == IF port # <<>> /\ port[1] \in DOMAIN Number THEN Number[port[1]] ELSE 0

\* The first of the separators from place i on, or the end of the text.
Find(text, i, separators) ==
  Min({j \in i .. Len(text) : text[j] \in separators} \union {Len(text) + 1})

Scheme(text) == {i \in 1 .. Len(text) - 2 : SubSeq(text, i, i + 2) = <<":", "/", "/">>}
Host(text) == Min(Scheme(text)) + 3
HostEnd(text) == Find(text, Host(text), {":", "/"})
Path(text) == Find(text, HostEnd(text), {"/"})

\* Without it, parseurl runs out of the text: it ends the browser, or returns
\* port 0, to which connect fails.
HasPath(text) == Scheme(text) # {} /\ Path(text) <= Len(text)

parseurl(text) ==
  LET path == Path(text)
      end == Find(text, path, {":"})
      early == SubSeq(text, HostEnd(text) + 1, path - 1)
  IN  [ip   |-> SubSeq(text, Host(text), HostEnd(text) - 1),
       path |-> SubSeq(text, path, end - 1),
       port |-> IF end <= Len(text) THEN atoi(SubSeq(text, end + 1, Len(text)))
                ELSE IF early # <<>> THEN atoi(early) ELSE 80]

\* The components of a path, whose slashes may be doubled.
Components(path) ==
  LET c[i \in 0 .. Len(path)] ==
        IF i = 0 THEN <<>> ELSE IF path[i] = "/" THEN c[i - 1] ELSE Append(c[i - 1], path[i])
  IN  c[Len(path)]

\* The file that a path names: none, if it ends with a slash.
FileAt(path) ==
  IF path # <<>> /\ path[Len(path)] = "/" THEN <<>> ELSE Components(path)

\* No file has the empty name.
Contents(s, n) == IF n # <<>> /\ n \in DOMAIN disk[s] THEN disk[s][n] ELSE None

-----------------------------------------------------------------------------
(***************************************************************************)
(* The command in the arrays.                                              *)
(***************************************************************************)
IsPut(w) == w[1] = <<"PUT">>
Command(w) == w[1] \in {<<"GET">>, <<"PUT">>}

\* The tests of MyBrowser.c; those of client.c, of arrays for NULL, never hold.
Missing(w) ==
  /\ version = "MyBrowser"
  /\ w[2] = <<>> \/ (IsPut(w) /\ w[3] = <<>>)

LocalFile(w) ==
  FileAt(IF IsPut(w) THEN w[3] ELSE BaseName(parseurl(w[2]).path))

\* What the child reads in the request that the browser makes.
Request(w) ==
  LET local == Contents("browser", LocalFile(w))
  IN  parse_header(createheader(parseurl(w[2]), IF IsPut(w) THEN w[3] ELSE <<>>,
                                IF IsPut(w) THEN Len(local) ELSE 0))

\* The url has no path, or the file of a PUT cannot be opened.
Fails(w) ==
  \/ ~HasPath(w[2])
  \/ IsPut(w) /\ Contents("browser", LocalFile(w)) = None

\* What the user has said, in client.c with the words before where the line is
\* short.
Said(line) ==
  IF version = "MyBrowser" THEN line
  ELSE [i \in DOMAIN line \union DOMAIN said |-> IF i \in DOMAIN line THEN line[i] ELSE said[i]]

Begin(w) ==
  LET req == Request(w)
  IN  /\ \E access \in Access(req.method) :
           cmd' = [method |-> req.method, length |-> req.length, access |-> access]
      /\ name' = [s \in Side |-> IF s = "browser" THEN LocalFile(w) ELSE FileAt(req.path)]
      /\ file' = [s \in Side |-> Contents(s, name'[s])]
      /\ bpc' = "start" /\ cpc' = "getRequest" /\ reply' = NoReply /\ loop' = NoLoop
      /\ unsent' = Nothing /\ net' = Nothing /\ gone' = Nobody /\ result' = "none"

\* One turn of the loop, up to the exchange.
ReadLine(line) ==
  LET w == Read(Text(line))
  IN  /\ at = "prompt" /\ lines < MaxLines
      /\ lines' = lines + 1 /\ words' = w /\ said' = Said(line)
      /\ UNCHANGED <<version, disk, stored>>
      /\ CASE Command(w) /\ ~Missing(w) ->
                IF Fails(w) THEN at' = "over" /\ UNCHANGED <<name, vars>>
                            ELSE at' = "busy" /\ Begin(w)
           [] w[1] = <<"QUIT">> -> at' = "over" /\ UNCHANGED <<name, vars>>
           [] OTHER -> UNCHANGED <<at, name, vars>>

\* The name at the server of the file of the command, by what was said.
Target ==
  IF said[1] = "PUT" THEN Append(Components(said[2].path), said[3][Len(said[3])])
                     ELSE FileAt(said[2].path)

\* A viewer is started; the browser ends if it cannot fork.
openapp == at' \in {"prompt", "over"}

\* getresponse has returned, or the browser has ended in the midst of it.
Back ==
  /\ at = "busy" /\ bpc = "ended" /\ cpc = "ended"
  /\ CASE result = "opened" -> openapp
       [] result = "none" -> at' = "over"
       [] OTHER -> at' = "prompt"
  /\ disk' = [s \in Side |-> [n \in DOMAIN disk[s] \union {name[s]} |->
                               IF n = name[s] THEN file[s] ELSE disk[s][n]]]
  /\ LET whole == result = "header" /\ reply.status = 200 /\ ~loop["child"].torn
         now == IF whole THEN file["browser"] ELSE None
     IN  stored' = IF cmd.method = "GET" THEN stored
                   ELSE [t \in DOMAIN stored \union {Target} |->
                           IF t = Target THEN now ELSE stored[t]]
  /\ UNCHANGED <<vars, version, words, name, lines, said>>

BrowserInit ==
  /\ version \in {"MyBrowser", "client"} /\ words = Cleared
  /\ at = "prompt" /\ disk \in Disks /\ name = Nothing
  /\ lines = 0 /\ said = <<>> /\ stored = <<>>
  /\ cmd = [method |-> "GET", length |-> 0, access |-> "allowed"]
  /\ file = [s \in Side |-> None]
  /\ bpc = "ended" /\ cpc = "ended"
  /\ reply = NoReply /\ loop = NoLoop /\ unsent = Nothing
  /\ net = Nothing /\ gone = Nobody /\ result = "none"

Busy == at = "busy" /\ ((Next /\ UNCHANGED session) \/ Back)

\* The loop of either version.
BrowserNext == (\E line \in Lines : ReadLine(line)) \/ Busy

\* The user may stop typing; while a command runs, a process that can run, or
\* whose poll comes back, does.
BrowserSpec == BrowserInit /\ [][BrowserNext]_bvars /\ WF_bvars(Busy)

-----------------------------------------------------------------------------
(***************************************************************************)
(* Properties.                                                             *)
(***************************************************************************)
BrowserTypeOK ==
  /\ TypeOK
  /\ version \in {"MyBrowser", "client"} /\ at \in {"prompt", "busy", "over"}
  /\ DOMAIN words = 1 .. 3 /\ DOMAIN said \subseteq 1 .. 3 /\ lines \in 0 .. MaxLines
  /\ \A s \in Side : \A n \in DOMAIN disk[s] :
       disk[s][n] = None \/ disk[s][n] \in Seq(Bytes)

(***************************************************************************)
(* What the child reads in the request is what the user has typed: method, *)
(* path and, for a PUT, the last part of the file's name and the length of *)
(* the file; and the browser connects to the url's host, at the late port  *)
(* if there is one, else at the early one, else at 80.  Nothing is left of *)
(* the lines before, but in client.c the words that are missing now.       *)
(***************************************************************************)
AskedAsTyped ==
  at = "busy" =>
    LET u == said[2]
        to == parseurl(words[2])
        req == Request(words)
        puts == said[1] = "PUT"
        port == IF u.late # "none" THEN u.late ELSE IF u.port # "none" THEN u.port ELSE "80"
    IN  /\ Len(said) >= IF puts THEN 3 ELSE 2
        /\ to.ip = <<u.host>> /\ to.port = Number[port]
        /\ req.valid /\ req.method = said[1] /\ name["child"] = Target
        /\ puts => cmd.length = Len(disk["browser"][FileAt(said[3])])

(***************************************************************************)
(* What a PUT has stored, by an answer of 200, is what a later GET of that *)
(* url opens, whatever was typed, cut off or late in between, unless a     *)
(* header ended with a chunk (torn) or a PUT to the url has failed since.  *)
(***************************************************************************)
GetWhatWasPut ==
  at = "busy" /\ result = "opened" /\ ~loop["browser"].torn /\ Target \in DOMAIN stored
    => stored[Target] \in {None, file["browser"]}

(***************************************************************************)
(* Whatever is lost or cut, the browser comes back to its prompt, or ends, *)
(* and the child ends: the time limit of the browser frees a child that    *)
(* waits for more, and the close of the child frees the browser.           *)
(***************************************************************************)
CommandsEnd == at = "busy" ~> at # "busy"
=============================================================================
