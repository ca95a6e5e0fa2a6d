# A verification development for Networks-Laboratory

The repository holds the programs of a networks laboratory: a message-oriented
socket library on TCP with a time service on top (`src/Week 5`), an HTTP server
and client (`src/Week 4`), and a tool that probes the links of a route
(`src/Week 6`). This directory holds TLA+ models of these programs, the
configurations that check them with TLC, and proofs for TLAPS.

    tlc -config MySocket.cfg MCMySocket.tla           # a run of PROJECT.json
    tlapm MySocketProofs.tla                          # the proofs of a module

`PROJECT.json` lists the components, the runs, for every property of a passing
run a mutation of the model that breaks it, the lines of source each definition
models, the findings, the hazards and the theorems.

## The system

| part | source | state | operations |
| --- | --- | --- | --- |
| message tables | `Week 5/mysocket.c` 20-101 | array of `MAX_MSG + 1` slots, indices `st`, `end` | `initqueue`, `isempty`, `isfull`, `push`, `pop`, `front`, `freeCQ` |
| framing | `Week 5/mysocket.c` 110-197 | offsets of `send_helper` and `recv_helper`, bytes in the connection | `send_helper`, `recv_helper` |
| threads and calls | `Week 5/mysocket.c` 199-258, 313-372 | two tables, two mutexes, four condition variables, threads S and R, cancellation | `my_send`, `my_recv`, `my_close`, the loops of S and R |
| connection set-up | `Week 5/mysocket.c` 105-108, 260-311 | the library's global variables | `init_connection`, `my_accept`, `my_connect` (`my_socket`, `my_bind`, `my_listen` pass their call on) |
| time service | `Week 5/time_server.c`, `time_client.c` | where each `main` is, the listening queue | the two `main` functions |
| HTTP server | `Week 4/submit/MyHTTP.c` | one child per connection, the files, the log | `getRequest`, `main`, `logRequest` |
| HTTP client | `Week 4/submit/MyBrowser.c`, `Week 4/client.c` | the words of the last line, one connection per command, the files at both sides | `main`, `parseurl`, `createheader`, `send_request`, `getresponse`, `parse_header`, `openapp` |
| pingnetinfo | `Week 6/pingnetinfo.c` | probes and replies, times per hop | the probing loop, checksum, estimates |

How they interact. A program calls `my_send` and `my_recv`, which put messages
into `sendTable` and take them from `recvTable`; S takes from `sendTable` and
sends, R receives and puts into `recvTable`. Each table has a mutex and two
condition variables, one for each side. The two ends of a connection share only
its bytes. The HTTP server forks a child for each connection; the children share
the files and the log, and never speak to the parent. pingnetinfo shares a raw
socket with whatever ICMP message reaches the host.

What is hard. Signals after the unlock and spurious wakeups; cancellation of
threads that wait, send, receive or hold a mutex; the end of one process while
the other sends; tables and mutexes that survive a connection; threads that run
before their tables exist; sends and receives cut at any byte; children that
write the same file; files that change between two looks; words of a line that outlive
it; replies that come late or never. The `hazards` of PROJECT.json name the lines.

What makes each part correct. The tables are first-in first-out, and free what
they hold once. Framing carries whole messages. The two ends of a connection are
a pair of message channels: in order, at most once, nothing lost before an end
closes. No thread waits for ever while its table lets it go on, and `my_close`
returns. Set-up gives each connection tables of its own. The conversations of the
time service come one at a time and keep their order, and every client is served, but for what a client that has ended, or
a thread that runs before its table exists, may do to it. A file crosses an HTTP
connection whole, wherever the stream is cut, and both programs come to an end;
children that share a file harm only each other, and in a bounded way. A command asks
for what its line says and nothing older, and what one PUT has stored a later GET opens. The probing
loop ends, at the destination, and measures the right probe while none is late.

## The modules

**BoundedFifo** is the abstract queue, **CQueue** the circular queue of
`mysocket.c`: one record with the fields of `struct _cqueue`, one operator per
function, and a specification in which `Push`, `Pop`, `Front` and `Renew` come in
any order. `push` and `front` copy messages; a slot never shares one with its
caller, so a message is a value. `Contents` maps the slots between `st` and `end`
to a sequence, under which CQueue implements BoundedFifo.

**MsgChannel** is what a pair of sockets promises to two programs: per direction
a sequence of messages under way. `Send` appends, `Receive` takes the oldest,
`Close` closes both directions and keeps a prefix of what the closing end sent,
`Lose` shortens a closed direction from its young end.

**MySocket** is `mysocket.c` from the moment `init_connection` has returned. Its
state, for each end `p` of a connection:

| variable | code |
| --- | --- |
| `ip[p]` | the library call the program is in, or makes next |
| `pc[p]["app"]`, `["S"]`, `["R"]` | the positions of the three threads |
| `mutex[p]["send"]`, `["recv"]` | holders of `sendMutex`, `recvMutex` |
| `table[p]["send"]`, `["recv"]` | contents of `sendTable`, `recvTable` |
| `smsg[p]`, `rmsg[p]` | `msg` in `sendThreadFunc`, `recvThreadFunc` |
| `cancel[p]` | `pthread_cancel` was called for S and R |
| `wire[p]` | whole messages in the connection, from `p` to its peer |
| `fdOpen[p]`, `reset[p]`, `alive[p]` | the descriptor, a reset by the peer's kernel, the process |
| `sent[p]`, `delivered[p]` | histories: accepted by `my_send`, returned by the peer's `my_recv` |

The four wait loops of the code (317-319 of `my_recv`, 338-341, 207-211,
243-247) are one loop, `WaitLoop`, with the steps `Acquire` (the lock), `Test`
(`isempty` or `isfull`), `Park` (`pthread_cond_wait` releases the mutex),
`Unpark` (it returns without a signal) and `TestCancel`. `MoveAndSignal` is
`pthread_cond_signal`: the one thread that can wait on a condition variable goes
back to the lock. What a thread does under the mutex after the test is one step
together with the unlock (`SendPut`, `RecvGet`, `STake`, `RPut`); the signal after the
unlock is a step of its own (`RecvSignal`, `SSignal`, `RSignal`), while `my_send`
signals under the mutex. `my_close` is `Sleep`, `Cancel`, `JoinSend`, `JoinRecv`,
`Free`. S can die at `pthread_testcancel`, in `pthread_cond_wait` and in `send`; R
also in `recv`; neither at a lock. A signal that wakes nobody is lost. When a
descriptor is closed with bytes unread the kernel resets the connection, what was
under way may be lost, and the other end's next `recv` or `send` fails, which is
`exit(1)`.

**WholeMessages** and **Framing** justify `wire` holding whole messages. Framing has
the variables of `send_helper` and `recv_helper` and the bytes between them; a
message is a sequence of bytes, `send` takes any part of what it is given and
`recv` returns any part of what is there. `Read` is what `recv_helper` will make, byte
by byte (`ReadByte`), of the bytes on their way; with it as `wire` Framing implements
WholeMessages, whose steps are those of S and R in MySocket.

**Connections** is one process over several connections: the steps of
`init_connection` in their order, and every use of the two table pointers by the
threads. A pointer is `0` (NULL) or the number of the connection that allocated the
table; memory that is not initialised (`Raw`) makes a test come out either way and a
use crash or not; S may also find something there and send it. `initqueue` is two steps: it sets the indices (`ResetIndices`), then
empties the slots (`ClearSlots`); a message that R has put in between becomes a `Hole`, a slot
with NULL between `st` and `end`, on which `my_recv` crashes, or stays, if the loop has passed its slot already. It shows when the first state of MySocket is the state the code
reaches, and when not.

**TimeService** composes the programs of the time service with the channels of
MsgChannel: each `my_send`, `my_recv`, `my_close` is a step of a channel. Clients may be
killed; a reset then ends the server, as `exit(1)` in its threads does. `my_accept` and `my_connect` are two steps each, for their threads
run before the tables exist (mysocket.c:273-280, module Connections): `Accept` and `Connect` are the call up to the creation of the
threads, `Accepted` and `Connected` the rest of `init_connection`. In between, in "setup", either process may crash
(`ServerCrashes`, `ClientCrashes`), and the client's R may meet the time too early and lose it (`LosesTime`; `lost` remembers it). The server's R has
nothing to lose then: the client speaks only when it has the time. It is assumed that S finds no message in memory that is not
initialised: it sees an empty table, or crashes. Connections has the other case too, after which no conversation would mean anything.

**HttpExchange** is one command of `MyBrowser.c` and the child of `MyHTTP.c` that serves
it, down to the bytes. `getRequest` and `getresponse` share their loop, so the model has
one: `loop[s]` holds the variables `cnt`, `htemp`, `header_received` (here `found`) and
`total` of side `s`, `net[s]` the bytes under way to it, `file[s]` the file the command is
about. `Scan` is the search for the blank line in one chunk, `FirstOfBody` what is written of that
chunk, `MoreBody` the later chunks. When the last CR of the header ends a chunk, `fwrite` is
given -1 bytes: `Rest` leaves open what it writes, `CCrash` and `BCrash` let it end the process, and
`torn` remembers it. A byte is CR, LF or another; what a header says (`cmd`, `reply`)
stands beside its bytes. The browser may time out whenever it waits (`BTimeout`), though an answer, or the end of the connection, is under way;
a child that closes with bytes unread resets the connection (`Reset`). When `fork` fails the
connection is closed at once (`CNotForked`). A file that `stat` lets pass
may still not open (`access` is "closed"): a GET is then answered 404 (`CNotOpened`), and the
browser ends if its own file does not (`BNotOpened`).

**Headers** holds the two headers as data: what `createheader` and the answers of the server
write, line by line, and what the `parse_header` of the other side takes out of it. A value is a sequence
of tokens, of which only `/` has a meaning.

**Browser** composes them: it is the loop of `main` around HttpExchange, on the files of both sides.

| variable | code |
| --- | --- |
| `version` | the program: `MyBrowser.c`, or `client.c`, which does not clear its arrays |
| `words` | the arrays `cmd`, `url`, `filename` |
| `at` | at the prompt, busy with a command, or ended |
| `disk[s]`, `name[s]` | the files of side `s`, and the one that the command is about |
| `said`, `stored` | histories: what the user has said; what the last PUT to a name has stored |

`ReadLine` is one turn up to the exchange: `Read` (`sscanf`), `parseurl`, the tests for missing words
(`Missing`), the failures that end the browser (`Fails`), and `Begin`, which makes the request (`Request`)
and names the files. The steps of the exchange are those of HttpExchange; `Back` is the return to the prompt, with
`openapp` and the files written. Said words are compared with what the child reads, so that
the parsing is checked against what was typed and not against itself: a url is typed from its
parts (`UrlText`), and AskedAsTyped compares with those parts. `Components` is how a file system
reads a path: slashes may be doubled, and a path that ends with one names no file (`FileAt`). Assumed: the next line is typed after
the child of the last command has ended (children side by side are in HttpServer); the two sides have
file systems of their own; directories exist. The arrays that `client.c` has never written hold something that is no
command, url or file.

**HttpServer** is the parent of `MyHTTP.c` with any number of children, and the files. The parent binds its socket (`Listen`) or ends
(`ParentFails`, for `accept` too). A file
is a sequence of pieces (what a chunk of a PUT writes); a request says how many pieces its client sends, and what length it announces, which
may be less or more: whatever comes is written, and only a later chunk makes the child compare the two; `fopen "wb"` truncates (`Truncate`), its `fclose` writes
from the beginning of the file (`WriteFirst`), later chunks are appended (`AppendChunk`); a GET looks with `stat`,
measures, asks for the date and reads on (`Stat`, `Measure`, `SendHeader`, `ReadOn`, `ReadEnd`). The log is
one of the files. `clash[c]` records that another child has written to the file of `c` between
its first and last use of it.

**Probe** is `pingnetinfo.c` and the network: `Start` looks up the host and opens the raw socket, or fails; `ttl`, `i` and `flag` are the code's,
`flight` the probes without an answer yet, `inbox` what the raw socket has received. `Receive`
takes the oldest message for the answer to the current probe, as the code does. A
packet is the words its checksum is summed over.

## The runs

| run | instance | question |
| --- | --- | --- |
| CQueue | capacity 3, three messages | do the indices wrap correctly, is every message freed once, is it a bounded queue? |
| MySocket | messages both ways, tables and kernel buffer of 1, spurious wakeups, a sleep that suffices | mutual exclusion, tests that still hold, wakeups, the channel; with fairness everything is delivered and both programs end |
| MySocketEarly | one end closes early, tables of 1, `sleep(5)` guarantees nothing | cancellation everywhere, resets, exits; no mutex of a dead thread is asked for; the channel; with fairness `my_close` returns |
| MySocketEnd | a program that receives once too often | `my_recv` at the end of the stream (a violation) |
| Framing | bytes of 2 bits, chunks of at most 3, messages of 0, 1, 3 and 4 bytes, buffer of 3 | whole messages; every message arrives |
| Connections | three connections, tables of 1, two messages each way | does anything leak from one connection into the next; is all that arrives returned; does a process end whose `accept` or `connect` has failed? |
| ConnectionsLost | the same | a thread that runs before its table is there (a violation) |
| TimeService | three clients, a queue of 1, clients killed, `accept` failing | order of the conversations, one at a time; every client is served or ends, unless the server ends, or turns to a client that has ended or has lost the time in its set-up |
| Browser | both versions, two lines of four urls and two names, files of 0, 1 and 5 bytes, chunks of 4, a header of 8, two states of the files | does a command ask for what was typed, do headers and files arrive as sent, does a GET open what a PUT has stored, does every command end? |
| HttpWaits | one command; PUT and GET of files of 0, 1, 4 and 11 bytes, chunks of 10 | a PUT that is complete is not answered (a violation) |
| HttpServer | three children, five requests on a page and the log, one PUT as long as announced and one longer | what a child stores and sends if left alone, and what order remains if not |
| Probe | two probes for each of three hops, destination at the second, one foreign message, words of 6 values | the loop ends at the destination, the right probe is measured, packets verify |

The bounds. A table of 3 in CQueue fills, empties and wraps. In MySocket three messages
one way meet tables of 1, so that each of the six threads has to wait at some point, and
one message the other way. A chunk of
`UINT8 - 1` is the largest that one size byte can announce (250 of 255 in the code);
the messages are empty, shorter than a chunk, exactly one and one byte more, and their
bytes take the value of every size and of the end mark. Two messages show whether
anything of the first is left for the second. Three connections let a table be stale
twice. In Browser a chunk of 4 divides a header of 8, so that a header can end with a chunk or within one, with all
of a short file behind it, or the beginning of a longer one; a file of 5 takes two sends, and its bytes repeat
the end of a header. Two lines are the least with a word or a file left from the line before; the urls
have their port at either place, at both and at none, one is not there at the server and one has no path.
Two PUTs and a GET of one file are the least with every kind of clash. A destination at the
second of three hops can be missed, and late answers can meet a probe of the next hop; the seven
words of a packet that are not zero (type and code, checksum, process, probe, and three for "Hello") make up to six
carries, so that words of 6 values are the least for which two foldings can suffice. Three clients with one place in the queue make a client wait to connect. The
theorems hold without these bounds.

Deadlock is checked in the passing runs of CQueue and MySocket: a state in which
all programs have ended or died has the step `Terminated`. MySocketEnd is about a
program that waits for ever. The specifications of Framing, Connections,
TimeService, HttpExchange, Browser, HttpServer and Probe stop when their bounded work is done, or when a process has ended, so
their runs do not check deadlock.

Fairness. `WF` of each thread's steps: the scheduler runs what can run, and a mutex
released for good can be taken. A cancelled thread leaves `pthread_cond_wait` (`Wakeup`
with `cancel`); without a cancellation a spurious wakeup need never come. Programs
make their calls. In Framing only the helpers are fair, not the callers; in
Connections the threads, `init_connection` and a program that goes on to receive; in TimeService the server and each client,
but not their crashes, nor the step in which the time is lost.
In Connections `FailedCallEnds` needs no more than the threads and `init_connection`.
In Browser one `WF`, of `Busy`, suffices: while a command runs, a process that can run, or whose `poll` comes back,
does; the user may stop typing; in Probe the program runs and the
network owes nothing. `AllDelivered` is stated for behaviours in which `pthread_cond_wait` does
not return without a signal for ever. Nothing assumes strong fairness, or that a message is ever sent by a peer.

Assumptions of single runs. `SleepSuffices` in MySocket: `sleep(5)`
lasts until S has nothing more to do, or is blocked by a peer that receives nothing;
MySocketEarly drops it. Messages are at most `MAX_MSG_SIZE` long, which the
library never tests.

## What the runs found

Two statements of `documentation.txt` fail in a way a program notices. `my_recv` never
returns once the peer has closed (MySocketEnd). A message that arrives before
`init_connection` has returned may be lost (ConnectionsLost): the threads exist
before the tables do. The same order lets a thread test a table that is NULL or not
initialised (the state `crashed` of Connections). The run Connections shows that
this is the only way the set-up goes wrong: if no thread runs early, nothing leaks
from one connection into the next or is lost. TimeService shows what it does to a program: a client that has lost the time waits for it, the
server for the confirmation, and all other clients for the server (`WaitForEachOther`, without which `AllServed` does not hold).

Three more differences are harmless, and simply modelled as the code has them: R
receives before it looks for room (`RReceive` before `Test`, line 235), S sends after the
unlock (`STake`, then `SSend`, lines 216-219), and threads are started whatever
`accept` and `connect` returned (`Establish`, lines 301-311).

`getRequest` does not answer a PUT whose file is empty or came in the header's chunk
(HttpWaits): it waits for more until the client goes away. `CommandsEnd` shows that the time limit of the
browser resolves this. In the same way a GET whose answer comes in one chunk is stored but reported as
a disconnection. When a header ends exactly with a chunk the file is damaged: FilesArrive holds only
without `torn`. Two PUTs to one file mix, and a GET beside a PUT announces a length that it does not send;
PutAlone and GetAlone say that nothing else goes wrong, InOrder what order is left. In Probe
a late answer shifts those after it: MatchedUntilTimeout is the most that holds.

## The proofs

Every module whose name ends in `Proofs` is checked by tlapm for every value of the constants that meets the
assumptions of its component:

| assumption | says |
| --- | --- |
| `QueueAssumption` | a positive capacity; NULL is no message |
| `SocketAssumption` | ends in pairs, positive table and kernel sizes, programs that close once, at their end |
| `FramingAssumption` | chunks smaller than the range of a byte, a positive kernel buffer, no message longer than the buffer |
| `ConnectionsAssumption` | a positive capacity; NULL and memory that is not initialised are no contents of a table |
| `ServiceAssumption` | a queue of at least one place |
| `ServerAssumption` | the log is a file, and the requests are requests, with any announced and any real length |
| `ExchangeAssumption` | chunks of at least one byte; a file holds CRs, LFs and other bytes, and no file is not a file |
| `BrowserAssumption` | the files there at the beginning are such files; urls and names are typed from parts without separators of their own (`IsUrl`, `IsName`): a path begins with a slash and has no colon, a component is one token, a port is a number; "80" is 80 |
| `ProbeAssumption` | the destination is a hop and there is a last hop, neither related to the other; a word holds at least six values and those of the packet |

The invariants the runs check are all proved there; none is inductive as it stands, and each
`IInv` is what TLC had found to hold before the proof. The facts about sequences and finite sets come
from `SequenceTheorems` and `FiniteSetTheorems`.

*CQueue.* `IInv` adds to the types that a slot holds a message exactly when it lies
between `st` and `end`. Each operation changes one slot and one index, and moves one end of the
window; the contents then change as in BoundedFifo.

*MySocket.* None of the properties is inductive alone. `IInv` has for each end
`HolderInv` (a thread between lock and unlock holds the mutex, hence mutual exclusion),
`TestInv` (what a test found stays true while the mutex is held, hence no message
is dropped by a full `push`), `WokenInTime` (a thread that waits though it could go on has a
partner at its signal; it needs `TestInv` for the state at the moment of `Park`),
`HandInv` (when S and R have a message in hand) and `CloseInv` (how far `my_close` is with the threads, hence
no mutex of a dead thread is asked for), and for the network `NetInv` (only an end
that has stopped its threads is closed or resets its peer). `Others` shows that a step of one end leaves the invariant of
the others; then one lemma per action, and `Invariance` by induction. The theorems
`SocketTypeCorrect`, `TablesExclusive`, `TestsStillHold`, `WakeupsNotLost` and `DeadHoldersHarmless`
follow.

*The refinement.* `SocketIsChannel`: MySocket implements MsgChannel. A direction is the peer's
received table, the message in R's hand, the wire, the message in S's hand and the
send table, in this order; once the receiving end has gone it is empty, once the
sending end has gone its table no longer counts. `STake`, `SSend`, `RReceive` and `RPut` pass a message from one part to the
next (the direction stays the same), `SendPut` is `Send`, `RecvGet` is `Receive`, `Cancel` and an
exit are `Close`, `SCutOff` and `Free` are `Lose`. An exit needs `NetInv`: a process dies of a reset
only after its peer has gone, when nothing is under way to it.

*HttpServer.* `IInv` has for each child what it knows of its file at each step (`PutInv`, `GetInv`), unless `clash`
says that another has written to it, and for each file and answer that its pieces are in order and
none is younger than the last its child may have written (`StoreInv`, `SentInv`). InOrder alone is not
inductive: a chunk comes after all others of its child only because of that bound, and an answer stays
in order because what lies behind the reader follows what he has read (`Follows`).
`Renewed` is what any write does to a file: a piece is the old one at its place or one of the writer,
younger than all he has written. That suffices for `StoreKept` and `SentKept`, and each write is
shown to be one (`AppendRenews`, `OverRenews`). `OthersKeep` shows that a step of one child leaves
what the others know, or sets their `clash`. The theorems `PutAloneStores`, `GetAloneMeasures` and
`PiecesInOrder` follow, for any number of children and any files and requests.

*Framing.* That `recv_helper` never writes behind its buffer (`BufferNeverOverrun`) depends on every byte under way: the size
bytes say how much follows. `Readings(a, st)` is the function that gives the place of `recv_helper` (what is in its buffer, what is left of
the chunk, what it has returned) after each byte of a stream `st` that it begins to read at `a`. `StreamInv` says that the bytes under way take it from where it is
to where `send_helper` is (`InStep`), and at none of them more is asked for than the buffer has room for (`Fits`). The lemmas on `Readings` are
by induction over the bytes: a stream in two parts (`ReadConcat`, `FitsConcat`), a byte, a part of a chunk (`ReadChunk`), and that what was
returned before makes no difference (`ReadLater`). A `send` prolongs the stream (`ReadsByte`, `ReadsChunk`), a `recv` shortens it at
the front (`TakesByte`, `TakesChunk`), a reset at the end (`ReadFront`), wherever the kernel cuts. With them each step of Framing is a step of WholeMessages or none
(the lemmas `Whole...` and the step lemmas): `FramingCarriesWholeMessages`, for any messages, chunk size and width of a byte.

*Connections.* `SetUpInv` says which pointers lead to a table of this connection at each step of `init_connection`, `TurnInv` that the
threads of one connection have ended before those of the next begin, `OwnInv` that the table and the program hold messages of
this connection alone, and `SoundInv` what holds as long as no thread has run early: nothing has happened before
`init_connection` returns, and afterwards what was accepted is what was sent, what is in the table and what is in a thread's hand. `OnlyOwnMessages` holds
even when threads run early; `SetUpSound` shows that starting the threads before the tables are made is the only thing that can go wrong.

*TimeService.* For any number of clients. `FlowInv` gives each direction of each channel what it is for: what was received
and what is under way is a beginning of what was sent, all of it while the channel is open and its receiver has lost nothing (`Torn`); `LostInv` says
where a client is that has lost the time, and that nothing follows it. `QueueInv`
keeps a client in the queue once, and neither served nor past its set-up meanwhile; `TurnInv` ties the server's position to what it has said to the client
whose turn it is; `TalkInv` does the same for every client, in or out of turn. With them `Abreast` (server and client are at points that
belong together) and `OneAtATime` (no other client is in a conversation) are inductive; these two and the order of each client's messages are `InTurn`, which
`ConversationInTurn` proves.

*HttpExchange and Browser.* The stream to a side is a header and a body. `Taken` counts what its loop has taken, and `OnWay` says that the bytes
under way are the part of header and body that begins there: this is what no cut of the stream can change. `ToChildInv` and
`ToBrowserInv` say it for both directions, with the header found so far (`HeadInv`), the file stored so far (`Stored`), and
what is left to send (`LastPart`); it needs to hold only until a side refuses, ends, or has a torn header. `ChildInv` and
`BrowserInv` say what each side knows at each of its steps. `ScanMore` and `ScanEnd` are about the search for the blank line: wherever a chunk begins
in the header, `cnt` is `CntAt` of the place, and the search ends at the last CR of the blank line, at no other. `BeginStep` shows that a new
command starts the invariant anew, for which `HeaderRead` proves that what `parse_header` takes out of a request is what `createheader` was given.
`HeadersExact`, `FilesArriveWhole` and, from the same invariant, the action property `OnlyReceiversWriteFiles` follow, for any
lines, any files and any chunk size.

*The session of Browser.* Three invariants beside these: `SaidInv`, the arrays hold the words of what was said and nothing else; `AskedInv`, the
command that runs is the one that was said; `StoreInv`, what is known to be stored at a name is there, and a GET has
opened what was there when it began. The first needs no more than `sscanf` and `Said` (`SaidStep`), in both versions. The second is about the text of a
url: `UrlTextIs` says which part lies where in it, `UrlPlaces` that each of the scans of `parseurl` stops at the right separator or at the
end, `UrlRead` that host, path and port come out as they were typed; `BaseNameIs` and `FileIn` do the same for the name that a PUT
appends to the path, and `HeaderRead` for the request. `Meant` joins them for a line that does not fail, and `UserExchange` shows that
nothing in the exchange touches what they speak of. The third is what a PUT leaves (`FilesAre`) and a GET keeps
(`WritersKnow`). `CommandsAskedAsTyped` and `GetsOpenWhatWasPut` follow, for any number of lines.

*Induction over data.* The library's induction theorems take an operator as parameter, which no prover here instantiates.
`SetInduction` in BrowserProofs and FramingProofs takes a set instead (zero is in it, and with each number the next), and is proved from the
well-foundedness of the inclusion of finite sets (`FS_StrictSubsetOrderingWellFounded`), by way of `LeastNumber`. `CountsIs` uses it for the
recursive function `Counts`, `ComponentsAre` for that of `Components`, `ReadingsIs` for `Readings`: that there is a function of the kind the definition describes.

*Probe.* `OneUnderWay` says that until something times out or a stranger writes there is one probe or one answer and nothing else; `NotBefore`
that messages of the destination answer probes that could reach it; `NotBeyond` that an answer of the destination has set the flag.
They give `MessagesMatched` and `StopsThere` for any route, whether the destination is within reach or not. `PacketsVerify` is
about arithmetic: the sum of a packet folded twice fits a word, as `checksum` assumes, because there are fewer carries than values
of a word; with the checksum in its place the folded sum is all ones.

Only model-checked: liveness (`CloseReturns`, `AllDelivered`, `AllReturned`, `ArrivalsReturned`, `FailedCallEnds`, `AllServed`,
`CommandsEnd`, `Ends`), which needs fairness and ENABLED.

## What is not modelled

The contents of a message, except in Framing; the length that `my_recv` cuts a message to
and `my_send` returns; failures of `malloc` and `pthread_create`; a second thread of the program that
uses the library. Of the HTTP programs: dates and document types, which are opaque tokens; the characters of names and
values; paths with a colon of their own, which `parseurl` takes for a port; directories: one that a PUT finds missing, or a
GET of one (in the model a url that ends with a slash names no file and is answered 404); the viewer
itself, which `openapp` starts and forgets; end of input at the prompt, where `main` goes on for ever
with empty lines (MyBrowser.c:496); how many children that nobody waits for (MyHTTP.c:379) make `fork` fail.
Of pingnetinfo: the measured times and what is printed; no step depends on them.

The earlier versions of the HTTP programs stand beside those under `submit`, which replace them.
`client.c` and `Client.c` are one file; its `main` is the version "client" of Browser, its other functions and those of
`server.c` do what those of `MyBrowser.c` and `MyHTTP.c` do, and are not modelled a second time.
Build files, example requests, texts and PDFs have no behaviour.

## The plan

1. Done: tables, threads and calls, framing, set-up, time service, HTTP exchange, headers, browser, HTTP server,
   probing loop, and their runs; the proofs of every component's type correctness, of all invariants, of one action
   property, and of the refinements of the tables, of the channel and of the framing.
2. Left to TLC: liveness, for which no prover here has a rule.
