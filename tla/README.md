# ModServer in TLA+

ModServer is a small TCP server whose protocols are plugins: one thread runs a
`select()` loop (`src/server_core/`), every plugin (`src/server_plugin/`) gets
one listening socket, and every accepted connection gets a protocol handler
made by the plugin that owns the listener. This directory holds TLA+ modules
that model that code, the TLC configurations that check them on small
instances, and theorems about them that TLAPS checks for every value of the
constants. All line numbers are those of the files under `src/`.

## The system

| part | state | operations | talks to |
| --- | --- | --- | --- |
| server loop (`server_core/server.cpp`) | `m_sessions`, `m_maxFd`, the three `fd_set`s of an iteration | `InitPlugins`, `Run`, `RegisterSession`, `FillReadyRead`, `FillReadyWrite`, `ReadData`, `SendData`, `LoadPlugins`, `UnloadAllPlugins` | plugins (ports, handlers), sessions, `select()` |
| sessions (`session.cpp`, `tcp_session.cpp`) | socket, protocol handler (NULL for acceptors) | `CanRead`, `HasDataToSend`, `OnRead`, `OnWrite`, destructor | the socket, the handler, `Server::RegisterSession` |
| sockets (`socket/`) | one descriptor, or `kInvalidSocket` | `Open`, `Bind`, `Listen`, `Accept`, `Send`, `Receive`, `ShutDown`, `Close`, `Select` | the kernel; all blocking |
| protocol handler (`plugin_api/protocol_handler.h`) | what the protocol needs | `AllocateChunk`, `DiscardChunk`, `DidReceive`, `data_to_send`, `DidSend`, `FreeHandler` | called by sessions |
| HTTP plugin (`server_plugin/http/`) | request being assembled, response being sent | `HttpRequestParser::Parse`, `HttpHandler`, `HttpResponse` | implements the handler interface |
| plugin host (`plugin_loader.cpp`, `server_plugin.cpp`, `base/dynamic_lib_*`) | loaded libraries | `LoadAll`, `AddPlugin`, `IsValid`, `UnloadAll` | the server, the file system, `dlopen` |
| controller plugin (`server_plugin/controller/`) | buffer | `DidReceive`, which calls `UnloadAllPlugins` | stale: in no `CMakeLists.txt` |
| `main.cpp`, `command_line.cpp`, `logger.cpp` | switches, logger | start-up and shut-down order, `ParseSwitch` | everything |
| `ip_endpoint.cpp`, `encoding.cpp`, `path_*.cpp`, `os_info_*.cpp` | none to speak of | conversions and searches | the host |

What is hard in this code: the kernel and the clients change what `select()`
reported while the loop still works from it; the loop tests a set that is one
phase old; descriptors are reused; `accept()` may fail and nobody looks at its
result; sockets block, so one call can stop every session; a client may reset,
half-close or pipeline at any moment; and libraries can be unloaded under live
sessions. `PROJECT.json` lists these hazards at their lines.

The models follow the UNIX build (`CMakeLists.txt`, no optimisation, asserts
on). `http_handler.cpp` includes `windows.h` at this commit, so the HTTP plugin
itself builds on Windows only; the code modelled does not depend on it.

## Modules

| module | what it is |
| --- | --- |
| `FdSet` | `FD_SET`, `FD_ISSET` and what `select(n, ...)` leaves in a set, with the word granularity of the copy and the bit that descriptor -1 hits |
| `ServerLoop` | `Server::Run` and all it calls: `InitPlugins`, the loop, both kinds of session, the sockets, the kernel and the clients |
| `Exchange` | the abstract promise: a half-duplex exchange of requests and replies per connection |
| `ServerExchange` | the refinement mapping from `ServerLoop` to `Exchange` |
| `InitPlugins` | `Server::InitPlugins` call by call, with the end points' buffers and the sockets that it opens and closes |
| `MCInitPlugins`, `InitPluginsProofs` | the addresses TLC runs it on; inductive invariant and theorems |
| `MCServerLoop` | the module TLC runs on |
| `ServerLoopProofs` | inductive invariant and theorems of the loop, and that it implements the exchange |
| `HttpParser` | `HttpRequestParser::Parse`, one step per turn of its loop |
| `HttpMessages` | messages as clients send them, and what they should be cut into |
| `MCHttpParser` | the requests and messages TLC runs them on |
| `HttpParserProofs` | the parser's inductive invariants and theorems |
| `HttpHandler` | one connection of the HTTP plugin from `accept()` to `~Session`: `OnRead` and `OnWrite` driving `HttpHandler` and `HttpResponse`; the mapping to `Exchange` |
| `HttpClient` | what a client that believes `Content-length` makes of the replies |
| `HttpHandlerProofs` | inductive invariants and theorems of the handler and its client |
| `PluginHost` | `main`, the logger and who logs to it, the plugins' libraries, and the `Server` around its loop |
| `FolderSearch` | `GetAllSubfolders`, `GetFilesWildcard` and the loops of `LoadAll`, entry by entry, while entries are removed |
| `PluginHostProofs`, `FolderSearchProofs` | inductive invariants and theorems |
| `CommandLine`, `CommandLineProofs` | `InitFromArgv` down to `ParseSwitch`, one step per argument; inductive invariant and theorem |
| `NatInduction` | induction over the naturals and least elements, as lemmas about sets |

### ServerLoop and the code

A session is named by its registration number, so `m_sessions` is the set
`sessions` in the order of the numbers. `handle[s]` is
`session->socket()->handle()`, `owed[s]` what `data_to_send_size()` would
return, `acceptors` the sessions that are `AcceptorSession`s. `pc` is the place
in `Run`: `init` (in `InitPlugins`), `select`, `read` (in `ReadData`), `send`
(in `SendData`), and the ends `returned`, `killed` (SIGPIPE) and `crashed`
(`FreeHandler` through NULL). `todo` is what is left of the list that
`ReadData` or `SendData` walks, front first. The kernel is `fds`, `backlog`
(listen queues), `unread`, `peer` and `room` (send buffers).

| action | code |
| --- | --- |
| `ListenerOpens`, `ListenerFails` | one turn of the loop of `InitPlugins` (server.cpp:101) |
| `EnterLoop` | `Run` up to the loop (37) |
| `Select`, `SelectFails` | 46-78 and the list that `ReadData` makes first (214) |
| `AcceptOk`, `AcceptFails` | `AcceptorSession::OnRead` (tcp_session.cpp:49) with `RegisterSession` |
| `ReceiveOk`, `ReceiveEnds` | `ConnectionSession::OnRead` (30); `ReceiveEnds` with the deletion in `ReadData` |
| `ReadDone` | the list that `SendData` makes (233) |
| `SendOk`, `SendEnds`, `SendKills` | `OnWrite` (18) with `DidSend`, with the deletion in `SendData`, or with SIGPIPE |
| `Client...` | connect, send, close, reset, read |

A call that blocks is an action that is not enabled. `Select` is atomic because
nothing the kernel or a client does between `FillReadyRead` and the return of
`select()` can be told from doing it before. `fd_set`s, `m_maxFd` and the
unsigned comparison in `RegisterSession` are modelled by what they do, because
the interesting behaviour is there: registering a session on descriptor -1
compares 2^32-1 with `m_maxFd` and sets it to 0, and `FD_SET(-1)` sets the last
bit of the first word (`FdBit`; on x86-64 the compiled shift takes its count
modulo 64; optimised builds could differ). A protocol handler is abstracted to
any reply of 0 to `MaxReply` units for any received chunk, since plugins are
arbitrary code, with one restriction: a new session owes nothing
(`RegisterSession`). `protocol_handler.h` would allow a handler that greets its
client before the first `DidReceive`; no plugin of the repository has one, and
what is shown of the loop, `NullHandlerNeverFreed` above all, is not shown for it.

### InitPlugins and the code

In `ServerLoop` a turn of `InitPlugins` is one step that opens a listener or
leaves nothing behind. `InitPlugins` has the calls of a turn: `pc` is `turn`
(the end point; `NewEndPoint`, `ConstructorAsserts`), then `bind`, `listen` and
`register` with a socket in hand (`newSock`, `m_ep`). `continue` is `Continue`,
which includes `~Socket` of the `shared_ptr` that goes out of scope. An `m_ip` is
an array that held anything (`Junk`), `Snprintf` writes to it and `Text` reads
it, so that the address goes the way it goes in the code: the command line, the
end point, its copy in the `TcpListener`, `bind()`. The system may refuse any
call; `refused` remembers for whom. No connection is looked at here, since
nobody reads before the loop.

### HttpParser, HttpHandler and the code

`status`, `pos`, `start`, `pieceLen`, `method`, `url`, `http` are the variables
of `Parse` of the same names (`pos` is `currentPos`; a pointer is an index), and
there is one action per `case` of its `switch`. Bytes are the classes that the
`switch` tells apart. `DidReceive` always hands `Parse` a request that was just
made, so that a run begins in `START` at 0.

`HttpMessages` says what a message is: words without blanks, a version and
header lines without line ends, an empty line, and anything behind it
(`RequestOf`). `ParsesMessages` promises method, URL and version of every message;
of messages with headers also that the headers are the message's and that `Parse`
stops on the last byte of their empty line. It promises no more of a message
without headers: `HEADER_NEWLINE` is entered behind a header line only
(request.cpp:221), so that the parser counts the empty line as a header and runs on
into whatever follows. The requests of the run include such messages; no line of
the repository says what should become of them, so that this is no finding.

`HttpHandler` leaves the parser's inside to `HttpParser` and keeps what matters
for a connection: that `Parse` returns `FINISHED` for every request that is not
empty. `request` and `response` are `m_request` and `m_response`, `heap` counts
what the plugin has allocated, by class. A reply is made of units (a line, a
byte of content, a CRLF) by `SetStatus`, `AddHeader` and `SetContent` in the
order of `DidReceive`; `made` and `delivered` record what was made and sent.
Messages are sequences of parts, the last one marked, so that the model can say
which data belong together. `OnAccept`, `OnRead` and `OnWrite` are the sessions'
functions for one connection, `OnReadEnds` and `OnWriteEnds` those that make
`ReadData` or `SendData` delete the session; what makes the loop call them is in
`ServerLoop`. The two models meet in `Exchange`: the loop implements it for
every handler with nothing to send before its first `DidReceive`, and this handler,
which is one of them, implements one connection of it.

`HttpClient` adds no state. It reads `delivered` as a client does that takes as
many bytes as `Content-length` says and skips empty lines in front of a status
line; the second is an assumption about clients that the four bytes behind each
content make necessary.

### PluginHost, CommandLine and the code

`pc` follows `main`: `start`, `logging` (after `InitLog`), `loading` (in
`LoadAll`), `init` and `loop` (in `Run`), `closing` (from the end of `Run` or of
a failed `LoadPlugins` to the end of `main`), and the ends `exited`, `aborted`
(an assertion) and `killed` (SIGPIPE). The folder (`disk`) and the libraries
(`code`) are chosen at the start and stay. A file is tried at most once, so that
the plugin and the `DynamicLib` made for it are named by the file. Both counts
that decide when a library is closed are there: `refs`, which `dlopen()` and
`dlclose()` keep for each library (several files may be links to one), and
`owners`, the `shared_ptr`s to each `DynamicLib`. The turn of a file in
`LoadAll` goes through `turn`, with the file `inHand` as long as `pluginDll` is
in scope: `LoadLib` makes the first `shared_ptr`, `WrapLib` copies it to
`m_lib`, `NotValid` lets the `unique_ptr` delete the plugin and `AddPlugin`
releases it to `m_plugins`, and `EndTurn` ends the scope of `pluginDll`. `Drop`
is a `shared_ptr` that goes: the last one deletes the `DynamicLib`, whose
destructor calls `dlclose()`. `buffered` says whether the logger's stream still
holds text, which is what `Log` leaves behind each time. Of the server's loop
only the handlers are kept: `NewHandler` and `FreeHandler` any number of times,
until `Run` returns or the process is killed (`ServerLoop` has the rest).

`logFn` is the set of libraries whose `LogFn` is set. `PluginHost` takes the
result of the search (`Found`, `Foremost`) as given; `FolderSearch` shows it: a
stack of calls of `GetAllSubfolders` with what `readdir_r()` has not returned
yet, `fstatat()` that fails for dangling links and for entries that are gone, the
same for `GetFilesWildcard` (`listing` is what it has not read yet of its folder),
and the loops of `LoadAll`. The search is recursive or not; `LoadAll` asks for the
second. Cycles of links, on which a recursive search would not end, are left out.

`CommandLine` keeps strings, because its properties are about cutting them; only
the characters that `ParseSwitch` tells apart matter.

Not in the models: descriptors at or above `FD_SETSIZE` (the default limit on
open files equals it), `select()` interrupted by a signal (the program installs
no handler), UDP, memory exhaustion, and what `Log` writes.

## Runs

| run | constants | checks |
| --- | --- | --- |
| `loop_faults` | 2 plugins, 4 descriptors, words of 3 bits, 3 connections, 1 failing `accept()`, replies of 1 unit | `TypeOK`; `DescriptorsOwned`: open descriptors and live sessions match one to one; `NullHandlerNeverFreed`: no acceptor is deleted |
| `loop_safety` | 1 plugin, 3 descriptors, 3 connections, listen queue 2, replies of 2 units, 1 failing `accept()` | until an `accept()` fails: `SelectCoversUntilAcceptFails`, `ReadsOnlyIdle`, `ReadsDontBlock`, `SendsOnlyOwed`, `RunGoesOn`: `select()` never fails and ends the server, and the action property `ReplyKept` |
| `loop_live` | 1 plugin, 3 descriptors, 2 connections, no failing `accept()` | `ReadableIsRead`: every ready session gets its turn; `ReplyGetsOut`: every reply is sent or its session ends; `ImplementsExchange`: the safety part of `Exchange` |
| `maxfd_reset` | 1 plugin, 1 failing `accept()` | expected violation of `SelectCovers`, see below |
| `http_parser` | every string of up to 5 bytes over `x`, blank, CR, LF, NUL; every beginning of messages with up to 2 headers, alone or followed by more data | `TypeOK`; `PiecesInRequest`; `ParsesMessages`: method, URL and version are the message's, and if it has headers they are, too, and it ends at its empty line; `NeverSpins`: `n` bytes take at most `2 n + 2` turns of the loop; `Finishes`: it ends |
| `http_stream` | chunks of 2 parts, 4 parts in all, contents of up to 2 bytes | `StreamIntact`: the client gets every reply whole, once and in order; `NothingLeaks`: an ended session leaves no chunk, request or handler; `ClientInStep`: the client takes each content whole and finds the next reply; `ImplementsExchange`, `ExchangeProgresses` |
| `http_append` | the same | expected violation of `AppendsData`, see below |
| `process` | 2 files that are links to either of 2 libraries, ports 0, 80 and 81, 1 handler per plugin; every folder layout, library content and command line | `TypeOK`; `HandlesOwned`: a library is open once for each plugin or file in hand that needs it, not at all at exit; `CallsLand`: no call through NULL or into a closed library; `LoggerOutlivesPlugins`; `AllLoaded`: every plugin of the folder is loaded; `OneLog`: plugins the loop calls log to the host's log |
| `folder_search` | 4 entries (folder, plugin, other, dangling) in every tree, any folder closed, 1 entry removed | `SearchComplete`: every plugin file that stays is tried; `TriedInOrder`: once, and the plugin folder's own last |
| `init_plugins` | 3 plugins, 2 descriptors, ports 0, 80, 81, buffers of 4, addresses of 0 to 5 characters | `ListenersOwned`: no descriptor leaks; `AddressKept`: sessions listen on the address given; `OthersServed`: a failing plugin costs no other its listener |
| `process_log` | 1 file, 1 library | expected violation of `AllOutputLogged`, see below |
| `command_line` | up to 2 arguments of up to 4 characters out of `-`, `=` and another | `SwitchesAsGiven`: names and values as given, the first of a name wins |

The bounds are chosen so that the cases that matter occur: in `loop_faults`
words of 3 bits let descriptor -1 share its bit with a connection and lie above
or below `m_maxFd`, the descriptors can run out, and a descriptor that a session
closes is reused in the same iteration while `SelectFails` is reached as well;
in `loop_safety` a reply is sent in parts, a second request is pipelined behind
the first, and clients half-close and reset at every point. `MaxConnects` and
`MaxAcceptErrs` are the only bounds that cut behaviours off. Deadlock is not
checked (`CHECK_DEADLOCK FALSE`) because the process really stops: `Run`
returns, SIGPIPE ends it, and a blocked call with a silent client waits forever.

Fairness (`FairSpec`): the server thread takes a step whenever one is enabled
(it is the only thread, and a call that can return does), and every client goes
on reading what it is sent (`ClientReads`). The second is an assumption about
clients that the code needs and does not enforce: sockets are blocking and
there is no time limit, so a client that stops reading stops the server.
The liveness runs have enough descriptors for all connections and no failing
`accept()`. `HttpHandler!FairSpec` has the loop call `OnWrite` for a session with
a reply, which is what `ReplyGetsOut` shows of the loop.

`init_plugins` and `folder_search` cover every length around the buffer's size
(one short of the assertion's limit, the limit, the size, beyond), fewer
descriptors than plugins, and a folder with a file below another folder.

### Findings

`maxfd_reset`: server.cpp:88 says "Update the maxFd for select() to work." One
failing `accept()` sets `m_maxFd` to 0, so that `select()` watches nothing,
sleeps for its five minutes and then leaves the sets as they were filled, which
makes the loop call `accept()` and `recv()` on every idle session and block.

`http_append`: protocol_handler.h:18 says that `DidReceive` "Appends to the data
received from server." The parser takes the end of the data for the end of the
message (`'\0'` at request.cpp:113 and in the states after it) and never
returns `MORE_DATA`, so `DidReceive` answers the beginning of a message and
deletes it (http_handler.cpp:80), and a message that arrives in two chunks is
answered twice.

`process_log`: main.cpp:8 says that `-logToFile` logs "all output to a file".
`Log` leaves its text in the stream until the next `Log` or `UninitLog`; without
`-serverIp` main returns right after `Log(ERR)` (main.cpp:34), and the line that
tells why is not in the file.

## Theorems

`ServerLoopProofs` proves for all values of the constants (assumptions:
`CountsAssumption`, `MaxFdsAssumption`: all descriptors are below `UIntRange`,
`WordBitsAssumption`, `UIntRangeAssumption`):

- `TypeCorrect`: `Spec => []TypeOK`.
- `Ownership`: `Spec => []DescriptorsOwned`.
- `AcceptorsLive`: `Spec => []NullHandlerNeverFreed`, with no restriction on
  failing `accept()` calls, for handlers that have nothing to send before their
  first `DidReceive`: the proof rests on it. `DescriptorsOwned` and the property
  alone are not inductive; `AcceptorsSafe` adds why: a session on descriptor -1
  owes nothing, so only sessions with a descriptor of their own put a bit into
  `writeSet`, and that bit is no acceptor's; nothing changes this during
  `ReadData`.
- `LoopWatches`, `LoopReadsIdle`, `LoopReadsReady`, `LoopSendsOwed`: the first
  four state properties of `loop_safety`. The strengthening is `LoopSound`:
  while the read walk lasts, the sessions left in it are idle and ready, every
  bit of `writeSet` belongs to a session that owes a reply and is not in the
  walk, and a newly accepted descriptor was closed before, so it is in neither.
- `LoopGoesOn`: `RunGoesOn`, since every bit that is asked for is then an open
  descriptor, and the listeners' sessions are never deleted.
- `RepliesKept`: `Spec => ReplyKept`, from the same invariant (`LoopInv`).

It also proves `LoopImplementsExchange`: with no failing `accept()`, and for the
same handlers, `Spec => ImplementsExchange`. Each step of the loop or of a
client is a step of `Exchange` or a stutter under the mapping
(`OpensConnection`, `ReceivesRequest`, `SendsReply`, `EndsConnection`). That
registration numbers stay within the connections there can ever be needs
`Counted`: the connections that wait in a listen queue and the sessions
registered are together no more than the plugins and connects so far.

`InitPluginsProofs` proves `ListenersKept`, `AddressesKept` and `EachServed` for
every number of plugins, set of descriptors, buffer size, contents of memory and
set of addresses (`InitPluginsAssumption`). `SnprintfText` is the lemma on the
buffer: a text shorter than the buffer is read back as it was. The strengthening
`IInv` says how far the socket in hand is (`SocketInHand`), that closed
descriptors have no address and plugins whose turn has not ended no session
(`NothingElse`), and `OthersServed` for the turns that are over (`ServedSoFar`).

`HttpParserProofs` proves `ParserTyped` (`TypeOK`) and `PiecesSafe`
(`PiecesInRequest`) for every set of requests. The strengthening is
`ReadingInRequest`: the piece being read ends at or before the position (before
it once a carriage return was passed over) and lies behind every header; a turn
of the loop cuts nothing off (`NoCut`), cuts the request line (`CutLine`) or a
header (`CutHeader`). `ParserNeverSpins` (`NeverSpins`) follows from the types:
`TurnsLeft`, which counts two turns for a byte, gets smaller in every turn.

`MessagesParsed` (`ParsesMessages`) is for every message: any words, any number
of headers of any length, none included, any bytes behind them
(`SentAssumption`). Its first half is about the message alone. `Lines` is a
recursive function, so that where header `k` lies in it is a fact proved by
induction (`LinesLayout`), and `RequestLayout` and `HeaderLayout` put the whole
together with `Occurs(s, at, r)`: the piece `s` is found in `r` at `at`. The
second half is the invariant `MessagesRead`: the parser is inside the piece that
its `status` names (`ReadingWord`, `ReadingLine`), the pieces cut off so far are
those of the message (`LineRead`, `HeadersRead`), and behind a header line it is
at the next header or at the empty line (`AtNewline`). Behind the empty line of
a message without headers nothing is said but that its request line stays cut as
it was (`RunsOn`). There is one lemma per `case` (`MethodFollows` to
`HeaderNewlineFollows`); `WordStep` and `LineStep` are what they share.

`HttpHandlerProofs` proves `StreamKept`, `NothingLost` and
`HandlerImplementsExchange` for every chunk size, content size and client. With
the types `StreamIntact` is inductive: `OnRead` needs `response` to be empty,
which is what `CanRead` gives it, and `DidSend` drops just what was sent
(`DropSent`). The other two need `Answered`: between two calls no request is
held, the handler is all that is allocated, and a reply has at most
`MaxContent + Framing` units.

`ClientFollows` (`ClientInStep`), in the same module, is about all that a client
makes of any number of replies. The invariant `ClientInv` says that what was
delivered so far is a number of whole replies and the first `i` units of the one
being sent, and that the client reading it is where `InReply` says for `i`.
`ReplyLayout` gives the units of a reply, `ReadOneMore` what one more unit does to
the client, and `RestOfReply`, by induction over the units sent in one `OnWrite`,
what any number of them do.

`PluginHostProofs` proves `HostTyped`, `LibrariesClosed`, `CallsSafe`,
`PluginsLoaded`, `LoggerLasts` and `LogsToHost` (the run's six invariants) for
every file system, set of libraries and command line, from `HandlersAssumption`
only. The strengthening `HostInv` adds where in `main` the logger exists and
plugins may be loaded (`LoggerInv`), that `m_plugins` holds valid plugins and
what is still to be tried is not among them (`PluginsInv`), that only plugins
that were initialised have acceptors and only these have handlers until `~Server`
forgets both (`UsersInv`), and what is wanted is loaded, in hand or still to be
tried (`WantedInv`). `LibrariesClosed` is about the two counts: `TurnInv` says
which file is in hand at which point of its turn, `OwnersInv` that a `DynamicLib`
has one owner for `pluginDll` and one for `m_lib`, as long as the plugin is
there, and `RefsInv` that a library's count is the number of files that hold it,
in hand or in `m_plugins`. `Drop` keeps these only if it closes with the last
owner: `RefsFollow` is the lemma on the number of files when one comes or goes
(with `LinksAdded` about its cardinality), and `RefsRight` gives the property.

`FolderSearchProofs` proves `NoPluginMissed` (`SearchComplete`) and
`TriedOnceInOrder` (`TriedInOrder`) for every number of entries, every tree of
them, every order in which `readdir_r()` lists them, recursive or not, while
entries are removed. The invariant `IInv` follows the phases. While folders are
searched (`Searching`), no folder is open twice and no entry unread twice
(`FramesSound`), and a folder below one that was entered is found or still to be
read (`FoldersComplete`). When the search is done these add up to all the folders
that can be reached, which needs induction over the tree (`Reached` is a recursive
function on entries, and a parent has a smaller number). After that the files
wanted are tried, listed, not yet read of the folder being listed, or in a folder
whose turn comes (`FilesSound`,
`FilesComplete`). `RemovedBottomUp`, that a folder is removed after its entries,
is what the file system promises.

`CommandLineProofs` proves `SwitchesRight` (`SwitchesAsGiven`) for every command
line over every alphabet: the invariant says of the arguments parsed so far what
the property says of all, with the least argument of a name (`LeastElement`) as
the one that counts.

The proofs about sequences of any length need induction, and the library's
induction theorems take an operator as parameter, which the installed provers
cannot instantiate. `NatInduction` has induction for sets instead
(`SetInduction`): a set of naturals with 0 and the successors of its members is
`Nat`. It is proved from the pigeonhole principle of the library, with no
assumption of its own. The models keep to recursive functions, so that such a set
can be written down for what a definition computes.

Only model-checked: the liveness properties (`ReadableIsRead`, `ReplyGetsOut`,
`Finishes`) and the progress part of the handler's refinement
(`ExchangeProgresses`), because temporal reasoning under fairness and `ENABLED`
are out of the prover's reach. Of `Finishes` the part about steps is proved
(`ParserNeverSpins`); that a turn is always possible before the end is left to
TLC.

## Plan

Done: the loop with its proofs and refinement; `InitPlugins`; the HTTP plugin with
parser, handler, client and refinement; the process with plugin host, logging and
folder search; the command line; theorems for every state property and action
property that a run checks. What could be added: the plugins of
`PluginHost` as those that `ServerLoop` starts with, in one model. So far the two
share their alphabet (`NewHandler` and `FreeHandler` while `Run` lasts) and no
state.

## Not modelled

- The controller plugin: it is in no build file, and it includes headers and
  overrides functions that do not exist any more. With it goes
  `UnloadAllPlugins` during `Run`, which nothing else calls: what
  `src/README.md:7` says of swapping plugins at run time has no code behind it
  yet.
- Windows variants (`socket_win.cpp`, `dynamic_lib_win.cpp`, `path_win.cpp`,
  `encoding.cpp`, whose conversion only the Windows build calls).
- System information: text for the log, no state.
- `buf[bytesRead] = '\0'` (tcp_session.cpp:43) when `recv()` fills the chunk:
  the byte falls behind the object and inside the block that `malloc` gives for
  it, and nothing reads it.
- Descriptors at or above `FD_SETSIZE`: the models assume the default limit on
  open files. That SIGPIPE ends the process is modelled (`SendKills`); no line
  of the repository says what should happen instead.
- `gtest/`, the vendored test framework, which is 61,000 of the repository's
  64,900 lines. The program itself has about 3,000, headers and the Windows
  variants included.
