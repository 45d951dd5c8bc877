----------------------------- MODULE ServerLoop -----------------------------
(***************************************************************************)
(* Server::Run and everything it calls: the plugin listeners it opens, the *)
(* select() loop, AcceptorSession and ConnectionSession, and the sockets   *)
(* they own.  src/server_core/server.cpp, session.cpp and tcp_session.cpp, *)
(* with the wrappers of src/socket/.                                       *)
(*                                                                         *)
(* The server is one thread; what interleaves with it is the kernel and    *)
(* the clients.  A session is named by its registration number, so the     *)
(* order of m_sessions is the order of the numbers.  Protocol handlers are *)
(* abstracted to the number of reply units they still owe their client.    *)
(***************************************************************************)
EXTENDS FdSet, FiniteSets

CONSTANTS
  NumPlugins,     \* plugins that m_pluginLoader holds
  MaxFds,         \* descriptors the process may open (RLIMIT_NOFILE)
  MaxListen,      \* Server::m_maxListen, the length of a listen queue
  MaxReply,       \* longest reply of a handler, in units; size of a send buffer
  MaxConnects,    \* bound: connections the clients attempt
  MaxAcceptErrs   \* bound: calls of accept() that fail

ASSUME CountsAssumption ==
  /\ NumPlugins \in Nat
  /\ MaxFds \in Nat
  /\ MaxListen \in Nat \ {0}
  /\ MaxReply \in Nat \ {0}
  /\ MaxConnects \in Nat
  /\ MaxAcceptErrs \in Nat

\* Every descriptor is a valid index of an fd_set and far below 2^32 - 1.
ASSUME MaxFdsAssumption == MaxFds < UIntRange

Fds     == 0 .. (MaxFds - 1)
Handles == Fds \cup {InvalidSocket}

VARIABLES
  pc,          \* where Server::Run is, or how it ended
  plugin,      \* plugins that InitPlugins has been through
  sessions,    \* m_sessions: the registration numbers of the live sessions
  registered,  \* sessions registered so far
  acceptors,   \* the live sessions that are AcceptorSessions
  handle,      \* [sessions -> Handles]: session->socket()->handle()
  owed,        \* [sessions -> 0..MaxReply]: m_protoHandler->data_to_send_size()
  maxFd,       \* m_maxFd
  todo,        \* rest of the list that ReadData or SendData walks
  writeSet,    \* what select() left in writeSet
  fds,         \* kernel: the open descriptors
  backlog,     \* kernel: [Fds -> 0..MaxListen]: connections not yet accepted
  unread,      \* kernel: [Fds -> BOOLEAN]: request bytes wait to be received
  peer,        \* kernel: [Fds -> {"up", "fin", "rst"}]: the other end
  room,        \* kernel: [Fds -> 0..MaxReply]: free space of the send buffer
  connects,    \* connections attempted so far
  acceptErrs   \* calls of accept() that have failed

table  == <<sessions, registered, acceptors, handle, owed, maxFd>>
kernel == <<backlog, unread, peer, room>>
bounds == <<connects, acceptErrs>>
server == <<pc, plugin, table, todo, writeSet, fds, acceptErrs>>
vars   == <<server, kernel, connects>>

\* A new descriptor is the lowest number that is free.
Free    == Fds \ fds
IsNew(f) == f \in Free /\ \A g \in Free : f <= g

\* ConnectionSession::HasDataToSend and CanRead; AcceptorSession overrides
\* them with false and true.
HasDataToSend(s) == s \notin acceptors /\ owed[s] > 0
CanReadAlways(s) == TRUE   \* mutant: CanRead without its condition
CanRead(s)       == s \in acceptors \/ ~HasDataToSend(s)

\* What select() finds ready.
Listeners == { handle[s] : s \in acceptors }
ReadableFds ==
  { f \in fds : backlog[f] > 0 \/ unread[f] \/ peer[f] # "up" }
WritableFds ==
  { f \in fds \ Listeners : room[f] > 0 \/ peer[f] = "rst" }

\* The sessions whose bit is in an fd_set: FD_ISSET(handle, &set).
InSet(set) == { s \in sessions : FdBit(handle[s]) \in set }

\* FillReadyRead and FillReadyWrite: the bits that are asked for.
AllBits      == { FdBit(handle[s]) : s \in sessions }   \* mutant of both
ReadRequest  == { FdBit(handle[s]) : s \in {t \in sessions : CanRead(t)} }
WriteRequestSwapped == ReadRequest   \* mutant: the condition of the other one
WriteRequest == { FdBit(handle[s]) : s \in {t \in sessions : HasDataToSend(t)} }

\* s is the front of the list that ReadData or SendData walks.
IsFront(s) == s \in todo /\ \A t \in todo : s <= t

-----------------------------------------------------------------------------
(* Operations on the session table. *)

\* Server::RegisterSession of a session on descriptor h.  It owes nothing: an
\* acceptor never does, and a connection's handler has no data before its first
\* DidReceive, as the repository's.  Handlers that greet first, which ProtocolHandler
\* would allow, are left out.
\* sockId >= m_maxFd compares as unsigned; m_maxFd = sockId + 1 wraps to 0.
\* Mutants: one too many, > for >=, the + 1 forgotten.
MaxFdAfterPlusTwo(h) == IF AsUnsigned(h) >= maxFd THEN h + 2 ELSE maxFd
MaxFdAfterGreater(h) == IF AsUnsigned(h) > maxFd THEN h + 1 ELSE maxFd
MaxFdAfterNoPlus(h)  == IF AsUnsigned(h) >= maxFd THEN h ELSE maxFd
MaxFdAfter(h) == IF AsUnsigned(h) >= maxFd THEN h + 1 ELSE maxFd

RegisterSession(h) ==
  LET id == registered + 1
  IN  /\ registered' = id
      /\ sessions' = sessions \cup {id}
      /\ handle' = [s \in sessions' |-> IF s = id THEN h ELSE handle[s]]
      /\ owed' = [s \in sessions' |-> IF s = id THEN 0 ELSE owed[s]]
      /\ maxFd' = MaxFdAfter(h)

\* Mutant: ~Socket only shuts down.
CloseFdNot(f) == UNCHANGED <<fds, kernel>>

\* close(f): a closed descriptor is kept in the state that a new one starts in.
CloseFd(f) ==
  /\ fds' = fds \ {f}
  /\ backlog' = [g \in Fds |-> IF g = f THEN 0 ELSE backlog[g]]
  /\ unread' = [g \in Fds |-> IF g = f THEN FALSE ELSE unread[g]]
  /\ peer' = [g \in Fds |-> IF g = f THEN "up" ELSE peer[g]]
  /\ room' = [g \in Fds |-> IF g = f THEN MaxReply ELSE room[g]]

\* ~Session calls FreeHandler, through a NULL pointer if s is an acceptor.
AfterFree(s) == IF s \in acceptors THEN "crashed" ELSE pc

RemoveNothing(s)    == sessions   \* mutant
RemoveFromVector(s) == sessions \ {s}

\* RemoveFromVector, then delete session: the handler is freed and ~Socket shuts
\* down and closes the descriptor (which fails on kInvalidSocket, unnoticed).
DeleteSession(s) ==
  /\ sessions' = RemoveFromVector(s)
  /\ acceptors' = acceptors \ {s}
  /\ handle' = [t \in sessions' |-> handle[t]]
  /\ owed' = [t \in sessions' |-> owed[t]]
  /\ todo' = todo \ {s}
  /\ CloseFd(handle[s])
  /\ pc' = AfterFree(s)
  /\ UNCHANGED <<plugin, registered, maxFd, writeSet, bounds>>

Init ==
  /\ pc = "init"
  /\ plugin = 0
  /\ sessions = {} /\ registered = 0 /\ acceptors = {}
  /\ handle = [s \in {} |-> InvalidSocket]
  /\ owed = [s \in {} |-> 0]
  /\ maxFd = 0
  /\ todo = {}
  /\ writeSet = {}
  /\ fds = {}
  /\ backlog = [f \in Fds |-> 0]
  /\ unread = [f \in Fds |-> FALSE]
  /\ peer = [f \in Fds |-> "up"]
  /\ room = [f \in Fds |-> MaxReply]
  /\ connects = 0
  /\ acceptErrs = 0

-----------------------------------------------------------------------------
(* Server::InitPlugins, one plugin at a time. *)

\* Open, Bind and Listen succeed: the listener's session is registered.
ListenerOpens ==
  /\ pc = "init" /\ plugin < NumPlugins
  /\ plugin' = plugin + 1
  /\ \E f \in Free :
       /\ IsNew(f)
       /\ fds' = fds \cup {f}
       /\ RegisterSession(f)
  /\ acceptors' = acceptors \cup {registered'}
  /\ UNCHANGED <<pc, todo, writeSet, kernel, bounds>>

\* The end point is invalid, the plugin is not TCP, or Open, Bind or Listen
\* fails: continue, and the shared_ptr closes what was opened.
ListenerFails ==
  /\ pc = "init" /\ plugin < NumPlugins
  /\ plugin' = plugin + 1
  /\ UNCHANGED <<pc, table, todo, writeSet, fds, kernel, bounds>>

\* Run returns at once when no session was registered.
EnterLoop ==
  /\ pc = "init" /\ plugin = NumPlugins
  /\ pc' = IF sessions = {} THEN "returned" ELSE "select"
  /\ UNCHANGED <<plugin, table, todo, writeSet, fds, kernel, bounds>>

-----------------------------------------------------------------------------
(* The loop of Server::Run. *)

\* select() fails with EBADF: a bit below m_maxFd that is no open descriptor.
BadRequest ==
  \E b \in ReadRequest \cup WriteRequest : b < maxFd /\ b \notin fds

\* Mutant: ReadData is given the set that was asked for, not select()'s result.
SelectIgnored ==
  /\ pc = "select" /\ ~BadRequest
  /\ pc' = "read"
  /\ todo' = InSet(ReadRequest)
  /\ writeSet' = SelectResult(WriteRequest, maxFd, WritableFds)
  /\ UNCHANGED <<plugin, table, fds, kernel, bounds>>

\* FillReadyRead, FillReadyWrite, select() and the first half of ReadData, which
\* copies the ready sessions into a list.  Nothing ready is the timeout.
Select ==
  /\ pc = "select" /\ ~BadRequest
  /\ pc' = "read"
  /\ todo' = InSet(SelectResult(ReadRequest, maxFd, ReadableFds))
  /\ writeSet' = SelectResult(WriteRequest, maxFd, WritableFds)
  /\ UNCHANGED <<plugin, table, fds, kernel, bounds>>

SelectFails ==
  /\ pc = "select" /\ BadRequest
  /\ pc' = "returned"
  /\ UNCHANGED <<plugin, table, todo, writeSet, fds, kernel, bounds>>

\* accept() on listener f may return -1: no descriptor is left (and a connection
\* stays queued), or the connection was aborted while it waited.
AcceptAborts(f) == backlog[f] > 0 \/ Free = {}

\* AcceptorSession::OnRead: the session that accept()'s result is wrapped in is
\* registered without a look at it.  accept() blocks when neither action can run.
AcceptOk(s) ==
  /\ pc = "read" /\ IsFront(s) /\ s \in acceptors
  /\ backlog[handle[s]] > 0
  /\ backlog' = [backlog EXCEPT ![handle[s]] = @ - 1]
  /\ \E f \in Free :
       /\ IsNew(f)
       /\ fds' = fds \cup {f}
       /\ RegisterSession(f)
  /\ todo' = todo \ {s}
  /\ UNCHANGED <<pc, plugin, acceptors, writeSet, unread, peer, room,
                 bounds>>

\* Mutant: AcceptorSession::OnRead returns the -1 that accept() gave it.
AcceptFailsReported(s) ==
  /\ pc = "read" /\ IsFront(s) /\ s \in acceptors
  /\ Free = {}
  /\ DeleteSession(s)

\* The same with kInvalidSocket.
AcceptFails(s) ==
  /\ pc = "read" /\ IsFront(s) /\ s \in acceptors
  /\ acceptErrs < MaxAcceptErrs
  /\ AcceptAborts(handle[s])
  /\ backlog' = [backlog EXCEPT ![handle[s]] = IF Free = {} THEN @ ELSE @ - 1]
  /\ acceptErrs' = acceptErrs + 1
  /\ RegisterSession(InvalidSocket)
  /\ todo' = todo \ {s}
  /\ UNCHANGED <<pc, plugin, acceptors, writeSet, fds, unread, peer, room,
                 connects>>

\* recv() on h returns 0 (the client has closed) or -1.
RecvEnds(h) ==
  h # InvalidSocket => peer[h] = "rst" \/ (peer[h] = "fin" /\ ~unread[h])

\* ConnectionSession::OnRead receives part or all of what waits; DidReceive
\* replaces whatever the handler owed by a new reply, which may be empty.
ReceiveOk(s) ==
  /\ pc = "read" /\ IsFront(s) /\ s \notin acceptors
  /\ handle[s] # InvalidSocket /\ unread[handle[s]]
  /\ \E rest \in BOOLEAN : unread' = [unread EXCEPT ![handle[s]] = rest]
  /\ \E reply \in 0 .. MaxReply : owed' = [owed EXCEPT ![s] = reply]
  /\ todo' = todo \ {s}
  /\ UNCHANGED <<pc, plugin, sessions, registered, acceptors, handle, maxFd,
                 writeSet, fds, backlog, peer, room, bounds>>

\* OnRead returns 0 or -1, and ReadData deletes the session.  recv() blocks when
\* neither ReceiveOk nor ReceiveEnds can run.
ReceiveEnds(s) ==
  /\ pc = "read" /\ IsFront(s) /\ s \notin acceptors
  /\ RecvEnds(handle[s])
  /\ DeleteSession(s)

\* ReadData is over; SendData lists the sessions that m_sessions holds now and
\* whose bit select() left in writeSet.
ReadDone ==
  /\ pc = "read" /\ todo = {}
  /\ pc' = "send"
  /\ todo' = InSet(writeSet)
  /\ writeSet' = {}
  /\ UNCHANGED <<plugin, table, fds, kernel, bounds>>

\* What send() may return for s: all it was given; 0 when it was given nothing;
\* -1 on no socket or a reset one; the part that fitted when the reset came
\* after it.  A blocking send() waits while none of these is possible.
SendResults(s) ==
  { n \in -1 .. owed[s] :
      IF handle[s] = InvalidSocket
      THEN n = -1
      ELSE \/ n = owed[s] /\ n <= room[handle[s]]
           \/ peer[handle[s]] = "rst" /\ n <= room[handle[s]] /\ n # 0 }

\* Mutant: OnWrite does not call DidSend.
SendOkForgotten(s) ==
  /\ pc = "send" /\ IsFront(s) /\ handle[s] # InvalidSocket
  /\ \E n \in SendResults(s) :
       n > 0 /\ room' = [room EXCEPT ![handle[s]] = @ - n]
  /\ todo' = todo \ {s}
  /\ UNCHANGED <<pc, plugin, table, writeSet, fds, backlog, unread, peer,
                 bounds>>

\* OnWrite sends, DidSend drops what was sent from the handler's reply.
SendOk(s) ==
  /\ pc = "send" /\ IsFront(s) /\ handle[s] # InvalidSocket
  /\ \E n \in SendResults(s) :
       /\ n > 0
       /\ owed' = [owed EXCEPT ![s] = @ - n]
       /\ room' = [room EXCEPT ![handle[s]] = @ - n]
  /\ todo' = todo \ {s}
  /\ UNCHANGED <<pc, plugin, sessions, registered, acceptors, handle, maxFd,
                 writeSet, fds, backlog, unread, peer, bounds>>

\* OnWrite returns 0 or -1, and SendData deletes the session.
SendEnds(s) ==
  /\ pc = "send" /\ IsFront(s)
  /\ \E n \in SendResults(s) : n < 1
  /\ DeleteSession(s)

\* send() on a reset connection raises SIGPIPE, which nothing in src/ handles.
SendKills(s) ==
  /\ pc = "send" /\ IsFront(s) /\ handle[s] # InvalidSocket
  /\ owed[s] > 0 /\ peer[handle[s]] = "rst"
  /\ pc' = "killed"
  /\ UNCHANGED <<plugin, table, todo, writeSet, fds, kernel, bounds>>

SendDone ==
  /\ pc = "send" /\ todo = {}
  /\ pc' = "select"
  /\ UNCHANGED <<plugin, table, todo, writeSet, fds, kernel, bounds>>

-----------------------------------------------------------------------------
(* The clients. *)

Alive == pc \in {"init", "select", "read", "send"}
Connections == fds \ Listeners

ClientConnects(f) ==
  /\ Alive /\ f \in Listeners /\ backlog[f] < MaxListen
  /\ connects < MaxConnects
  /\ connects' = connects + 1
  /\ backlog' = [backlog EXCEPT ![f] = @ + 1]
  /\ UNCHANGED <<server, unread, peer, room>>

ClientSends(f) ==
  /\ Alive /\ f \in Connections /\ peer[f] = "up" /\ ~unread[f]
  /\ unread' = [unread EXCEPT ![f] = TRUE]
  /\ UNCHANGED <<server, backlog, peer, room, connects>>

\* The client closes, or only shuts down its sending half.
ClientCloses(f) ==
  /\ Alive /\ f \in Connections /\ peer[f] = "up"
  /\ peer' = [peer EXCEPT ![f] = "fin"]
  /\ UNCHANGED <<server, backlog, unread, room, connects>>

ClientResets(f) ==
  /\ Alive /\ f \in Connections /\ peer[f] # "rst"
  /\ peer' = [peer EXCEPT ![f] = "rst"]
  /\ UNCHANGED <<server, backlog, unread, room, connects>>

\* The client takes a unit of reply out of the socket's buffer.
ClientReads(f) ==
  /\ Alive /\ f \in Connections /\ peer[f] # "rst" /\ room[f] < MaxReply
  /\ room' = [room EXCEPT ![f] = @ + 1]
  /\ UNCHANGED <<server, backlog, unread, peer, connects>>

-----------------------------------------------------------------------------
ServerStep ==
  \/ ListenerOpens \/ ListenerFails \/ EnterLoop
  \/ Select \/ SelectFails \/ ReadDone \/ SendDone
  \/ \E s \in sessions : \/ AcceptOk(s) \/ AcceptFails(s)
                         \/ ReceiveOk(s) \/ ReceiveEnds(s)
                         \/ SendOk(s) \/ SendEnds(s) \/ SendKills(s)

ClientStep ==
  \E f \in fds : \/ ClientConnects(f) \/ ClientSends(f) \/ ClientCloses(f)
                 \/ ClientResets(f) \/ ClientReads(f)

Next == ServerStep \/ ClientStep

Spec == Init /\ [][Next]_vars

\* The server thread runs whenever it is not blocked in a call, and clients go
\* on reading what is sent to them.
FairSpec ==
  /\ Spec
  /\ WF_vars(ServerStep)
  /\ \A f \in Fds : WF_vars(ClientReads(f))

-----------------------------------------------------------------------------
(* Properties.  Several hold as long as no accept() has failed: the session  *)
(* that AcceptorSession::OnRead registers on descriptor -1 breaks them.      *)

NoAcceptFailed == acceptErrs = 0

TypeOK ==
  /\ pc \in {"init", "select", "read", "send", "returned", "crashed", "killed"}
  /\ plugin \in 0 .. NumPlugins
  /\ registered \in Nat
  /\ sessions \subseteq 1 .. registered
  /\ acceptors \subseteq sessions
  /\ handle \in [sessions -> Handles]
  /\ owed \in [sessions -> 0 .. MaxReply]
  /\ maxFd \in 0 .. MaxFds
  /\ todo \subseteq sessions
  /\ writeSet \subseteq Nat
  /\ fds \subseteq Fds
  /\ backlog \in [Fds -> 0 .. MaxListen]
  /\ unread \in [Fds -> BOOLEAN]
  /\ peer \in [Fds -> {"up", "fin", "rst"}]
  /\ room \in [Fds -> 0 .. MaxReply]
  /\ connects \in Nat
  /\ acceptErrs \in Nat

\* Every open descriptor belongs to exactly one live session, and every session
\* that has a descriptor has an open one: accept, Listen and ~Socket neither leak
\* a descriptor nor close one that another session already reuses.
DescriptorsOwned ==
  /\ fds = { handle[s] : s \in sessions } \ {InvalidSocket}
  /\ \A s, t \in sessions :
       handle[s] = handle[t] /\ handle[s] # InvalidSocket => s = t

\* ~Session never runs on an AcceptorSession, whose m_protoHandler is NULL, in
\* whatever way accept() and the clients fail.
NullHandlerNeverFreed == pc # "crashed"

\* m_maxFd is above every descriptor, "for select() to work" (RegisterSession).
SelectCovers == \A s \in sessions : handle[s] < maxFd
SelectCoversUntilAcceptFails == NoAcceptFailed => SelectCovers

\* ReadData reads no connection whose handler still owes its client a reply, the
\* rule ConnectionSession::CanRead states (DidReceive would replace the reply).
ReadsOnlyIdle ==
  NoAcceptFailed /\ pc = "read" => \A s \in todo : ~HasDataToSend(s)

\* accept() and recv() do not block in ReadData: what select() found ready is
\* still ready when the walk gets to it.
ReadsDontBlock ==
  NoAcceptFailed /\ pc = "read" => \A s \in todo : handle[s] \in ReadableFds

\* SendData visits only sessions that have a reply to send, although it tests
\* the m_sessions of after ReadData against the writeSet of before: it would
\* delete a session that it makes send nothing.
SendsOnlyOwed ==
  NoAcceptFailed /\ pc = "send" => \A s \in todo : HasDataToSend(s)

\* Run leaves its loop only after an accept() has failed: every bit that it hands
\* to select() is an open descriptor, whatever the clients do, so that select()
\* never returns the -1 that ends the server for all of them.
RunGoesOn == NoAcceptFailed /\ pc = "returned" => registered = 0

\* No step makes a reply longer, and one drops what is left of it only
\* when the client has reset the connection.
ReplyKept ==
  [][\A s \in sessions : NoAcceptFailed /\ HasDataToSend(s) =>
       IF s \in sessions' THEN owed'[s] <= owed[s]
                          ELSE peer[handle[s]] = "rst"]_vars

\* The sessions a run can register while no accept() fails.
Ids == 1 .. (NumPlugins + MaxConnects)

\* Every acceptor with a waiting connection and every idle connection with a
\* request, an end or a reset to receive gets its turn in ReadData.
ReadableIsRead ==
  \A s \in Ids :
    (s \in sessions /\ CanRead(s) /\ handle[s] \in ReadableFds)
      ~> (s \notin sessions \/ ~Alive \/ (pc = "read" /\ s \in todo))

\* A reply is sent to its end, or its session ends.
ReplyGetsOut ==
  \A s \in Ids :
    (s \in sessions /\ HasDataToSend(s))
      ~> (s \notin sessions \/ ~Alive \/ ~HasDataToSend(s))

=============================================================================
