-------------------------- MODULE ServerLoopProofs --------------------------
(***************************************************************************)
(* Theorems about ServerLoop, for every number of plugins, descriptors,    *)
(* connections and failures of accept(), and every reply and word size;    *)
(* and, as long as no accept() fails, that Server::Run implements the      *)
(* half-duplex exchange.                                                   *)
(***************************************************************************)
EXTENDS ServerExchange, FiniteSetTheorems, TLAPS

USE DEF RemoveFromVector

-----------------------------------------------------------------------------
(* Types. *)

TableType ==
  /\ registered \in Nat
  /\ sessions \subseteq 1 .. registered
  /\ acceptors \subseteq sessions
  /\ handle \in [sessions -> Handles]
  /\ owed \in [sessions -> 0 .. MaxReply]
  /\ maxFd \in 0 .. MaxFds

KernelType ==
  /\ fds \subseteq Fds
  /\ backlog \in [Fds -> 0 .. MaxListen]
  /\ unread \in [Fds -> BOOLEAN]
  /\ peer \in [Fds -> {"up", "fin", "rst"}]
  /\ room \in [Fds -> 0 .. MaxReply]

LEMMA Numbers ==
  /\ NumPlugins \in Nat /\ MaxFds \in Nat /\ MaxListen \in Nat /\ MaxReply \in Nat
  /\ MaxListen > 0 /\ MaxReply > 0 /\ WordBits \in Nat /\ WordBits > 0
  /\ UIntRange \in Nat /\ MaxFds < UIntRange
  /\ Fds = 0 .. (MaxFds - 1) /\ InvalidSocket = -1 /\ InvalidSocket \notin Fds
BY CountsAssumption, MaxFdsAssumption, WordBitsAssumption, UIntRangeAssumption
DEF Fds, InvalidSocket

\* m_maxFd stays in range, also when -1 is converted to unsigned and back.
LEMMA MaxFdType ==
  ASSUME maxFd \in 0 .. MaxFds, NEW h \in Handles
  PROVE  MaxFdAfter(h) \in 0 .. MaxFds
BY Numbers DEF MaxFdAfter, Handles, AsUnsigned, InvalidSocket

\* RegisterSession keeps the session table well typed.
LEMMA RegisterType ==
  ASSUME TableType, NEW h \in Handles, RegisterSession(h)
  PROVE  /\ registered' = registered + 1
         /\ registered' \in Nat
         /\ sessions' = sessions \cup {registered'}
         /\ sessions' \subseteq 1 .. registered'
         /\ registered' \notin sessions
         /\ handle' \in [sessions' -> Handles]
         /\ owed' \in [sessions' -> 0 .. MaxReply]
         /\ maxFd' \in 0 .. MaxFds
<1>1. registered' = registered + 1 /\ sessions' = sessions \cup {registered + 1}
  BY DEF RegisterSession
<1>2. maxFd' \in 0 .. MaxFds
  BY MaxFdType DEF RegisterSession, TableType
<1>3. handle' \in [sessions' -> Handles] /\ owed' \in [sessions' -> 0 .. MaxReply]
  BY <1>1, Numbers DEF RegisterSession, TableType
<1> QED
  BY <1>1, <1>2, <1>3 DEF TableType

\* So does the deletion of a session, which also keeps the kernel's state typed.
LEMMA DeleteType ==
  ASSUME TableType, KernelType, NEW s \in sessions, DeleteSession(s)
  PROVE  TableType' /\ KernelType'
<1>1. TableType'
  BY DEF TableType, DeleteSession
<1>2. CloseFd(handle[s])
  BY DEF DeleteSession
<1>3. fds' \subseteq Fds
  BY <1>2 DEF KernelType, CloseFd
<1>4. backlog' \in [Fds -> 0 .. MaxListen]
  BY <1>2, Numbers DEF KernelType, CloseFd
<1>5. unread' \in [Fds -> BOOLEAN]
  <2>1. \A g \in Fds : (IF g = handle[s] THEN FALSE ELSE unread[g]) \in BOOLEAN
    BY Zenon DEF KernelType
  <2> QED
    BY <1>2, <2>1, Zenon DEF CloseFd
<1>6. peer' \in [Fds -> {"up", "fin", "rst"}]
  BY <1>2 DEF KernelType, CloseFd
<1>7. room' \in [Fds -> 0 .. MaxReply]
  BY <1>2, Numbers DEF KernelType, CloseFd
<1> QED
  BY <1>1, <1>3, <1>4, <1>5, <1>6, <1>7, Zenon DEF KernelType

\* A bit of an fd_set is a natural number.
LEMMA BitType ==
  ASSUME NEW h \in Handles
  PROVE  FdBit(h) \in Nat
BY Numbers DEF FdBit, Handles

LEMMA TypeSplit ==
  TypeOK <=> /\ pc \in {"init", "select", "read", "send",
                        "returned", "crashed", "killed"}
             /\ plugin \in 0 .. NumPlugins
             /\ TableType /\ KernelType
             /\ todo \subseteq sessions
             /\ writeSet \subseteq Nat
             /\ connects \in Nat /\ acceptErrs \in Nat
BY DEF TypeOK, TableType, KernelType

LEMMA InitType == Init => TypeOK
BY Numbers DEF Init, TypeOK, Handles

\* The steps that do not touch the session table but for owed.
LEMMA QuietType ==
  ASSUME TypeOK,
         \/ ListenerFails \/ EnterLoop \/ Select \/ SelectFails
         \/ ReadDone \/ SendDone \/ (\E s \in sessions : SendKills(s))
  PROVE  TypeOK'
<1> USE DEF table, kernel, bounds
<1>1. CASE ListenerFails
  BY <1>1, Numbers DEF TypeOK, ListenerFails
<1>2. CASE EnterLoop
  BY <1>2 DEF TypeOK, EnterLoop
<1>3. CASE Select
  <2>1. writeSet' \subseteq Nat
    <3>1. WriteRequest \subseteq Nat
      BY BitType DEF TypeOK, WriteRequest
    <3> QED
      BY <1>3, <3>1 DEF Select, SelectResult
  <2>2. todo' \subseteq sessions /\ pc' = "read"
    BY <1>3 DEF Select, InSet
  <2> QED
    BY <1>3, <2>1, <2>2 DEF TypeOK, Select
<1>4. CASE SelectFails
  BY <1>4 DEF TypeOK, SelectFails
<1>5. CASE ReadDone
  BY <1>5 DEF TypeOK, ReadDone, InSet
<1>6. CASE SendDone
  BY <1>6 DEF TypeOK, SendDone
<1>7. CASE \E s \in sessions : SendKills(s)
  BY <1>7 DEF TypeOK, SendKills
<1> QED
  BY <1>1, <1>2, <1>3, <1>4, <1>5, <1>6, <1>7

LEMMA ListenerOpensType ==
  ASSUME TypeOK, ListenerOpens
  PROVE  TypeOK'
<1> USE DEF kernel, bounds
<1>1. TableType /\ KernelType
  BY TypeSplit
<1>2. PICK f \in Free : RegisterSession(f) /\ fds' = fds \cup {f}
  BY DEF ListenerOpens
<1>3. f \in Fds /\ f \in Handles
  BY <1>2 DEF Free, Handles
<1>4. TableType'
  BY <1>1, <1>2, <1>3, RegisterType DEF ListenerOpens, TableType
<1>5. KernelType'
  BY <1>1, <1>2, <1>3 DEF ListenerOpens, KernelType
<1>6. todo' \subseteq sessions'
  BY <1>1, <1>2, <1>3, RegisterType DEF ListenerOpens, TypeOK
<1>7. plugin' \in 0 .. NumPlugins
  BY Numbers DEF ListenerOpens, TypeOK
<1> QED
  BY <1>4, <1>5, <1>6, <1>7 DEF ListenerOpens, TypeOK, TableType, KernelType

LEMMA AcceptType ==
  ASSUME TypeOK, NEW s \in sessions, AcceptOk(s) \/ AcceptFails(s)
  PROVE  TypeOK'
<1> USE DEF kernel, bounds
<1>1. TableType /\ KernelType
  BY TypeSplit
<1>2. PICK h \in Handles : RegisterSession(h)
  BY DEF AcceptOk, AcceptFails, Free, Handles
<1>3. acceptors' = acceptors /\ todo' = todo \ {s}
  BY DEF AcceptOk, AcceptFails
<1>4. TableType' /\ todo' \subseteq sessions'
  BY <1>1, <1>2, <1>3, RegisterType DEF TableType, TypeOK
<1>5. fds' \subseteq Fds
  BY <1>1 DEF AcceptOk, AcceptFails, Free, KernelType
<1>6. backlog' \in [Fds -> 0 .. MaxListen]
  <2>1. CASE AcceptOk(s)
    <3>1. /\ backlog' = [backlog EXCEPT ![handle[s]] = @ - 1]
          /\ backlog[handle[s]] > 0
      BY <2>1 DEF AcceptOk
    <3>2. ASSUME handle[s] \in Fds
          PROVE  backlog[handle[s]] - 1 \in 0 .. MaxListen
      BY <1>1, <3>1, <3>2, Numbers DEF KernelType
    <3> QED
      BY <1>1, <3>1, <3>2, Numbers DEF KernelType
  <2>2. CASE AcceptFails(s)
    <3> DEFINE left == IF Free = {} THEN backlog[handle[s]]
                                    ELSE backlog[handle[s]] - 1
    <3>1. backlog' = [backlog EXCEPT ![handle[s]] = left]
      BY <2>2 DEF AcceptFails
    <3>2. ASSUME handle[s] \in Fds
          PROVE  left \in 0 .. MaxListen
      <4>1. backlog[handle[s]] \in 0 .. MaxListen
        BY <1>1, <3>2 DEF KernelType
      <4>2. Free = {} \/ backlog[handle[s]] > 0
        BY <2>2 DEF AcceptFails, AcceptAborts
      <4> QED
        BY <4>1, <4>2, Numbers
    <3> HIDE DEF left
    <3> QED
      BY <1>1, <3>1, <3>2, Numbers DEF KernelType
  <2> QED
    BY <2>1, <2>2
<1>7. UNCHANGED <<pc, plugin, writeSet, unread, peer, room, connects>>
  BY DEF AcceptOk, AcceptFails
<1>8. acceptErrs' \in Nat
  BY DEF AcceptOk, AcceptFails, TypeOK
<1> QED
  BY <1>4, <1>5, <1>6, <1>7, <1>8 DEF TypeOK, TableType, KernelType

LEMMA ReceiveOkType ==
  ASSUME TypeOK, NEW s \in sessions, ReceiveOk(s)
  PROVE  TypeOK'
<1> USE DEF bounds
<1>1. PICK rest \in BOOLEAN : unread' = [unread EXCEPT ![handle[s]] = rest]
  BY DEF ReceiveOk
<1>2. unread' \in [Fds -> BOOLEAN]
  BY <1>1, Zenon DEF TypeOK
<1>3. owed' \in [sessions -> 0 .. MaxReply]
  BY Numbers DEF ReceiveOk, TypeOK
<1>4. todo' \subseteq sessions
  BY DEF ReceiveOk, TypeOK
<1> QED
  BY <1>2, <1>3, <1>4 DEF ReceiveOk, TypeOK

LEMMA EndsType ==
  ASSUME TypeOK, NEW s \in sessions, ReceiveEnds(s) \/ SendEnds(s)
  PROVE  TypeOK'
<1> USE DEF bounds
<1>1. DeleteSession(s)
  BY DEF ReceiveEnds, SendEnds
<1>2. TableType' /\ KernelType'
  BY <1>1, DeleteType, TypeSplit
<1>3. pc' \in {pc, "crashed"} /\ todo' \subseteq sessions'
  BY <1>1 DEF DeleteSession, AfterFree, TypeOK
<1> QED
  BY <1>1, <1>2, <1>3 DEF DeleteSession, TypeOK, TableType, KernelType

LEMMA SendOkType ==
  ASSUME TypeOK, NEW s \in sessions, SendOk(s)
  PROVE  TypeOK'
<1> USE DEF bounds
<1>1. handle[s] \in Fds
  BY DEF SendOk, TypeOK, Handles
<1>2. PICK n \in SendResults(s) :
        /\ n > 0
        /\ owed' = [owed EXCEPT ![s] = @ - n]
        /\ room' = [room EXCEPT ![handle[s]] = @ - n]
  BY DEF SendOk
<1>3. owed[s] \in 0 .. MaxReply /\ room[handle[s]] \in 0 .. MaxReply
  BY <1>1 DEF TypeOK
<1>4. n \in Int /\ n <= owed[s] /\ n <= room[handle[s]]
  BY <1>1, <1>2, <1>3, Numbers DEF SendResults
<1>5. owed[s] - n \in 0 .. MaxReply /\ room[handle[s]] - n \in 0 .. MaxReply
  BY <1>2, <1>3, <1>4, Numbers
<1>6. owed' \in [sessions -> 0 .. MaxReply] /\ room' \in [Fds -> 0 .. MaxReply]
  BY <1>1, <1>2, <1>5 DEF TypeOK
<1> QED
  BY <1>6 DEF SendOk, TypeOK, table

LEMMA ClientType ==
  ASSUME TypeOK, ClientStep
  PROVE  TypeOK'
<1> USE DEF server, table, Connections
<1>1. PICK f \in fds : \/ ClientConnects(f) \/ ClientSends(f) \/ ClientCloses(f)
                       \/ ClientResets(f) \/ ClientReads(f)
  BY DEF ClientStep
<1>2. f \in Fds
  BY DEF TypeOK
<1>3. CASE ClientConnects(f)
  <2>1. backlog[f] \in 0 .. MaxListen /\ backlog[f] < MaxListen
    BY <1>2, <1>3 DEF ClientConnects, TypeOK
  <2>2. backlog[f] + 1 \in 0 .. MaxListen
    BY <2>1, Numbers
  <2>3. backlog' \in [Fds -> 0 .. MaxListen] /\ connects' \in Nat
    BY <1>2, <1>3, <2>2 DEF ClientConnects, TypeOK
  <2> QED
    BY <1>3, <2>3 DEF ClientConnects, TypeOK
<1>4. CASE ClientSends(f)
  <2>1. unread' \in [Fds -> BOOLEAN]
    BY <1>4, Zenon DEF ClientSends, TypeOK
  <2> QED
    BY <1>4, <2>1 DEF ClientSends, TypeOK
<1>5. CASE ClientCloses(f)
  BY <1>2, <1>5 DEF ClientCloses, TypeOK
<1>6. CASE ClientResets(f)
  BY <1>2, <1>6 DEF ClientResets, TypeOK
<1>7. CASE ClientReads(f)
  <2>1. room[f] \in 0 .. MaxReply /\ room[f] < MaxReply
    BY <1>2, <1>7 DEF ClientReads, TypeOK
  <2>2. room[f] + 1 \in 0 .. MaxReply
    BY <2>1, Numbers
  <2>3. room' \in [Fds -> 0 .. MaxReply]
    BY <1>2, <1>7, <2>2 DEF ClientReads, TypeOK
  <2> QED
    BY <1>7, <2>3 DEF ClientReads, TypeOK
<1> QED
  BY <1>1, <1>3, <1>4, <1>5, <1>6, <1>7

LEMMA NextType == TypeOK /\ [Next]_vars => TypeOK'
<1> SUFFICES ASSUME TypeOK, [Next]_vars PROVE TypeOK'
  OBVIOUS
<1>1. CASE ServerStep
  <2>1. CASE ListenerOpens
    BY <2>1, ListenerOpensType
  <2>2. CASE \/ ListenerFails \/ EnterLoop \/ Select \/ SelectFails
             \/ ReadDone \/ SendDone \/ (\E s \in sessions : SendKills(s))
    BY <2>2, QuietType
  <2>3. CASE \E s \in sessions : AcceptOk(s) \/ AcceptFails(s)
    BY <2>3, AcceptType
  <2>4. CASE \E s \in sessions : ReceiveOk(s)
    BY <2>4, ReceiveOkType
  <2>5. CASE \E s \in sessions : ReceiveEnds(s) \/ SendEnds(s)
    BY <2>5, EndsType
  <2>6. CASE \E s \in sessions : SendOk(s)
    BY <2>6, SendOkType
  <2> QED
    BY <1>1, <2>1, <2>2, <2>3, <2>4, <2>5, <2>6, Zenon DEF ServerStep
<1>2. CASE ClientStep
  BY <1>2, ClientType
<1>3. CASE UNCHANGED vars
  BY <1>3 DEF vars, server, table, kernel, TypeOK
<1> QED
  BY <1>1, <1>2, <1>3 DEF Next

\* Every state of Server::Run and of the kernel is well typed; in particular
\* m_maxFd never leaves the descriptors' range, whatever accept() returns.
THEOREM TypeCorrect == Spec => []TypeOK
BY InitType, NextType, PTL DEF Spec

-----------------------------------------------------------------------------
(* Descriptors. *)

LEMMA InitOwned == Init => DescriptorsOwned
BY DEF Init, DescriptorsOwned

\* Opening a free descriptor for a new session, or registering the session on
\* kInvalidSocket without opening one, keeps sessions and descriptors matched.
LEMMA RegisterOwned ==
  ASSUME TypeOK, DescriptorsOwned, NEW h \in Handles, RegisterSession(h),
         h \notin fds,
         fds' = fds \cup ({h} \ {InvalidSocket})
  PROVE  DescriptorsOwned'
<1>1. /\ sessions' = sessions \cup {registered + 1}
      /\ registered + 1 \notin sessions
  BY RegisterType, TypeSplit
<1>2. \A s \in sessions : handle'[s] = handle[s]
  BY <1>1 DEF RegisterSession
<1>3. handle'[registered + 1] = h
  BY <1>1 DEF RegisterSession
<1>4. \A s \in sessions : handle[s] # h \/ h = InvalidSocket
  BY DEF DescriptorsOwned
<1>5. fds' = { handle'[s] : s \in sessions' } \ {InvalidSocket}
  BY <1>1, <1>2, <1>3 DEF DescriptorsOwned
<1> QED
  BY <1>1, <1>2, <1>3, <1>4, <1>5 DEF DescriptorsOwned

\* Closing the socket of a deleted session closes no other session's descriptor.
LEMMA DeleteOwned ==
  ASSUME DescriptorsOwned, NEW s \in sessions, DeleteSession(s)
  PROVE  DescriptorsOwned'
<1>1. sessions' = sessions \ {s} /\ fds' = fds \ {handle[s]}
  BY DEF DeleteSession, CloseFd
<1>2. \A t \in sessions' : handle'[t] = handle[t]
  BY DEF DeleteSession
<1> QED
  BY <1>1, <1>2 DEF DescriptorsOwned

LEMMA NextOwned == TypeOK /\ DescriptorsOwned /\ [Next]_vars => DescriptorsOwned'
<1> SUFFICES ASSUME TypeOK, DescriptorsOwned, [Next]_vars PROVE DescriptorsOwned'
  OBVIOUS
<1> USE DEF table
<1>1. CASE ListenerOpens \/ (\E s \in sessions : AcceptOk(s))
  <2>1. PICK f \in Free : RegisterSession(f) /\ fds' = fds \cup {f}
    BY <1>1 DEF ListenerOpens, AcceptOk
  <2>2. f \in Handles /\ f \notin fds /\ f # InvalidSocket
    BY Numbers DEF Free, Handles
  <2> QED
    BY <2>1, <2>2, RegisterOwned
<1>2. CASE \E s \in sessions : AcceptFails(s)
  <2>1. RegisterSession(InvalidSocket) /\ fds' = fds
    BY <1>2 DEF AcceptFails
  <2>2. InvalidSocket \in Handles /\ InvalidSocket \notin fds
    BY Numbers DEF Handles, TypeOK
  <2> QED
    BY <2>1, <2>2, RegisterOwned
<1>3. CASE \E s \in sessions : ReceiveEnds(s) \/ SendEnds(s)
  BY <1>3, DeleteOwned DEF ReceiveEnds, SendEnds
<1>4. ASSUME UNCHANGED <<sessions, handle, fds>>
      PROVE  DescriptorsOwned'
  BY <1>4 DEF DescriptorsOwned
<1>5. CASE \/ ListenerFails \/ EnterLoop \/ Select \/ SelectFails
           \/ ReadDone \/ SendDone
           \/ (\E s \in sessions : ReceiveOk(s) \/ SendOk(s) \/ SendKills(s))
  BY <1>4, <1>5 DEF ListenerFails, EnterLoop, Select, SelectFails, ReadDone,
                    SendDone, ReceiveOk, SendOk, SendKills
<1>6. CASE ClientStep
  BY <1>4, <1>6 DEF ClientStep, ClientConnects, ClientSends, ClientCloses,
                    ClientResets, ClientReads, server
<1>7. CASE UNCHANGED vars
  BY <1>4, <1>7 DEF vars, server
<1> QED
  BY <1>1, <1>2, <1>3, <1>5, <1>6, <1>7, Zenon DEF Next, ServerStep

\* No descriptor leaks, none is shared and none is closed twice, whatever
\* accept(), recv() and send() return (RegisterSession, ~Socket).
THEOREM Ownership == Spec => []DescriptorsOwned
<1>1. TypeOK /\ DescriptorsOwned /\ [Next]_vars => (TypeOK /\ DescriptorsOwned)'
  BY NextType, NextOwned
<1> QED
  BY InitType, InitOwned, <1>1, PTL DEF Spec

-----------------------------------------------------------------------------
(* Acceptors are never deleted.  SendData would delete one whose bit were in *)
(* writeSet, so no acceptor's bit may get there: only a session that owes a  *)
(* reply asks for its bit, it has a descriptor, and that one is its own.     *)

AcceptorsSafe ==
  /\ pc # "crashed"
  /\ \A s \in sessions : handle[s] = InvalidSocket => owed[s] = 0
  /\ \A s \in acceptors : handle[s] # InvalidSocket
  /\ pc = "read" => \A s \in acceptors : handle[s] \notin writeSet
  /\ pc = "send" => todo \cap acceptors = {}

LEMMA InitAcceptors == Init => AcceptorsSafe
BY DEF Init, AcceptorsSafe

LEMMA SelectAcceptors ==
  ASSUME TypeOK, DescriptorsOwned, AcceptorsSafe, Select
  PROVE  AcceptorsSafe'
<1>1. \A b \in WriteRequest : \A s \in acceptors : handle[s] # b
  <2> SUFFICES ASSUME NEW t \in sessions, t \notin acceptors, owed[t] > 0,
                      NEW s \in acceptors, handle[s] = FdBit(handle[t])
               PROVE  FALSE
    BY DEF WriteRequest, HasDataToSend
  <2>1. handle[t] # InvalidSocket
    BY Numbers DEF AcceptorsSafe
  <2>2. handle[s] = handle[t] /\ s \in sessions
    BY <2>1 DEF FdBit, TypeOK
  <2> QED
    BY <2>1, <2>2 DEF DescriptorsOwned
<1>2. writeSet' \subseteq WriteRequest
  BY DEF Select, SelectResult
<1>3. pc' = "read" /\ UNCHANGED <<sessions, acceptors, handle, owed>>
  BY DEF Select, table
<1> QED
  BY <1>1, <1>2, <1>3 DEF AcceptorsSafe

LEMMA RegisterAcceptors ==
  ASSUME TypeOK, AcceptorsSafe,
         ListenerOpens \/ (\E s \in sessions : AcceptOk(s) \/ AcceptFails(s))
  PROVE  AcceptorsSafe'
<1>1. PICK h \in Handles : RegisterSession(h)
  BY DEF ListenerOpens, AcceptOk, AcceptFails, Free, Handles
<1>2. /\ sessions' = sessions \cup {registered + 1}
      /\ registered + 1 \notin sessions
      /\ registered' = registered + 1
  BY <1>1, RegisterType, TypeSplit
<1>3. /\ \A s \in sessions : handle'[s] = handle[s] /\ owed'[s] = owed[s]
      /\ owed'[registered + 1] = 0
  BY <1>1, <1>2 DEF RegisterSession
<1>4. acceptors \subseteq sessions
  BY DEF TypeOK
<1>5. CASE ListenerOpens
  <2>1. PICK f \in Free : RegisterSession(f)
    BY <1>5 DEF ListenerOpens
  <2>2. handle'[registered + 1] = f /\ f # InvalidSocket
    BY <1>2, <2>1, Numbers DEF RegisterSession, Free
  <2>3. acceptors' = acceptors \cup {registered + 1} /\ pc = "init" /\ pc' = pc
    BY <1>2, <1>5 DEF ListenerOpens
  <2> QED
    BY <1>2, <1>3, <1>4, <2>2, <2>3 DEF AcceptorsSafe
<1>6. CASE \E s \in sessions : AcceptOk(s) \/ AcceptFails(s)
  <2>1. acceptors' = acceptors /\ pc = "read" /\ pc' = pc /\ writeSet' = writeSet
    BY <1>6 DEF AcceptOk, AcceptFails
  <2> QED
    BY <1>2, <1>3, <1>4, <2>1 DEF AcceptorsSafe
<1> QED
  BY <1>5, <1>6

LEMMA EndsAcceptors ==
  ASSUME TypeOK, AcceptorsSafe, NEW s \in sessions, ReceiveEnds(s) \/ SendEnds(s)
  PROVE  AcceptorsSafe'
<1>1. DeleteSession(s)
  BY DEF ReceiveEnds, SendEnds
<1>2. s \notin acceptors
  BY DEF ReceiveEnds, SendEnds, IsFront, AcceptorsSafe
<1>3. /\ pc' = pc /\ writeSet' = writeSet /\ acceptors' = acceptors
      /\ sessions' = sessions \ {s} /\ todo' = todo \ {s}
      /\ \A t \in sessions' : handle'[t] = handle[t] /\ owed'[t] = owed[t]
  BY <1>1, <1>2 DEF DeleteSession, AfterFree
<1>4. acceptors \subseteq sessions'
  BY <1>2, <1>3 DEF TypeOK
<1> QED
  BY <1>3, <1>4 DEF AcceptorsSafe

LEMMA NextAcceptors ==
  TypeOK /\ DescriptorsOwned /\ AcceptorsSafe /\ [Next]_vars => AcceptorsSafe'
<1> SUFFICES ASSUME TypeOK, DescriptorsOwned, AcceptorsSafe, [Next]_vars
             PROVE  AcceptorsSafe'
  OBVIOUS
<1> USE DEF table
<1>1. CASE Select
  BY <1>1, SelectAcceptors
<1>2. CASE ListenerOpens \/ (\E s \in sessions : AcceptOk(s) \/ AcceptFails(s))
  BY <1>2, RegisterAcceptors
<1>3. CASE \E s \in sessions : ReceiveEnds(s) \/ SendEnds(s)
  BY <1>3, EndsAcceptors
<1>4. CASE ListenerFails \/ EnterLoop \/ SelectFails \/ SendDone
  BY <1>4 DEF ListenerFails, EnterLoop, SelectFails, SendDone, AcceptorsSafe
<1>5. CASE ReadDone
  <2>1. \A s \in acceptors : s \notin todo'
    BY <1>5 DEF ReadDone, InSet, AcceptorsSafe, FdBit
  <2> QED
    BY <1>5, <2>1 DEF ReadDone, AcceptorsSafe
<1>6. CASE \E s \in sessions : ReceiveOk(s)
  BY <1>6 DEF ReceiveOk, AcceptorsSafe, TypeOK
<1>7. CASE \E s \in sessions : SendOk(s)
  BY <1>7 DEF SendOk, AcceptorsSafe, TypeOK
<1>8. CASE \E s \in sessions : SendKills(s)
  BY <1>8 DEF SendKills, AcceptorsSafe
<1>9. CASE ClientStep \/ UNCHANGED vars
  BY <1>9 DEF ClientStep, ClientConnects, ClientSends, ClientCloses,
              ClientResets, ClientReads, vars, server, AcceptorsSafe
<1> QED
  BY <1>1, <1>2, <1>3, <1>4, <1>5, <1>6, <1>7, <1>8, <1>9, Zenon
  DEF Next, ServerStep

\* ~Session never calls FreeHandler through the NULL m_protoHandler of an
\* acceptor: SendData deletes none, although it tests the sessions of after
\* ReadData and kInvalidSocket's bit can be another session's.  This is for handlers
\* that have nothing to send before their first DidReceive (RegisterSession).
THEOREM AcceptorsLive == Spec => []NullHandlerNeverFreed
<1>1. TypeOK /\ DescriptorsOwned /\ AcceptorsSafe /\ [Next]_vars
        => (TypeOK /\ DescriptorsOwned /\ AcceptorsSafe)'
  BY NextType, NextOwned, NextAcceptors
<1>2. AcceptorsSafe => NullHandlerNeverFreed
  BY DEF AcceptorsSafe, NullHandlerNeverFreed
<1> QED
  BY InitType, InitOwned, InitAcceptors, <1>1, <1>2, PTL DEF Spec

-----------------------------------------------------------------------------
(* The loop while no accept() has failed.  The three properties of ReadData  *)
(* and SendData hang together: what select() found ready stays ready only    *)
(* because every session has a descriptor of its own, and writeSet stays     *)
(* true of the sessions only because none of those it names is read.         *)

ReadWalk ==
  /\ \A s \in todo : ~HasDataToSend(s) /\ handle[s] \in ReadableFds
  /\ \A b \in writeSet :
       \E s \in sessions \ todo : handle[s] = b /\ HasDataToSend(s)

SendWalk == \A s \in todo : HasDataToSend(s)

LoopSound ==
  NoAcceptFailed =>
    /\ \A s \in sessions : handle[s] # InvalidSocket /\ handle[s] < maxFd
    /\ pc = "read" => ReadWalk
    /\ pc = "send" => SendWalk

LEMMA InitLoop == Init => LoopSound
BY DEF Init, LoopSound

\* A bit below n that select(n, ...) leaves set was asked for and is ready.
LEMMA SelectedIsReady ==
  ASSUME NEW requested, NEW ready, NEW n \in Nat,
         NEW b \in SelectResult(requested, n, ready), b \in Nat, b < n
  PROVE  b \in requested /\ b \in ready
<1>1. b \in 0 .. (n - 1) /\ b \div WordBits = b \div WordBits
  OBVIOUS
<1>2. CopiedBack(b, n)
  BY <1>1 DEF CopiedBack
<1> QED
  BY <1>2 DEF SelectResult

LEMMA SelectLoop ==
  ASSUME TypeOK, DescriptorsOwned, LoopSound, Select
  PROVE  LoopSound'
<1> SUFFICES ASSUME NoAcceptFailed
             PROVE  LoopSound'
  BY DEF LoopSound, NoAcceptFailed, Select, bounds
<1>1. \A s \in sessions : /\ handle[s] # InvalidSocket /\ handle[s] < maxFd
                          /\ handle[s] \in Nat /\ FdBit(handle[s]) = handle[s]
  BY Numbers DEF LoopSound, TypeOK, Handles, FdBit
<1>2. maxFd \in Nat
  BY Numbers DEF TypeOK
<1>3. ASSUME NEW s \in todo'
      PROVE  s \in sessions /\ ~HasDataToSend(s) /\ handle[s] \in ReadableFds
  <2>1. s \in sessions /\ handle[s] \in SelectResult(ReadRequest, maxFd, ReadableFds)
    BY <1>1, <1>3 DEF Select, InSet
  <2>2. handle[s] \in ReadRequest /\ handle[s] \in ReadableFds
    BY <1>1, <1>2, <2>1, SelectedIsReady
  <2>3. PICK t \in sessions : CanRead(t) /\ handle[s] = FdBit(handle[t])
    BY <2>2 DEF ReadRequest
  <2>4. s = t
    BY <1>1, <2>1, <2>3 DEF DescriptorsOwned
  <2> QED
    BY <2>1, <2>2, <2>3, <2>4 DEF CanRead, HasDataToSend
<1>4. ASSUME NEW b \in writeSet'
      PROVE  \E s \in sessions : handle[s] = b /\ HasDataToSend(s)
  BY <1>1, <1>4 DEF Select, SelectResult, WriteRequest
<1>5. pc' = "read" /\ UNCHANGED <<table, kernel, fds>>
  BY DEF Select
<1>6. ReadWalk'
  BY <1>3, <1>4, <1>5 DEF ReadWalk, table, kernel, HasDataToSend, ReadableFds
<1> QED
  BY <1>1, <1>5, <1>6 DEF LoopSound, table

\* The new session's descriptor was closed, so no walk and no set knows it.
LEMMA AcceptLoop ==
  ASSUME TypeOK, DescriptorsOwned, LoopSound, AcceptorsSafe,
         NEW s \in sessions, AcceptOk(s)
  PROVE  LoopSound'
<1> SUFFICES ASSUME NoAcceptFailed
             PROVE  LoopSound'
  BY DEF LoopSound, NoAcceptFailed, AcceptOk, bounds
<1>1. PICK f \in Free : RegisterSession(f) /\ fds' = fds \cup {f}
  BY DEF AcceptOk
<1>2. f \in Fds /\ f \in Handles /\ f \notin fds /\ f \in Nat
  BY <1>1, Numbers DEF Free, Handles
<1>3. /\ sessions' = sessions \cup {registered + 1}
      /\ registered + 1 \notin sessions
      /\ registered' = registered + 1
  BY <1>1, <1>2, RegisterType, TypeSplit
<1>4. /\ \A t \in sessions : handle'[t] = handle[t] /\ owed'[t] = owed[t]
      /\ handle'[registered + 1] = f
  BY <1>1, <1>3 DEF RegisterSession
<1>5. maxFd' >= maxFd /\ maxFd' > f
  BY <1>1, <1>2, Numbers DEF RegisterSession, MaxFdAfter, AsUnsigned, TypeOK
<1>6. \A t \in sessions' : handle'[t] # InvalidSocket /\ handle'[t] < maxFd'
  <2>1. \A t \in sessions : handle[t] \in Int /\ handle[t] < maxFd
    BY Numbers DEF LoopSound, TypeOK, Handles
  <2>2. maxFd \in Int /\ maxFd' \in Int
    <3>1. maxFd \in 0 .. MaxFds /\ maxFd' = MaxFdAfter(f)
      BY <1>1 DEF RegisterSession, TypeOK
    <3> QED
      BY <1>2, <3>1, MaxFdType, Numbers
  <2>3. \A t \in sessions : handle'[t] # InvalidSocket /\ handle'[t] < maxFd'
    BY <1>4, <1>5, <2>1, <2>2, Numbers DEF LoopSound
  <2> QED
    BY <1>2, <1>3, <1>4, <1>5, <2>3, Numbers
<1>7. /\ pc = "read" /\ pc' = pc /\ writeSet' = writeSet /\ todo' = todo \ {s}
      /\ acceptors' = acceptors /\ unread' = unread /\ peer' = peer
      /\ \A g \in Fds : g # handle[s] => backlog'[g] = backlog[g]
      /\ s \in todo /\ s \in acceptors
  BY DEF AcceptOk, IsFront, TypeOK
<1>8. ReadWalk
  BY <1>7 DEF LoopSound
<1>9. ASSUME NEW t \in todo'
      PROVE  ~HasDataToSend(t)' /\ (handle[t] \in ReadableFds)'
  <2>1. t \in todo /\ t \in sessions /\ t # s
    BY <1>7, <1>9 DEF TypeOK
  <2>2. handle[t] # handle[s]
    BY <1>7, <2>1 DEF DescriptorsOwned, LoopSound
  <2>3. handle[t] \in ReadableFds /\ ~HasDataToSend(t)
    BY <1>8, <2>1 DEF ReadWalk
  <2>4. handle[t] \in Fds
    BY <2>3 DEF ReadableFds, TypeOK
  <2> QED
    BY <1>1, <1>4, <1>7, <2>1, <2>2, <2>3, <2>4 DEF ReadableFds, HasDataToSend
<1>10. ASSUME NEW b \in writeSet'
       PROVE  \E t \in sessions' \ todo' : handle'[t] = b /\ HasDataToSend(t)'
  <2>1. PICK t \in sessions \ todo : handle[t] = b /\ HasDataToSend(t)
    BY <1>7, <1>8, <1>10 DEF ReadWalk
  <2> QED
    BY <1>3, <1>4, <1>7, <2>1 DEF HasDataToSend
<1> QED
  BY <1>6, <1>7, <1>9, <1>10 DEF LoopSound, ReadWalk

LEMMA ReceiveLoop ==
  ASSUME TypeOK, DescriptorsOwned, LoopSound, NEW s \in sessions, ReceiveOk(s)
  PROVE  LoopSound'
<1> SUFFICES ASSUME NoAcceptFailed
             PROVE  LoopSound'
  BY DEF LoopSound, NoAcceptFailed, ReceiveOk, bounds
<1>1. /\ pc = "read" /\ pc' = pc /\ writeSet' = writeSet /\ todo' = todo \ {s}
      /\ sessions' = sessions /\ acceptors' = acceptors /\ handle' = handle
      /\ maxFd' = maxFd /\ fds' = fds /\ backlog' = backlog /\ peer' = peer
      /\ s \in todo /\ s \notin acceptors
  BY DEF ReceiveOk, IsFront
<1>2. /\ \A t \in sessions : t # s => owed'[t] = owed[t]
      /\ \A g \in Fds : g # handle[s] => unread'[g] = unread[g]
  BY DEF ReceiveOk, TypeOK
<1>3. ReadWalk
  BY <1>1 DEF LoopSound
<1>4. ASSUME NEW t \in todo'
      PROVE  ~HasDataToSend(t)' /\ (handle[t] \in ReadableFds)'
  <2>1. t \in todo /\ t \in sessions /\ t # s
    BY <1>1, <1>4 DEF TypeOK
  <2>2. handle[t] # handle[s]
    BY <2>1 DEF DescriptorsOwned, LoopSound
  <2>3. handle[t] \in ReadableFds /\ ~HasDataToSend(t)
    BY <1>3, <2>1 DEF ReadWalk
  <2>4. handle[t] \in Fds
    BY <2>3 DEF ReadableFds, TypeOK
  <2> QED
    BY <1>1, <1>2, <2>1, <2>2, <2>3, <2>4 DEF ReadableFds, HasDataToSend
<1>5. ASSUME NEW b \in writeSet'
      PROVE  \E t \in sessions' \ todo' : handle'[t] = b /\ HasDataToSend(t)'
  <2>1. PICK t \in sessions \ todo : handle[t] = b /\ HasDataToSend(t)
    BY <1>1, <1>3, <1>5 DEF ReadWalk
  <2> QED
    BY <1>1, <1>2, <2>1 DEF HasDataToSend
<1> QED
  BY <1>1, <1>4, <1>5 DEF LoopSound, ReadWalk

\* Deleting a session closes the descriptor of no other one.
LEMMA EndsLoop ==
  ASSUME TypeOK, DescriptorsOwned, LoopSound, AcceptorsSafe,
         NEW s \in sessions, ReceiveEnds(s) \/ SendEnds(s)
  PROVE  LoopSound'
<1> SUFFICES ASSUME NoAcceptFailed
             PROVE  LoopSound'
  BY DEF LoopSound, NoAcceptFailed, ReceiveEnds, SendEnds, DeleteSession, bounds
<1>1. DeleteSession(s) /\ s \in todo /\ s \notin acceptors
  BY DEF ReceiveEnds, SendEnds, IsFront, AcceptorsSafe
<1>2. /\ pc' = pc /\ writeSet' = writeSet /\ acceptors' = acceptors
      /\ maxFd' = maxFd /\ fds' = fds \ {handle[s]}
      /\ sessions' = sessions \ {s} /\ todo' = todo \ {s}
      /\ \A t \in sessions' : handle'[t] = handle[t] /\ owed'[t] = owed[t]
  BY <1>1 DEF DeleteSession, AfterFree, CloseFd
<1>3. \A g \in Fds : g # handle[s] => /\ backlog'[g] = backlog[g]
                                      /\ unread'[g] = unread[g]
                                      /\ peer'[g] = peer[g]
  <2>1. CloseFd(handle[s])
    BY <1>1 DEF DeleteSession
  <2> QED
    BY <2>1, Zenon DEF CloseFd
<1>4. \A t \in todo' : HasDataToSend(t)' <=> HasDataToSend(t)
  BY <1>2 DEF HasDataToSend, TypeOK
<1>5. CASE pc = "read"
  <2>1. ASSUME NEW t \in todo'
        PROVE  (handle[t] \in ReadableFds)'
    <3>1. t \in todo /\ t \in sessions /\ t # s /\ handle'[t] = handle[t]
      BY <1>2, <2>1 DEF TypeOK
    <3>2. handle[t] # handle[s]
      BY <3>1 DEF DescriptorsOwned, LoopSound
    <3>3. handle[t] \in ReadableFds /\ handle[t] \in Fds
      BY <1>5, <3>1 DEF LoopSound, ReadWalk, ReadableFds, TypeOK
    <3> QED
      BY <1>2, <1>3, <3>1, <3>2, <3>3 DEF ReadableFds
  <2>2. ASSUME NEW b \in writeSet'
        PROVE  \E t \in sessions' \ todo' : handle'[t] = b /\ HasDataToSend(t)'
    <3>1. PICK t \in sessions \ todo : handle[t] = b /\ HasDataToSend(t)
      BY <1>2, <1>5, <2>2 DEF LoopSound, ReadWalk
    <3> QED
      BY <1>1, <1>2, <3>1 DEF HasDataToSend
  <2> QED
    BY <1>2, <1>4, <1>5, <2>1, <2>2 DEF LoopSound, ReadWalk
<1>6. CASE pc # "read"
  BY <1>2, <1>4, <1>6 DEF LoopSound, SendWalk
<1> QED
  BY <1>5, <1>6

\* What clients do makes no descriptor less ready.
LEMMA ClientLoop ==
  ASSUME TypeOK, LoopSound, ClientStep
  PROVE  LoopSound'
<1>1. UNCHANGED server
  BY DEF ClientStep, ClientConnects, ClientSends, ClientCloses, ClientResets,
         ClientReads
<1>2. PICK f \in fds : \/ ClientConnects(f) \/ ClientSends(f) \/ ClientCloses(f)
                       \/ ClientResets(f) \/ ClientReads(f)
  BY DEF ClientStep
<1>3. ASSUME NEW g \in ReadableFds
      PROVE  g \in ReadableFds'
  <2>1. g \in fds /\ g \in Fds /\ backlog[g] \in Nat /\ fds' = fds
    BY <1>1, Numbers DEF ReadableFds, TypeOK, server
  <2>2. CASE ClientConnects(f)
    BY <2>1, <2>2 DEF ClientConnects, ReadableFds, TypeOK
  <2>3. CASE ClientSends(f)
    BY <2>1, <2>3 DEF ClientSends, ReadableFds, TypeOK
  <2>4. CASE ClientCloses(f)
    BY <2>1, <2>4 DEF ClientCloses, ReadableFds, TypeOK
  <2>5. CASE ClientResets(f)
    BY <2>1, <2>5 DEF ClientResets, ReadableFds, TypeOK
  <2>6. CASE ClientReads(f)
    BY <2>1, <2>6 DEF ClientReads, ReadableFds, TypeOK
  <2> QED
    BY <1>2, <2>2, <2>3, <2>4, <2>5, <2>6
<1>4. \A s : HasDataToSend(s)' <=> HasDataToSend(s)
  BY <1>1 DEF HasDataToSend, server, table
<1> QED
  BY <1>1, <1>3, <1>4
  DEF LoopSound, ReadWalk, SendWalk, NoAcceptFailed, server, table

LEMMA NextLoop ==
  TypeOK /\ DescriptorsOwned /\ AcceptorsSafe /\ LoopSound /\ [Next]_vars
    => LoopSound'
<1> SUFFICES ASSUME TypeOK, DescriptorsOwned, AcceptorsSafe, LoopSound, [Next]_vars
             PROVE  LoopSound'
  OBVIOUS
<1>1. CASE ListenerOpens
  <2>1. PICK f \in Free : RegisterSession(f)
    BY <1>1 DEF ListenerOpens
  <2>2. f \in Fds /\ f \in Handles /\ f \in Nat /\ f # InvalidSocket
    BY <2>1, Numbers DEF Free, Handles
  <2>3. sessions' = sessions \cup {registered'} /\ registered' \notin sessions
    BY <2>1, <2>2, RegisterType, TypeSplit
  <2>4. maxFd \in 0 .. MaxFds /\ maxFd' = MaxFdAfter(f) /\ maxFd' \in 0 .. MaxFds
    BY <2>1, <2>2, MaxFdType DEF RegisterSession, TypeOK
  <2>5. maxFd' >= maxFd /\ maxFd' > f
    BY <2>2, <2>4, Numbers DEF MaxFdAfter, AsUnsigned
  <2>6. \A s \in sessions : handle'[s] = handle[s] /\ handle[s] \in Int
    BY <2>1, <2>3, Numbers DEF RegisterSession, TypeOK, Handles
  <2>7. handle'[registered'] = f
    BY <2>1, <2>3 DEF RegisterSession
  <2>8. pc' = "init" /\ acceptErrs' = acceptErrs
    BY <1>1 DEF ListenerOpens, bounds
  <2>9. NoAcceptFailed' =>
          \A s \in sessions : handle'[s] # InvalidSocket /\ handle'[s] < maxFd'
    BY <2>4, <2>5, <2>6, <2>8, Numbers DEF LoopSound, NoAcceptFailed
  <2> QED
    BY <2>2, <2>3, <2>4, <2>5, <2>7, <2>8, <2>9 DEF LoopSound
<1>2. CASE Select
  BY <1>2, SelectLoop
<1>3. CASE \E s \in sessions : AcceptOk(s)
  BY <1>3, AcceptLoop
<1>4. CASE \E s \in sessions : AcceptFails(s)
  BY <1>4 DEF AcceptFails, LoopSound, NoAcceptFailed, TypeOK
<1>5. CASE \E s \in sessions : ReceiveOk(s)
  BY <1>5, ReceiveLoop
<1>6. CASE \E s \in sessions : ReceiveEnds(s) \/ SendEnds(s)
  BY <1>6, EndsLoop
<1>7. CASE ReadDone
  <2>1. ASSUME NoAcceptFailed, NEW s \in todo'
        PROVE  HasDataToSend(s)
    <3>1. s \in sessions /\ FdBit(handle[s]) \in writeSet /\ pc = "read"
      BY <1>7, <2>1 DEF ReadDone, InSet
    <3>2. handle[s] # InvalidSocket /\ handle[s] \in writeSet
      BY <2>1, <3>1 DEF LoopSound, FdBit
    <3>3. PICK t \in sessions : handle[t] = handle[s] /\ HasDataToSend(t)
      BY <2>1, <3>1, <3>2 DEF LoopSound, ReadWalk
    <3> QED
      BY <3>1, <3>2, <3>3 DEF DescriptorsOwned
  <2>2. pc' = "send" /\ UNCHANGED <<table, bounds>>
    BY <1>7 DEF ReadDone
  <2> QED
    BY <2>1, <2>2
    DEF LoopSound, SendWalk, HasDataToSend, NoAcceptFailed, table, bounds
<1>8. CASE \E s \in sessions : SendOk(s)
  <2>1. PICK s \in sessions : SendOk(s)
    BY <1>8
  <2>2. \A t \in todo' : t # s /\ t \in todo /\ owed'[t] = owed[t]
    BY <2>1 DEF SendOk, TypeOK
  <2> QED
    BY <2>1, <2>2
    DEF SendOk, LoopSound, SendWalk, HasDataToSend, NoAcceptFailed, bounds
<1>9. CASE ListenerFails \/ EnterLoop \/ SelectFails \/ SendDone
  BY <1>9 DEF ListenerFails, EnterLoop, SelectFails, SendDone, LoopSound,
              NoAcceptFailed, table, bounds
<1>10. CASE \E s \in sessions : SendKills(s)
  BY <1>10 DEF SendKills, LoopSound, NoAcceptFailed, table, bounds
<1>11. CASE ClientStep
  BY <1>11, ClientLoop
<1>12. CASE UNCHANGED vars
  BY <1>12 DEF vars, server, table, kernel, LoopSound, ReadWalk, SendWalk,
               HasDataToSend, ReadableFds, NoAcceptFailed
<1> QED
  BY <1>1, <1>2, <1>3, <1>4, <1>5, <1>6, <1>7, <1>8, <1>9, <1>10, <1>11, <1>12,
     Zenon DEF Next, ServerStep

\* The inductive invariant of Server::Run.
LoopInv == TypeOK /\ DescriptorsOwned /\ AcceptorsSafe /\ LoopSound

LEMMA LoopInvariant == Spec => []LoopInv
<1>1. Init => LoopInv
  BY InitType, InitOwned, InitAcceptors, InitLoop DEF LoopInv
<1>2. LoopInv /\ [Next]_vars => LoopInv'
  BY NextType, NextOwned, NextAcceptors, NextLoop DEF LoopInv
<1> QED
  BY <1>1, <1>2, PTL DEF Spec

LEMMA LoopImplies ==
  LoopInv => /\ SelectCoversUntilAcceptFails
             /\ ReadsOnlyIdle /\ ReadsDontBlock /\ SendsOnlyOwed
BY DEF LoopInv, LoopSound, SelectCoversUntilAcceptFails, SelectCovers,
       ReadsOnlyIdle, ReadsDontBlock, SendsOnlyOwed, ReadWalk, SendWalk

\* Until an accept() fails, m_maxFd is above the descriptor of every session
\* (RegisterSession).
THEOREM LoopWatches == Spec => []SelectCoversUntilAcceptFails
BY LoopImplies, LoopInvariant, PTL

\* ReadData reads no session that owes a reply (CanRead).
THEOREM LoopReadsIdle == Spec => []ReadsOnlyIdle
BY LoopImplies, LoopInvariant, PTL

\* ReadData blocks in no accept() or recv().
THEOREM LoopReadsReady == Spec => []ReadsDontBlock
BY LoopImplies, LoopInvariant, PTL

\* SendData visits only sessions that owe a reply.
THEOREM LoopSendsOwed == Spec => []SendsOnlyOwed
BY LoopImplies, LoopInvariant, PTL

-----------------------------------------------------------------------------
(* Run leaves its loop only after a failed accept().  In InitPlugins nothing *)
(* is deleted, so an empty table means that nothing was registered.          *)

InitComplete == pc = "init" => sessions = 1 .. registered

LEMMA NextComplete ==
  ASSUME TypeOK, InitComplete, [Next]_vars
  PROVE  InitComplete'
<1>1. CASE ListenerOpens
  <2>1. pc = "init" /\ registered \in Nat
    BY <1>1 DEF ListenerOpens, TypeOK
  <2>2. registered' = registered + 1 /\ sessions' = sessions \cup {registered + 1}
    BY <1>1 DEF ListenerOpens, RegisterSession
  <2>3. 1 .. registered + 1 = (1 .. registered) \cup {registered + 1}
    BY <2>1
  <2> QED
    BY <2>1, <2>2, <2>3 DEF InitComplete
<1>2. CASE \E s \in sessions : \/ AcceptOk(s) \/ AcceptFails(s) \/ ReceiveOk(s)
                              \/ ReceiveEnds(s) \/ SendOk(s) \/ SendEnds(s)
  BY <1>2 DEF AcceptOk, AcceptFails, ReceiveOk, ReceiveEnds, SendOk, SendEnds,
              DeleteSession, AfterFree, InitComplete
<1>3. CASE \/ ListenerFails \/ EnterLoop \/ Select \/ SelectFails \/ ReadDone
           \/ SendDone \/ (\E s \in sessions : SendKills(s))
           \/ ClientStep \/ UNCHANGED vars
  BY <1>3 DEF ListenerFails, EnterLoop, Select, SelectFails, ReadDone, SendDone,
     SendKills, ClientStep, ClientConnects, ClientSends, ClientCloses,
     ClientResets, ClientReads, vars, server, table, InitComplete
<1> QED
  BY <1>1, <1>2, <1>3, Zenon DEF Next, ServerStep

\* The bits that FillReadyRead and FillReadyWrite ask for are open descriptors.
LEMMA RequestsOpen == LoopInv /\ NoAcceptFailed => ~BadRequest
<1> SUFFICES ASSUME LoopInv, NoAcceptFailed,
                    NEW b \in ReadRequest \cup WriteRequest
             PROVE  b \in fds
  BY DEF BadRequest
<1>1. PICK s \in sessions : b = FdBit(handle[s])
  BY DEF ReadRequest, WriteRequest
<1>2. handle[s] # InvalidSocket
  BY DEF LoopInv, LoopSound
<1> QED
  BY <1>1, <1>2 DEF LoopInv, DescriptorsOwned, FdBit

LEMMA NextGoesOn ==
  ASSUME LoopInv, InitComplete, RunGoesOn, [Next]_vars
  PROVE  RunGoesOn'
<1>1. CASE EnterLoop
  <2>1. sessions = {} => registered = 0
    BY <1>1 DEF EnterLoop, InitComplete, LoopInv, TypeOK
  <2> QED
    BY <1>1, <2>1 DEF EnterLoop, RunGoesOn, table
<1>2. CASE SelectFails
  BY <1>2, RequestsOpen DEF SelectFails, RunGoesOn, NoAcceptFailed, bounds
<1>3. CASE \E s \in sessions : \/ AcceptOk(s) \/ AcceptFails(s) \/ ReceiveOk(s)
                              \/ ReceiveEnds(s) \/ SendOk(s) \/ SendEnds(s)
  BY <1>3 DEF AcceptOk, AcceptFails, ReceiveOk, ReceiveEnds, SendOk, SendEnds,
              DeleteSession, AfterFree, RunGoesOn
<1>4. CASE \/ ListenerOpens \/ ListenerFails \/ Select \/ ReadDone \/ SendDone
           \/ \E s \in sessions : SendKills(s)
  BY <1>4 DEF ListenerOpens, ListenerFails, Select, ReadDone, SendDone, SendKills,
              RunGoesOn
<1>5. CASE ClientStep \/ UNCHANGED vars
  BY <1>5 DEF ClientStep, ClientConnects, ClientSends, ClientCloses, ClientResets,
              ClientReads, vars, server, table, RunGoesOn, NoAcceptFailed
<1> QED
  BY <1>1, <1>2, <1>3, <1>4, <1>5, Zenon DEF Next, ServerStep

\* Until an accept() fails, select() never fails, and Run goes on.
THEOREM LoopGoesOn == Spec => []RunGoesOn
<1>1. Init => InitComplete /\ RunGoesOn
  BY DEF Init, InitComplete, RunGoesOn
<1>2. LoopInv /\ InitComplete /\ RunGoesOn /\ [Next]_vars
        => InitComplete' /\ RunGoesOn'
  BY NextComplete, NextGoesOn DEF LoopInv
<1> QED
  BY <1>1, <1>2, LoopInvariant, PTL DEF Spec

-----------------------------------------------------------------------------
(* Replies. *)

LEMMA StepKeepsReply ==
  ASSUME LoopInv, [Next]_vars, NoAcceptFailed,
         NEW s \in sessions, HasDataToSend(s)
  PROVE  IF s \in sessions' THEN owed'[s] <= owed[s] ELSE peer[handle[s]] = "rst"
<1> USE DEF table
<1>1. /\ TypeOK /\ handle[s] # InvalidSocket /\ owed[s] \in Nat
      /\ s \notin acceptors /\ owed[s] > 0
  <2>1. TypeOK /\ handle[s] # InvalidSocket
    BY DEF LoopInv, LoopSound
  <2>2. owed[s] \in 0 .. MaxReply
    BY <2>1 DEF TypeOK
  <2> QED
    BY <2>1, <2>2, Numbers DEF HasDataToSend
<1>2. \A t \in sessions : ReceiveOk(t) \/ ReceiveEnds(t) => t # s
  BY DEF LoopInv, LoopSound, ReadWalk, ReceiveOk, ReceiveEnds, IsFront
<1>3. ASSUME sessions' = sessions, owed'[s] = owed[s]
      PROVE  s \in sessions' /\ owed'[s] <= owed[s]
  BY <1>1, <1>3
<1>4. ASSUME NEW h \in Handles, RegisterSession(h)
      PROVE  s \in sessions' /\ owed'[s] <= owed[s]
  <2>1. registered + 1 \notin sessions
    BY <1>1, <1>4, RegisterType, TypeSplit
  <2>2. s \in sessions' /\ owed'[s] = owed[s]
    BY <1>4, <2>1 DEF RegisterSession
  <2> QED
    BY <1>1, <2>2
<1>5. CASE ListenerOpens \/ (\E t \in sessions : AcceptOk(t) \/ AcceptFails(t))
  <2>1. \E h \in Handles : RegisterSession(h)
    BY <1>5 DEF ListenerOpens, AcceptOk, AcceptFails, Free, Handles
  <2> QED
    BY <1>4, <2>1
<1>6. CASE \E t \in sessions : ReceiveOk(t)
  <2>1. PICK t \in sessions : ReceiveOk(t)
    BY <1>6
  <2>2. t # s /\ sessions' = sessions
    BY <1>2, <2>1 DEF ReceiveOk
  <2>3. owed'[s] = owed[s]
    BY <1>1, <2>1, <2>2 DEF ReceiveOk, TypeOK
  <2> QED
    BY <1>3, <2>2, <2>3
<1>7. CASE \E t \in sessions : ReceiveEnds(t) \/ SendEnds(t)
  <2>1. PICK t \in sessions : ReceiveEnds(t) \/ SendEnds(t)
    BY <1>7
  <2>2. sessions' = sessions \ {t} /\ (t # s => owed'[s] = owed[s])
    BY <2>1 DEF ReceiveEnds, SendEnds, DeleteSession
  <2>3. CASE t = s
    <3>1. SendEnds(s)
      BY <1>2, <2>1, <2>3
    <3>2. PICK n \in SendResults(s) : n < 1
      BY <3>1 DEF SendEnds
    <3>3. n # owed[s]
      BY <1>1, <3>2
    <3>4. peer[handle[s]] = "rst"
      BY <1>1, <3>2, <3>3 DEF SendResults
    <3> QED
      BY <2>2, <2>3, <3>4
  <2> QED
    BY <1>1, <2>2, <2>3
<1>8. CASE \E t \in sessions : SendOk(t)
  <2>1. PICK t \in sessions : SendOk(t)
    BY <1>8
  <2>2. PICK n \in SendResults(t) : n > 0 /\ owed' = [owed EXCEPT ![t] = @ - n]
    BY <2>1 DEF SendOk
  <2>3. n \in Int
    BY <2>2, Numbers DEF SendResults
  <2> QED
    BY <1>1, <2>1, <2>2, <2>3 DEF SendOk, TypeOK
<1>9. CASE \/ ListenerFails \/ EnterLoop \/ Select \/ SelectFails
           \/ ReadDone \/ SendDone \/ (\E t \in sessions : SendKills(t))
           \/ ClientStep \/ UNCHANGED vars
  BY <1>3, <1>9 DEF ListenerFails, EnterLoop, Select, SelectFails, ReadDone,
     SendDone, SendKills, ClientStep, ClientConnects, ClientSends, ClientCloses,
     ClientResets, ClientReads, vars, server
<1> QED
  BY <1>5, <1>6, <1>7, <1>8, <1>9, Zenon DEF Next, ServerStep

\* Until an accept() fails, a reply only shrinks and what is left of it is only
\* given up when the client has reset the connection (ReadData, SendData).
THEOREM RepliesKept == Spec => ReplyKept
<1>1. LoopInv /\ [Next]_vars =>
        [\A s \in sessions : NoAcceptFailed /\ HasDataToSend(s) =>
           IF s \in sessions' THEN owed'[s] <= owed[s]
                              ELSE peer[handle[s]] = "rst"]_vars
  BY StepKeepsReply
<1> QED
  BY <1>1, LoopInvariant, PTL DEF Spec, ReplyKept

-----------------------------------------------------------------------------
(* The registration numbers stay in Ids: every session comes from a plugin   *)
(* or from a connection attempt that waits in no listen queue any more.      *)

Waiting == { q \in Fds \X (1 .. MaxListen) : q[2] <= backlog[q[1]] }

Counted ==
  /\ NoAcceptFailed
  /\ connects <= MaxConnects
  /\ IsFiniteSet(Waiting)
  /\ registered + Cardinality(Waiting) <= plugin + connects

LEMMA InitCounted == Init => Counted
<1> SUFFICES ASSUME Init PROVE Counted
  OBVIOUS
<1>1. Waiting = {}
  BY DEF Init, Waiting
<1> QED
  BY <1>1, FS_EmptySet, CountsAssumption DEF Init, Counted, NoAcceptFailed

\* Attempts that leave the queues without a session only lower the sum.
LEMMA FewerWait ==
  ASSUME TypeOK, Counted, Waiting' \subseteq Waiting,
         UNCHANGED <<registered, connects, acceptErrs>>,
         plugin' \in Nat, plugin' >= plugin
  PROVE  Counted'
<1>1. IsFiniteSet(Waiting') /\ Cardinality(Waiting') <= Cardinality(Waiting)
  BY FS_Subset DEF Counted
<1>2. Cardinality(Waiting) \in Nat /\ Cardinality(Waiting') \in Nat
  BY <1>1, FS_CardinalityType DEF Counted
<1> QED
  BY <1>1, <1>2 DEF Counted, TypeOK, NoAcceptFailed

\* AcceptorSession::OnRead takes one attempt out of its queue.
LEMMA AcceptCounted ==
  ASSUME LoopInv, Counted, NEW s \in sessions, AcceptOk(s)
  PROVE  Counted'
<1> DEFINE h == handle[s]
           q == <<h, backlog[h]>>
<1>1. /\ backlog' = [backlog EXCEPT ![h] = @ - 1] /\ backlog[h] > 0
      /\ registered' = registered + 1
      /\ UNCHANGED <<plugin, connects, acceptErrs>>
  BY DEF AcceptOk, RegisterSession, bounds
<1>2. h \in Fds
  BY DEF AcceptOk, LoopInv, TypeOK, AcceptorsSafe, Handles
<1>3. backlog \in [Fds -> 0 .. MaxListen]
  BY DEF LoopInv, TypeOK
<1> HIDE DEF h
<1>4. q \in Fds \X (1 .. MaxListen) /\ q[2] <= backlog[q[1]]
  BY <1>1, <1>2, <1>3, Numbers
<1>5. \A p \in Waiting' : p \in Waiting /\ p # q
  BY <1>1, <1>2, <1>3, Numbers DEF Waiting
<1> HIDE DEF q
<1>6. IsFiniteSet(Waiting \ {q}) /\ Cardinality(Waiting \ {q}) = Cardinality(Waiting) - 1
  BY <1>4, FS_RemoveElement DEF Counted, Waiting
<1>7. Waiting' \in SUBSET (Waiting \ {q})
  BY <1>5
<1>8. IsFiniteSet(Waiting') /\ Cardinality(Waiting') <= Cardinality(Waiting) - 1
  BY <1>6, <1>7, FS_Subset
<1>9. Cardinality(Waiting) \in Nat /\ Cardinality(Waiting') \in Nat
  BY <1>8, FS_CardinalityType DEF Counted
<1> QED
  BY <1>1, <1>8, <1>9 DEF Counted, NoAcceptFailed, LoopInv, TypeOK

LEMMA ConnectCounted ==
  ASSUME LoopInv, Counted, NEW f \in fds, ClientConnects(f)
  PROVE  Counted'
<1> DEFINE q == <<f, backlog[f] + 1>>
<1>1. /\ backlog' = [backlog EXCEPT ![f] = @ + 1]
      /\ connects < MaxConnects /\ connects' = connects + 1
      /\ UNCHANGED <<plugin, registered, acceptErrs>>
  BY DEF ClientConnects, server, table
<1>2. f \in Fds /\ backlog \in [Fds -> 0 .. MaxListen] /\ connects \in Nat
  BY DEF LoopInv, TypeOK
<1>3. \A p \in Waiting' : p \in Waiting \/ p = q
  BY <1>1, <1>2, Numbers DEF Waiting
<1> HIDE DEF q
<1>4. /\ IsFiniteSet(Waiting \cup {q})
      /\ Cardinality(Waiting \cup {q}) <= Cardinality(Waiting) + 1
  <2>1. IsFiniteSet(Waiting) /\ Cardinality(Waiting) \in Nat
    BY FS_CardinalityType DEF Counted
  <2>2. /\ IsFiniteSet(Waiting \cup {q})
        /\ \/ Cardinality(Waiting \cup {q}) = Cardinality(Waiting)
           \/ Cardinality(Waiting \cup {q}) = Cardinality(Waiting) + 1
    BY <2>1, FS_AddElement, Zenon
  <2> QED
    BY <2>1, <2>2
<1>5. Waiting' \in SUBSET (Waiting \cup {q})
  BY <1>3
<1>6. /\ IsFiniteSet(Waiting')
      /\ Cardinality(Waiting') <= Cardinality(Waiting \cup {q})
  BY <1>4, <1>5, FS_Subset
<1>7. /\ Cardinality(Waiting) \in Nat /\ Cardinality(Waiting') \in Nat
      /\ Cardinality(Waiting \cup {q}) \in Nat
  BY <1>4, <1>6, FS_CardinalityType DEF Counted
<1> QED
  BY <1>1, <1>2, <1>4, <1>6, <1>7, CountsAssumption
  DEF Counted, NoAcceptFailed, LoopInv, TypeOK

LEMMA NextCounted ==
  ASSUME MaxAcceptErrs = 0, LoopInv, Counted, [Next]_vars
  PROVE  Counted'
<1> USE DEF table, kernel, bounds
<1>1. TypeOK /\ plugin \in Nat /\ acceptErrs = 0
  BY CountsAssumption DEF LoopInv, TypeOK, Counted, NoAcceptFailed
<1>2. ASSUME Waiting' \subseteq Waiting,
             UNCHANGED <<plugin, registered, connects, acceptErrs>>
      PROVE  Counted'
  BY <1>1, <1>2, FewerWait
<1>3. CASE ListenerOpens
  <2>1. registered' = registered + 1 /\ plugin' = plugin + 1
    BY <1>3 DEF ListenerOpens, RegisterSession
  <2>2. Waiting' = Waiting
    BY <1>3 DEF ListenerOpens, Waiting
  <2>3. Cardinality(Waiting) \in Nat
    BY FS_CardinalityType DEF Counted
  <2> QED
    BY <1>1, <1>3, <2>1, <2>2, <2>3 DEF ListenerOpens, Counted, TypeOK, NoAcceptFailed
<1>4. CASE ListenerFails
  <2>1. Waiting' = Waiting
    BY <1>4 DEF ListenerFails, Waiting
  <2> QED
    BY <1>1, <1>4, <2>1, FewerWait DEF ListenerFails
<1>5. CASE \E s \in sessions : AcceptOk(s)
  BY <1>5, AcceptCounted
<1>6. CASE \E s \in sessions : AcceptFails(s)
  BY <1>1, <1>6 DEF AcceptFails
<1>7. CASE \E s \in sessions : ReceiveEnds(s) \/ SendEnds(s)
  <2>1. PICK s \in sessions : DeleteSession(s)
    BY <1>7 DEF ReceiveEnds, SendEnds
  <2>2. \A g \in Fds : backlog'[g] = IF g = handle[s] THEN 0 ELSE backlog[g]
    BY <2>1 DEF DeleteSession, CloseFd
  <2>3. ASSUME NEW p \in Waiting'
        PROVE  p \in Waiting
    <3>1. p \in Fds \X (1 .. MaxListen) /\ p[2] <= backlog'[p[1]]
      BY DEF Waiting
    <3>2. p[1] \in Fds /\ p[2] \in 1 .. MaxListen
      BY <3>1
    <3>3. backlog'[p[1]] = 0 \/ backlog'[p[1]] = backlog[p[1]]
      BY <2>2, <3>2
    <3> QED
      BY <3>1, <3>2, <3>3, Numbers DEF Waiting
  <2> QED
    BY <1>2, <2>1, <2>3 DEF DeleteSession
<1>8. CASE \E f \in fds : ClientConnects(f)
  BY <1>8, ConnectCounted
<1>9. CASE \/ EnterLoop \/ Select \/ SelectFails \/ ReadDone \/ SendDone
           \/ (\E s \in sessions : ReceiveOk(s) \/ SendOk(s) \/ SendKills(s))
           \/ (\E f \in fds : \/ ClientSends(f) \/ ClientCloses(f)
                              \/ ClientResets(f) \/ ClientReads(f))
           \/ UNCHANGED vars
  <2>1. UNCHANGED <<backlog, plugin, registered, connects, acceptErrs>>
    BY <1>9 DEF EnterLoop, Select, SelectFails, ReadDone, SendDone, ReceiveOk,
       SendOk, SendKills, ClientSends, ClientCloses, ClientResets, ClientReads,
       vars, server
  <2> QED
    BY <1>2, <2>1 DEF Waiting
<1> QED
  BY <1>3, <1>4, <1>5, <1>6, <1>7, <1>8, <1>9, Zenon DEF Next, ServerStep, ClientStep

\* No more sessions are registered than Ids has numbers for.
EnoughIds == registered <= NumPlugins + MaxConnects /\ sessions \subseteq Ids

LEMMA WithinIds == LoopInv /\ Counted => EnoughIds
<1> SUFFICES ASSUME LoopInv, Counted PROVE EnoughIds
  OBVIOUS
<1>1. Cardinality(Waiting) \in Nat
  BY FS_CardinalityType DEF Counted
<1>2. registered <= NumPlugins + MaxConnects
  BY <1>1, Numbers, CountsAssumption DEF LoopInv, TypeOK, Counted
<1> QED
  BY <1>2, CountsAssumption DEF LoopInv, TypeOK, Ids, EnoughIds

-----------------------------------------------------------------------------
(* Each step is a step of the exchange or leaves it as it is. *)

PromiseVars == <<Alive, Served, Past, Left>>

\* A session that the loop opens for a waiting connection, on descriptor h.
LEMMA OpensConnection ==
  ASSUME LoopInv, Counted, Counted', LoopInv', NEW s \in sessions, AcceptOk(s)
  PROVE  \E c \in Ids : Promise!Open(c)
<1> DEFINE c == registered + 1
<1>1. PICK h \in Handles : RegisterSession(h)
  BY DEF AcceptOk, Free, Handles
<1>2. /\ pc = "read" /\ pc' = pc /\ acceptors' = acceptors
      /\ sessions' = sessions \cup {c} /\ registered' = c /\ owed'[c] = 0
      /\ \A t \in sessions : owed'[t] = owed[t]
      /\ registered \in Nat /\ sessions \subseteq 1 .. registered
      /\ acceptors \subseteq sessions
  BY <1>1, RegisterType DEF AcceptOk, RegisterSession, LoopInv, TypeOK, TableType
<1>3. c \in Ids
  <2>1. EnoughIds'
    BY WithinIds, PTL
  <2> QED
    BY <1>2, <2>1, CountsAssumption DEF EnoughIds, Ids
<1>4. Served' = Served \cup {c} /\ c \notin Served \cup Past
  BY <1>2 DEF Served, Past
<1>5. Past' = Past
  BY <1>2 DEF Past
<1>6. Left' = Left
  BY <1>2 DEF Left, Ids
<1>7. Alive /\ Alive'
  BY <1>2 DEF Alive
<1> QED
  BY <1>3, <1>4, <1>5, <1>6, <1>7 DEF Promise!Open

\* The session of a connection is deleted.
LEMMA EndsConnection ==
  ASSUME LoopInv, Counted, NEW s \in sessions, s \notin acceptors, Alive,
         DeleteSession(s)
  PROVE  Promise!End(s)
<1>1. /\ pc' = pc /\ acceptors' = acceptors \ {s} /\ sessions' = sessions \ {s}
      /\ registered' = registered
      /\ \A t \in sessions' : owed'[t] = owed[t]
      /\ sessions \subseteq 1 .. registered
  BY DEF DeleteSession, AfterFree, LoopInv, TypeOK
<1>2. s \in Ids
  BY WithinIds DEF EnoughIds
<1>3. s \in Served /\ Served' = Served \ {s}
  BY <1>1 DEF Served
<1>4. Past' = Past \cup {s}
  BY <1>1 DEF Past
<1>5. Left' = [Left EXCEPT ![s] = 0]
  BY <1>1, <1>2 DEF Left, Ids
<1>6. Alive'
  BY <1>1 DEF Alive
<1> QED
  BY <1>3, <1>4, <1>5, <1>6 DEF Promise!End

\* A connection that the loop reads owes nothing, whatever its reply will be.
LEMMA ReceivesRequest ==
  ASSUME LoopInv, Counted, NEW s \in sessions, ReceiveOk(s)
  PROVE  Promise!Receive(s)
<1>1. /\ pc = "read" /\ pc' = pc /\ s \notin acceptors /\ s \in todo
      /\ UNCHANGED <<sessions, registered, acceptors>>
      /\ owed \in [sessions -> 0 .. MaxReply]
  BY DEF ReceiveOk, IsFront, LoopInv, TypeOK
<1>2. owed[s] = 0
  <2>1. ~HasDataToSend(s)
    BY <1>1 DEF LoopInv, LoopSound, ReadWalk, Counted
  <2> QED
    BY <1>1, <2>1, Numbers DEF HasDataToSend
<1>3. PICK reply \in 0 .. MaxReply : owed' = [owed EXCEPT ![s] = reply]
  BY DEF ReceiveOk
<1>4. s \in Ids
  BY WithinIds DEF EnoughIds
<1>5. Left[s] = 0 /\ Left' = [Left EXCEPT ![s] = reply]
  BY <1>1, <1>2, <1>3, <1>4 DEF Left, Ids
<1>6. Alive /\ Alive' /\ s \in Served /\ UNCHANGED <<Served, Past>>
  BY <1>1 DEF Alive, Served, Past
<1> QED
  BY <1>5, <1>6 DEF Promise!Receive

\* What send() takes shortens the reply.
LEMMA SendsReply ==
  ASSUME LoopInv, Counted, NEW s \in sessions, SendOk(s)
  PROVE  Promise!Send(s)
<1>1. /\ pc = "send" /\ pc' = pc /\ s \notin acceptors
      /\ UNCHANGED <<sessions, registered, acceptors>>
      /\ owed \in [sessions -> 0 .. MaxReply]
  BY DEF SendOk, IsFront, LoopInv, TypeOK, AcceptorsSafe
<1>2. PICK n \in SendResults(s) : n > 0 /\ owed' = [owed EXCEPT ![s] = @ - n]
  BY DEF SendOk
<1>3. n \in Int /\ n <= owed[s]
  BY <1>1, <1>2, Numbers DEF SendResults
<1>4. owed[s] > 0 /\ owed[s] - n \in 0 .. (owed[s] - 1)
  BY <1>1, <1>2, <1>3, Numbers
<1>5. s \in Ids
  BY WithinIds DEF EnoughIds
<1>6. Left[s] = owed[s] /\ Left' = [Left EXCEPT ![s] = owed[s] - n]
  BY <1>1, <1>2, <1>5 DEF Left, Ids
<1>7. Alive /\ Alive' /\ s \in Served /\ UNCHANGED <<Served, Past>>
  BY <1>1 DEF Alive, Served, Past
<1> QED
  BY <1>4, <1>6, <1>7 DEF Promise!Send

\* A listener is no connection.
LEMMA OpensListener ==
  ASSUME LoopInv, ListenerOpens
  PROVE  UNCHANGED PromiseVars
<1> DEFINE c == registered + 1
<1>1. PICK h \in Handles : RegisterSession(h)
  BY DEF ListenerOpens, Free, Handles
<1>2. /\ pc' = pc /\ acceptors' = acceptors \cup {c}
      /\ sessions' = sessions \cup {c} /\ registered' = c /\ owed'[c] = 0
      /\ \A t \in sessions : owed'[t] = owed[t]
      /\ registered \in Nat /\ sessions \subseteq 1 .. registered
      /\ acceptors \subseteq sessions
  BY <1>1, RegisterType
  DEF ListenerOpens, RegisterSession, LoopInv, TypeOK, TableType
<1>3. Served' = Served
  BY <1>2 DEF Served
<1>4. Past' = Past
  BY <1>2 DEF Past
<1>5. Left' = Left
  BY <1>2 DEF Left, Ids
<1> QED
  BY <1>2, <1>3, <1>4, <1>5 DEF PromiseVars, Alive

LEMMA StepsAsPromised ==
  ASSUME MaxAcceptErrs = 0, LoopInv, LoopInv', Counted, Counted', [Next]_vars
  PROVE  [Promise!Next]_PromiseVars
<1> USE DEF table, kernel
<1>1. ASSUME UNCHANGED <<sessions, acceptors, registered, owed>>, Alive
      PROVE  UNCHANGED PromiseVars \/ Promise!Stop
  BY <1>1 DEF PromiseVars, Served, Past, Left, Promise!Stop, Alive
<1>2. CASE ListenerOpens
  BY <1>2, OpensListener
<1>3. CASE \E s \in sessions : AcceptOk(s)
  BY <1>3, OpensConnection DEF Promise!Next
<1>4. CASE \E s \in sessions : AcceptFails(s)
  BY <1>4 DEF AcceptFails, Counted, NoAcceptFailed
<1>5. CASE \E s \in sessions : ReceiveOk(s)
  BY <1>5, ReceivesRequest, WithinIds DEF EnoughIds, Promise!Next
<1>6. CASE \E s \in sessions : ReceiveEnds(s) \/ SendEnds(s)
  <2>1. PICK s \in sessions : ReceiveEnds(s) \/ SendEnds(s)
    BY <1>6
  <2>2. DeleteSession(s) /\ Alive /\ s \notin acceptors
    BY <2>1 DEF ReceiveEnds, SendEnds, Alive, IsFront, LoopInv, AcceptorsSafe
  <2> QED
    BY <2>2, EndsConnection, WithinIds DEF EnoughIds, Promise!Next
<1>7. CASE \E s \in sessions : SendOk(s)
  BY <1>7, SendsReply, WithinIds DEF EnoughIds, Promise!Next
<1>8. CASE \/ ListenerFails \/ EnterLoop \/ Select \/ SelectFails \/ ReadDone
           \/ SendDone \/ (\E s \in sessions : SendKills(s)) \/ ClientStep
  <2>1. UNCHANGED <<sessions, acceptors, registered, owed>> /\ Alive
    BY <1>8 DEF ListenerFails, EnterLoop, Select, SelectFails, ReadDone, SendDone,
       SendKills, ClientStep, ClientConnects, ClientSends, ClientCloses,
       ClientResets, ClientReads, server, Alive
  <2> QED
    BY <1>1, <2>1 DEF Promise!Next
<1>9. CASE UNCHANGED vars
  BY <1>9 DEF vars, server, PromiseVars, Alive, Served, Past, Left
<1> QED
  BY <1>2, <1>3, <1>4, <1>5, <1>6, <1>7, <1>8, <1>9, Zenon DEF Next, ServerStep

\* As long as no accept() fails, Server::Run and its sessions keep the promise of
\* the half-duplex exchange: a request is received only from a connection that is
\* owed nothing, a reply only shrinks, and an ended connection stays ended.  This is
\* for handlers that have nothing to send before their first DidReceive.
THEOREM LoopImplementsExchange ==
  ASSUME MaxAcceptErrs = 0
  PROVE  Spec => ImplementsExchange
<1>1. Init => Counted /\ Promise!Init
  <2>1. Init => Promise!Init
    BY DEF Init, Promise!Init, Alive, Served, Past, Left
  <2> QED
    BY <2>1, InitCounted
<1>2. LoopInv /\ Counted /\ [Next]_vars => Counted'
  BY NextCounted
<1>3. LoopInv /\ LoopInv' /\ Counted /\ Counted' /\ [Next]_vars
        => [Promise!Next]_(Promise!vars)
  BY StepsAsPromised DEF PromiseVars, Promise!vars
<1> QED
  BY <1>1, <1>2, <1>3, LoopInvariant, PTL DEF Spec, ImplementsExchange, Promise!Spec

=============================================================================
