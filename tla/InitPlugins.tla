---------------------------- MODULE InitPlugins ----------------------------
(***************************************************************************)
(* Server::InitPlugins (src/server_core/server.cpp) with the end points    *)
(* (ip_endpoint.cpp) and sockets (src/socket/) it makes: one step per call *)
(* that can fail.  In ServerLoop a turn is one step and a failing one      *)
(* leaves nothing behind; here that is shown.                              *)
(***************************************************************************)
EXTENDS Integers, Sequences

CONSTANTS
  NumPlugins,  \* bound: plugins that were loaded
  Fds,         \* the descriptors that socket() can return
  Chars, NUL,  \* the characters of an address; the terminator
  IpSize,      \* the size of IPEndPoint::m_ip, 20 in the code
  Junk,        \* what the memory of an m_ip may hold before
  Ips,         \* values of --serverIp
  Addresses,   \* the texts that inet_addr() accepts
  Ports        \* the ports that plugins ask for, 0 among them

ASSUME InitPluginsAssumption ==
  /\ NumPlugins \in Nat
  /\ Fds \subseteq Nat
  /\ NUL \notin Chars
  /\ IpSize \in Nat \ {0}
  /\ Junk \subseteq [0 .. IpSize - 1 -> Chars \cup {NUL}]
  /\ Ips \subseteq Seq(Chars) /\ Addresses \subseteq Seq(Chars)

Plugins  == 1 .. NumPlugins
NoSocket == -1   \* Socket::kInvalidSocket
Nowhere  == [ip |-> <<NUL>>, port |-> 0]   \* a socket that is not bound

VARIABLES
  serverIp,   \* the command line's --serverIp
  type, port, \* what each plugin's sock_type() and port() return
  pc,         \* "turn", "bind", "listen", "register", "done" or "aborted"
  plugin,     \* the plugin whose turn it is
  newSock,    \* newSock->handle()
  m_ep,       \* newSock's end point: its m_ip and m_port
  handle,     \* [Plugins -> the descriptor of its registered AcceptorSession]
  fds,        \* the open descriptors
  bound,      \* [Fds -> the address a descriptor is bound to]
  listening,  \* the descriptors that listen
  refused     \* history: plugins for which the system failed a call on its own

outside == <<serverIp, type, port>>
socket  == <<newSock, m_ep>>
kernel  == <<fds, bound, listening>>
vars == <<outside, pc, plugin, socket, handle, kernel, refused>>

Init ==
  /\ serverIp \in Ips
  /\ type \in [Plugins -> {"tcp", "other"}] /\ port \in [Plugins -> Ports]
  /\ pc = "turn" /\ plugin = 1
  /\ newSock = NoSocket
  /\ m_ep \in [ip : {[i \in 0 .. IpSize - 1 |-> NUL]}, port : {0}]
  /\ handle = [p \in Plugins |-> NoSocket]
  /\ fds = {} /\ bound = [f \in Fds |-> Nowhere] /\ listening = {}
  /\ refused = {}

-----------------------------------------------------------------------------
(* IPEndPoint. *)

\* snprintf(m_ip, ARR_SIZE(m_ip), "%s", ip) into memory that held junk.
Snprintf(junk, ip) ==
  LET n == IF Len(ip) < IpSize THEN Len(ip) ELSE IpSize - 1
  IN  [i \in 0 .. IpSize - 1 |->
         IF i < n THEN ip[i + 1] ELSE IF i = n THEN NUL ELSE junk[i]]

\* The text that a char* stands for: what is in front of the first NUL.
Ends(m, n) == m[n] = NUL /\ \A i \in 0 .. n - 1 : m[i] # NUL
Text(m) ==
  LET n == CHOOSE n \in 0 .. IpSize - 1 : Ends(m, n) IN [i \in 1 .. n |-> m[i - 1]]

\* The constructor's assertion.  Mutant: it also lets pass what does not fit.
GoodLengthPlus(ip) == Len(ip) > 0 /\ Len(ip) < IpSize + 1
GoodLength(ip)     == Len(ip) > 0 /\ Len(ip) < IpSize - 1

IsValid(ep) == Text(ep.ip) \in Addresses /\ ep.port # 0

-----------------------------------------------------------------------------
(* Socket. *)

OpenHelper(f) ==
  /\ f \in Fds \ fds
  /\ fds' = fds \cup {f} /\ newSock' = f /\ UNCHANGED <<bound, listening>>

\* ~Socket of newSock.  Mutant: the descriptor stays open.
ForgetSocket == newSock' = NoSocket /\ UNCHANGED kernel
CloseSocket ==
  /\ newSock' = NoSocket
  /\ fds' = fds \ {newSock} /\ listening' = listening \ {newSock}
  /\ bound' = [bound EXCEPT ![newSock] = Nowhere]

\* bind() is refused to all but one socket of an address.
AddressInUse(addr) == \E f \in fds : bound[f] = addr

-----------------------------------------------------------------------------
(* The loop of InitPlugins. *)

Turn == pc = "turn" /\ plugin <= NumPlugins

\* continue: the shared_ptr newSock goes away.  Mutant: return.
Return   == pc' = "turn" /\ plugin' = NumPlugins + 1 /\ CloseSocket
Continue == pc' = "turn" /\ plugin' = plugin + 1 /\ CloseSocket

Refused == refused' = refused \cup {plugin}

ConstructorAsserts ==
  /\ Turn /\ ~GoodLength(serverIp)
  /\ pc' = "aborted"
  /\ UNCHANGED <<outside, plugin, socket, handle, kernel, refused>>

\* The end point on the stack, and its copy in the new TcpListener.
NewEndPoint ==
  /\ Turn /\ GoodLength(serverIp)
  /\ \E junk, junk2 \in Junk :
       LET ep == [ip |-> Snprintf(junk, serverIp), port |-> port[plugin]]
       IN  IF IsValid(ep) /\ type[plugin] = "tcp"
           THEN /\ m_ep' = [ep EXCEPT !.ip = Snprintf(junk2, Text(ep.ip))]
                /\ \/ /\ \E f \in Fds : OpenHelper(f)
                      /\ pc' = "bind" /\ UNCHANGED <<plugin, refused>>
                   \/ Refused /\ pc' = "turn" /\ plugin' = plugin + 1
                      /\ UNCHANGED <<newSock, kernel>>
           ELSE /\ pc' = "turn" /\ plugin' = plugin + 1
                /\ UNCHANGED <<socket, kernel, refused>>
  /\ UNCHANGED <<outside, handle>>

\* The listener looks at its copy of the end point again (EINVAL).
Bind ==
  /\ pc = "bind"
  /\ LET addr == [ip |-> Text(m_ep.ip), port |-> m_ep.port]
     IN  \/ /\ IsValid(m_ep) /\ ~AddressInUse(addr)
            /\ bound' = [bound EXCEPT ![newSock] = addr]
            /\ pc' = "listen"
            /\ UNCHANGED <<plugin, newSock, fds, listening, refused>>
         \/ /\ ~IsValid(m_ep) \/ AddressInUse(addr)
            /\ Continue /\ UNCHANGED refused
         \/ IsValid(m_ep) /\ Refused /\ Continue
  /\ UNCHANGED <<outside, m_ep, handle>>

Listen ==
  /\ pc = "listen"
  /\ \/ /\ listening' = listening \cup {newSock}
        /\ pc' = "register" /\ UNCHANGED <<plugin, newSock, fds, bound, refused>>
     \/ Refused /\ Continue
  /\ UNCHANGED <<outside, m_ep, handle>>

\* The AcceptorSession takes the socket over.
RegisterSession ==
  /\ pc = "register"
  /\ handle' = [handle EXCEPT ![plugin] = newSock]
  /\ pc' = "turn" /\ plugin' = plugin + 1 /\ newSock' = NoSocket
  /\ UNCHANGED <<outside, m_ep, kernel, refused>>

EnterLoop ==
  /\ pc = "turn" /\ plugin = NumPlugins + 1
  /\ pc' = "done"
  /\ UNCHANGED <<outside, plugin, socket, handle, kernel, refused>>

Next ==
  \/ ConstructorAsserts \/ NewEndPoint \/ Bind \/ Listen \/ RegisterSession
  \/ EnterLoop

Spec == Init /\ [][Next]_vars

-----------------------------------------------------------------------------
Registered == { p \in Plugins : handle[p] # NoSocket }

\* Whatever fails in whichever turn, the open descriptors are those of the
\* registered sessions and of the socket in hand, and no two share one.
ListenersOwned ==
  /\ fds = { handle[p] : p \in Registered } \cup ({newSock} \ {NoSocket})
  /\ \A p \in Registered : handle[p] # newSock
  /\ \A p, q \in Registered : handle[p] = handle[q] => p = q

\* The text survives two fixed buffers of unset memory: a session listens on the
\* address of the command line, not a shorter one, and on its plugin's port.
AddressKept ==
  \A p \in Registered :
    /\ handle[p] \in listening
    /\ bound[handle[p]] = [ip |-> serverIp, port |-> port[p]]

\* A plugin that fails costs no other plugin its listener: at the end each one
\* whose end point is valid and to whom the system refused nothing is served,
\* unless another one that is served has its port.
OthersServed ==
  pc = "done" /\ serverIp \in Addresses =>
    \A p \in Plugins \ refused :
      type[p] = "tcp" /\ port[p] # 0 =>
        \E q \in Registered : port[q] = port[p]
=============================================================================
