------------------------- MODULE InitPluginsProofs -------------------------
(***************************************************************************)
(* Theorems about InitPlugins, for every buffer size, plugin and address.  *)
(***************************************************************************)
EXTENDS InitPlugins, TLAPS

MIps  == [0 .. IpSize - 1 -> Chars \cup {NUL}]
Texts == Seq(Chars) \cup {<<NUL>>}

TypeOK ==
  /\ serverIp \in Ips
  /\ type \in [Plugins -> {"tcp", "other"}] /\ port \in [Plugins -> Ports]
  /\ pc \in {"turn", "bind", "listen", "register", "done", "aborted"}
  /\ plugin \in 1 .. NumPlugins + 1
  /\ newSock \in Fds \cup {NoSocket}
  /\ m_ep \in [ip : MIps, port : Ports \cup {0}]
  /\ handle \in [Plugins -> Fds \cup {NoSocket}]
  /\ fds \in SUBSET Fds /\ listening \in SUBSET Fds
  /\ bound \in [Fds -> [ip : Texts, port : Ports \cup {0}]]
  /\ refused \in SUBSET Plugins

\* The address that plugin p is to listen on.
Address(p) == [ip |-> serverIp, port |-> port[p]]

\* How far the socket in hand is.
SocketInHand ==
  /\ pc \notin {"bind", "listen", "register"} => newSock = NoSocket
  /\ pc \in {"bind", "listen", "register"} =>
       /\ plugin \in Plugins /\ newSock \in fds
       /\ Text(m_ep.ip) = serverIp /\ m_ep.port = port[plugin]
  /\ pc = "bind" =>
       bound[newSock] = Nowhere /\ serverIp \in Addresses /\ port[plugin] # 0
  /\ pc \in {"listen", "register"} => bound[newSock] = Address(plugin)
  /\ pc = "register" => newSock \in listening

\* Sessions are those of earlier turns; a closed descriptor has no address.
NothingElse ==
  /\ \A p \in Plugins : p >= plugin => handle[p] = NoSocket
  /\ \A f \in Fds \ fds : bound[f] = Nowhere

\* What OthersServed says, for the turns that are over.
ServedSoFar ==
  serverIp \in Addresses =>
    \A p \in Plugins \ refused :
      p < plugin /\ type[p] = "tcp" /\ port[p] # 0 =>
        \E q \in Registered : port[q] = port[p]

IInv ==
  /\ TypeOK /\ SocketInHand /\ NothingElse
  /\ ListenersOwned /\ AddressKept /\ ServedSoFar
  /\ pc = "done" => plugin = NumPlugins + 1

-----------------------------------------------------------------------------
\* snprintf() into a buffer that the text fits in: the text is read back.
LEMMA SnprintfText ==
  ASSUME NEW junk \in Junk, NEW ip \in Seq(Chars), Len(ip) < IpSize
  PROVE  /\ Snprintf(junk, ip) \in MIps
         /\ Text(Snprintf(junk, ip)) = ip
  <1> DEFINE m == Snprintf(junk, ip)
  <1>1. Len(ip) \in 0 .. IpSize - 1 /\ \A i \in 1 .. Len(ip) : ip[i] \in Chars
    BY InitPluginsAssumption
  <1>2. m = [i \in 0 .. IpSize - 1 |->
               IF i < Len(ip) THEN ip[i + 1] ELSE IF i = Len(ip) THEN NUL ELSE junk[i]]
    BY DEF Snprintf
  <1>3. m \in MIps
    BY <1>1, <1>2, InitPluginsAssumption DEF MIps
  <1>4. \A i \in 0 .. Len(ip) - 1 : m[i] = ip[i + 1] /\ m[i] # NUL
    BY <1>1, <1>2, InitPluginsAssumption
  <1>0. m[Len(ip)] = NUL
    BY <1>1, <1>2
  <1>5. Ends(m, Len(ip))
    <2> HIDE DEF m
    <2> QED
      BY <1>0, <1>4 DEF Ends
  <1>6. \A n \in 0 .. IpSize - 1 : Ends(m, n) => n = Len(ip)
    <2> SUFFICES ASSUME NEW n \in 0 .. IpSize - 1, Ends(m, n) PROVE n = Len(ip)
      OBVIOUS
    <2>1. ~(n < Len(ip))
      BY <1>1, <1>4, InitPluginsAssumption DEF Ends
    <2>2. ~(Len(ip) < n)
      BY <1>1, <1>5, InitPluginsAssumption DEF Ends
    <2> QED
      BY <1>1, <2>1, <2>2, InitPluginsAssumption
  <1> HIDE DEF m
  <1>7. (CHOOSE n \in 0 .. IpSize - 1 : Ends(m, n)) = Len(ip)
    BY <1>1, <1>5, <1>6
  <1>8. Text(m) = [i \in 1 .. Len(ip) |-> m[i - 1]]
    BY <1>7 DEF Text
  <1>9. \A i \in 1 .. Len(ip) : m[i - 1] = ip[i]
    BY <1>1, <1>4
  <1>10. Text(m) = ip
    BY <1>1, <1>8, <1>9
  <1> QED
    BY <1>3, <1>10 DEF m

LEMMA Initially == Init => IInv
  <1> SUFFICES ASSUME Init PROVE IInv
    OBVIOUS
  <1> USE InitPluginsAssumption
  <1>1. m_ep \in [ip : MIps, port : Ports \cup {0}]
    BY DEF Init, MIps
  <1>2. bound \in [Fds -> [ip : Texts, port : Ports \cup {0}]]
    BY DEF Init, Nowhere, Texts
  <1>3. TypeOK
    BY <1>1, <1>2 DEF Init, TypeOK, Plugins
  <1>4. \A p \in Plugins : handle[p] = NoSocket /\ p >= plugin
    BY DEF Init, Plugins
  <1>5. Registered = {}
    BY <1>4 DEF Registered
  <1>6. SocketInHand /\ NothingElse
    BY <1>4 DEF Init, SocketInHand, NothingElse
  <1>7. ListenersOwned /\ AddressKept
    BY <1>5 DEF Init, ListenersOwned, AddressKept
  <1>8. ServedSoFar
    BY DEF Init, ServedSoFar, Plugins
  <1> QED
    BY <1>3, <1>6, <1>7, <1>8 DEF IInv, Init

-----------------------------------------------------------------------------
\* A turn that fails with a socket in hand: the system's fault, or the port is
\* served by another plugin.
LEMMA FailedTurn ==
  ASSUME IInv, pc \in {"bind", "listen"}, Continue,
         UNCHANGED <<outside, m_ep, handle>>,
         refused' = refused \cup {plugin} \/
           (refused' = refused /\
             \E q \in Registered : port[q] = port[plugin])
  PROVE  IInv'
  <1> USE InitPluginsAssumption DEF IInv
  <1>1. /\ pc' = "turn" /\ plugin' = plugin + 1 /\ newSock' = NoSocket
        /\ fds' = fds \ {newSock} /\ listening' = listening \ {newSock}
        /\ bound' = [bound EXCEPT ![newSock] = Nowhere]
        /\ plugin \in Plugins /\ newSock \in fds
        /\ UNCHANGED <<serverIp, type, port, m_ep, handle>>
    BY DEF Continue, CloseSocket, SocketInHand, outside
  <1>2. Nowhere \in [ip : Texts, port : Ports \cup {0}]
    BY DEF Nowhere, Texts
  <1>3. bound' \in [Fds -> [ip : Texts, port : Ports \cup {0}]]
    BY <1>1, <1>2 DEF TypeOK
  <1>4. TypeOK'
    <2>1. refused' \in SUBSET Plugins
      BY <1>1 DEF TypeOK
    <2>2. plugin' \in 1 .. NumPlugins + 1 /\ newSock' \in Fds \cup {NoSocket}
      BY <1>1 DEF Plugins
    <2>3. fds' \in SUBSET Fds /\ listening' \in SUBSET Fds
      BY <1>1 DEF TypeOK
    <2> QED
      BY <1>1, <1>3, <2>1, <2>2, <2>3 DEF TypeOK
  <1>5. \A p \in Registered : handle[p] \in fds \ {newSock}
    BY <1>1 DEF ListenersOwned, NoSocket
  <1>6. Registered' = Registered
    BY <1>1 DEF Registered
  <1>7. \A f \in fds \ {newSock} : f \in Fds /\ bound'[f] = bound[f]
    BY <1>1 DEF TypeOK
  <1>8. \A f \in Fds \ (fds \ {newSock}) : bound'[f] = Nowhere
    BY <1>1 DEF TypeOK, NothingElse
  <1>9. \A p \in Plugins : p >= plugin + 1 => handle[p] = NoSocket
    BY <1>1 DEF NothingElse, Plugins, TypeOK
  <1>10. SocketInHand' /\ NothingElse'
    BY <1>1, <1>8, <1>9 DEF SocketInHand, NothingElse
  <1>11. ListenersOwned'
    BY <1>1, <1>5, <1>6 DEF ListenersOwned, NoSocket, Registered
  <1>12. AddressKept'
    BY <1>1, <1>5, <1>6, <1>7 DEF AddressKept
  <1>13. ServedSoFar'
    <2> SUFFICES ASSUME (serverIp \in Addresses)',
                        NEW p \in Plugins, p \notin refused', p < plugin',
                        type[p] = "tcp", port[p] # 0
                 PROVE  \E q \in Registered : port[q] = port[p]
      BY <1>1, <1>6 DEF ServedSoFar
    <2>1. CASE p = plugin
      BY <2>1
    <2>2. CASE p # plugin
      BY <1>1, <2>2 DEF ServedSoFar, Plugins, TypeOK
    <2> QED
      BY <2>1, <2>2
  <1> QED
    BY <1>1, <1>4, <1>10, <1>11, <1>12, <1>13

LEMMA ConstructorStep == IInv /\ ConstructorAsserts => IInv'
  <1> SUFFICES ASSUME IInv, ConstructorAsserts PROVE IInv'
    OBVIOUS
  <1>1. /\ pc = "turn" /\ pc' = "aborted"
        /\ UNCHANGED <<serverIp, type, port, plugin, newSock, m_ep, handle, fds, bound,
                       listening, refused>>
    BY DEF ConstructorAsserts, Turn, outside, socket, kernel
  <1> QED
    BY <1>1 DEF IInv, TypeOK, SocketInHand, NothingElse, ListenersOwned, AddressKept,
                ServedSoFar, Registered, Address

LEMMA EnterStep == IInv /\ EnterLoop => IInv'
  <1> SUFFICES ASSUME IInv, EnterLoop PROVE IInv'
    OBVIOUS
  <1>1. /\ pc = "turn" /\ pc' = "done" /\ plugin = NumPlugins + 1
        /\ UNCHANGED <<serverIp, type, port, plugin, newSock, m_ep, handle, fds, bound,
                       listening, refused>>
    BY DEF EnterLoop, outside, socket, kernel
  <1> QED
    BY <1>1 DEF IInv, TypeOK, SocketInHand, NothingElse, ListenersOwned, AddressKept,
                ServedSoFar, Registered, Address

\* A turn without a socket: the end point is not used, or socket() fails.
LEMMA IdleTurn ==
  ASSUME IInv, Turn, pc' = "turn", plugin' = plugin + 1, m_ep' \in [ip : MIps, port : Ports \cup {0}],
         UNCHANGED <<outside, newSock, kernel, handle>>,
         refused' = refused \cup {plugin} \/
           (refused' = refused /\
             (serverIp \notin Addresses \/ port[plugin] = 0 \/ type[plugin] # "tcp"))
  PROVE  IInv'
  <1> USE InitPluginsAssumption DEF IInv
  <1>1. /\ pc = "turn" /\ newSock = NoSocket /\ plugin \in Plugins
        /\ UNCHANGED <<serverIp, type, port, newSock, handle, fds, bound, listening>>
    BY DEF Turn, outside, kernel, SocketInHand, TypeOK, Plugins
  <1>2. refused' \in SUBSET Plugins
    BY <1>1 DEF TypeOK
  <1>3. plugin' \in 1 .. NumPlugins + 1
    BY <1>1 DEF Plugins
  <1>4. TypeOK'
    BY <1>1, <1>2, <1>3 DEF TypeOK
  <1>5. SocketInHand' /\ NothingElse'
    BY <1>1 DEF SocketInHand, NothingElse, Plugins
  <1>6. ListenersOwned' /\ AddressKept'
    BY <1>1 DEF ListenersOwned, AddressKept, Registered
  <1>7. ServedSoFar'
    BY <1>1 DEF ServedSoFar, Plugins, Registered
  <1> QED
    BY <1>1, <1>4, <1>5, <1>6, <1>7

LEMMA NewEndPointStep == IInv /\ NewEndPoint => IInv'
  <1> SUFFICES ASSUME IInv, NewEndPoint PROVE IInv'
    OBVIOUS
  <1> USE InitPluginsAssumption DEF IInv
  <1>1. PICK junk \in Junk, junk2 \in Junk :
          LET ep == [ip |-> Snprintf(junk, serverIp), port |-> port[plugin]]
          IN  IF IsValid(ep) /\ type[plugin] = "tcp"
              THEN /\ m_ep' = [ep EXCEPT !.ip = Snprintf(junk2, Text(ep.ip))]
                   /\ \/ /\ \E f \in Fds : OpenHelper(f)
                         /\ pc' = "bind" /\ UNCHANGED <<plugin, refused>>
                      \/ Refused /\ pc' = "turn" /\ plugin' = plugin + 1
                         /\ UNCHANGED <<newSock, kernel>>
              ELSE /\ pc' = "turn" /\ plugin' = plugin + 1
                   /\ UNCHANGED <<socket, kernel, refused>>
    BY DEF NewEndPoint
  <1> DEFINE ep   == [ip |-> Snprintf(junk, serverIp), port |-> port[plugin]]
             copy == [ip |-> Snprintf(junk2, serverIp), port |-> port[plugin]]
  <1>2. Turn /\ UNCHANGED <<outside, handle>> /\ plugin \in Plugins
    BY DEF NewEndPoint, Turn, TypeOK, Plugins
  <1>3. serverIp \in Seq(Chars) /\ Len(serverIp) < IpSize
    BY DEF NewEndPoint, GoodLength, TypeOK
  <1>4. Text(ep.ip) = serverIp
    BY <1>3, SnprintfText
  <1>5. Snprintf(junk2, serverIp) \in MIps /\ Text(copy.ip) = serverIp
    BY <1>3, SnprintfText
  <1>6. port[plugin] \in Ports
    BY <1>2 DEF TypeOK
  <1>7. copy \in [ip : MIps, port : Ports \cup {0}]
    BY <1>5, <1>6
  <1>8. IsValid(ep) <=> serverIp \in Addresses /\ port[plugin] # 0
    BY <1>4 DEF IsValid
  <1>9. [ep EXCEPT !.ip = Snprintf(junk2, Text(ep.ip))] = copy
    BY <1>4
  <1>10. CASE ~(IsValid(ep) /\ type[plugin] = "tcp")
    <2>1. /\ pc' = "turn" /\ plugin' = plugin + 1
          /\ UNCHANGED <<socket, kernel, refused>>
      BY <1>1, <1>10
    <2>2. m_ep' \in [ip : MIps, port : Ports \cup {0}] /\ newSock' = newSock
      BY <2>1 DEF socket, TypeOK
    <2>3. serverIp \notin Addresses \/ port[plugin] = 0 \/ type[plugin] # "tcp"
      BY <1>8, <1>10
    <2> QED
      BY <1>2, <2>1, <2>2, <2>3, IdleTurn
  <1>11. CASE IsValid(ep) /\ type[plugin] = "tcp"
    <2>1. m_ep' = copy
      BY <1>1, <1>9, <1>11
    <2>2. CASE Refused /\ pc' = "turn" /\ plugin' = plugin + 1 /\ UNCHANGED <<newSock, kernel>>
      <3>1. refused' = refused \cup {plugin}
        BY <2>2 DEF Refused
      <3> QED
        BY <1>2, <1>7, <2>1, <2>2, <3>1, IdleTurn
    <2>3. ASSUME NEW f \in Fds, OpenHelper(f), pc' = "bind", UNCHANGED <<plugin, refused>>
          PROVE  IInv'
      <3> HIDE DEF copy
      <3>1. /\ f \notin fds /\ fds' = fds \cup {f} /\ newSock' = f
            /\ UNCHANGED <<bound, listening, serverIp, type, port, handle>>
            /\ pc = "turn" /\ newSock = NoSocket
        BY <1>2, <2>3 DEF OpenHelper, Turn, SocketInHand, outside
      <3>2. Text(copy.ip) = serverIp /\ copy.port = port[plugin]
        BY <1>5 DEF copy
      <3>3. fds' \in SUBSET Fds
        BY <3>1 DEF TypeOK
      <3>4. TypeOK'
        BY <1>2, <1>7, <2>1, <2>3, <3>1, <3>3 DEF TypeOK
      <3>5. bound[f] = Nowhere
        BY <3>1 DEF NothingElse
      <3>6. SocketInHand'
        BY <1>2, <1>8, <1>11, <2>1, <2>3, <3>1, <3>2, <3>5 DEF SocketInHand
      <3>7. NothingElse'
        BY <2>3, <3>1 DEF NothingElse
      <3>8. Registered' = Registered
        BY <3>1 DEF Registered
      <3>9. \A p \in Registered : handle[p] \in fds
        BY DEF ListenersOwned
      <3>10. f # NoSocket
        BY DEF NoSocket
      <3>11. ListenersOwned'
        BY <3>1, <3>8, <3>9, <3>10 DEF ListenersOwned
      <3>12. AddressKept' /\ ServedSoFar'
        BY <2>3, <3>1, <3>8 DEF AddressKept, ServedSoFar
      <3> QED
        BY <2>3, <3>4, <3>6, <3>7, <3>11, <3>12
    <2> QED
      BY <1>1, <1>11, <2>2, <2>3
  <1> QED
    BY <1>10, <1>11

LEMMA BindStep == IInv /\ Bind => IInv'
  <1> SUFFICES ASSUME IInv, Bind PROVE IInv'
    OBVIOUS
  <1> USE InitPluginsAssumption DEF IInv
  <1> DEFINE addr == [ip |-> Text(m_ep.ip), port |-> m_ep.port]
  <1>1. /\ pc = "bind" /\ UNCHANGED <<outside, m_ep, handle>>
        /\ newSock \in fds /\ bound[newSock] = Nowhere
        /\ plugin \in Plugins /\ addr = Address(plugin)
        /\ IsValid(m_ep) /\ port[plugin] # 0
    BY DEF Bind, SocketInHand, Address, IsValid
  <1>2. \/ /\ ~AddressInUse(addr)
           /\ bound' = [bound EXCEPT ![newSock] = addr] /\ pc' = "listen"
           /\ UNCHANGED <<plugin, newSock, fds, listening, refused>>
        \/ AddressInUse(addr) /\ Continue /\ UNCHANGED refused
        \/ Refused /\ Continue
    BY <1>1 DEF Bind
  <1> HIDE DEF addr
  <1>3. CASE Refused /\ Continue
    BY <1>1, <1>3, FailedTurn DEF Refused
  <1>4. CASE AddressInUse(addr) /\ Continue /\ UNCHANGED refused
    <2>1. PICK f \in fds : bound[f] = Address(plugin)
      BY <1>1, <1>4 DEF AddressInUse
    <2>2. f # newSock
      BY <1>1, <2>1 DEF Address, Nowhere
    <2>3. PICK q \in Registered : f = handle[q]
      BY <2>2 DEF ListenersOwned
    <2>4. bound[handle[q]] = Address(q)
      BY DEF AddressKept, Address
    <2>5. port[q] = port[plugin]
      BY <2>1, <2>3, <2>4 DEF Address
    <2> QED
      BY <1>1, <1>4, <2>5, FailedTurn
  <1>5. CASE /\ bound' = [bound EXCEPT ![newSock] = addr] /\ pc' = "listen"
             /\ UNCHANGED <<plugin, newSock, fds, listening, refused>>
    <2>1. UNCHANGED <<serverIp, type, port, m_ep, handle, plugin, newSock, fds, listening, refused>>
      BY <1>1, <1>5 DEF outside
    <2>2. addr \in [ip : Texts, port : Ports \cup {0}]
      BY <1>1 DEF Address, TypeOK, Texts
    <2>3. bound' \in [Fds -> [ip : Texts, port : Ports \cup {0}]]
      BY <1>5, <2>2 DEF TypeOK
    <2>4. TypeOK'
      BY <1>5, <2>1, <2>3 DEF TypeOK
    <2>5. newSock \in Fds /\ bound'[newSock] = addr
      BY <1>1, <1>5 DEF TypeOK
    <2>6. Address(plugin)' = Address(plugin)
      BY <2>1 DEF Address
    <2>7. SocketInHand'
      BY <1>1, <1>5, <2>1, <2>5, <2>6 DEF SocketInHand
    <2>8. \A f \in Fds \ {newSock} : bound'[f] = bound[f]
      BY <1>5 DEF TypeOK
    <2>9. NothingElse'
      BY <1>1, <2>1, <2>8 DEF NothingElse
    <2>10. Registered' = Registered
      BY <2>1 DEF Registered
    <2>11. ListenersOwned' /\ ServedSoFar'
      BY <2>1, <2>10 DEF ListenersOwned, ServedSoFar
    <2>12. \A p \in Registered : handle[p] \in Fds \ {newSock}
      BY DEF ListenersOwned, TypeOK
    <2>13. AddressKept'
      BY <2>1, <2>8, <2>10, <2>12 DEF AddressKept
    <2> QED
      BY <1>5, <2>4, <2>7, <2>9, <2>11, <2>13
  <1> QED
    BY <1>2, <1>3, <1>4, <1>5

LEMMA ListenStep == IInv /\ Listen => IInv'
  <1> SUFFICES ASSUME IInv, Listen PROVE IInv'
    OBVIOUS
  <1> USE InitPluginsAssumption DEF IInv
  <1>1. /\ pc = "listen" /\ UNCHANGED <<outside, m_ep, handle>>
        /\ newSock \in fds /\ plugin \in Plugins
    BY DEF Listen, SocketInHand
  <1>2. CASE Refused /\ Continue
    BY <1>1, <1>2, FailedTurn DEF Refused
  <1>3. CASE /\ listening' = listening \cup {newSock}
             /\ pc' = "register" /\ UNCHANGED <<plugin, newSock, fds, bound, refused>>
    <2>1. UNCHANGED <<serverIp, type, port, m_ep, handle, plugin, newSock, fds, bound, refused>>
      BY <1>1, <1>3 DEF outside
    <2>2. listening' \in SUBSET Fds
      BY <1>1, <1>3 DEF TypeOK
    <2>3. TypeOK'
      BY <1>3, <2>1, <2>2 DEF TypeOK
    <2>4. SocketInHand'
      BY <1>1, <1>3, <2>1 DEF SocketInHand, Address
    <2>5. NothingElse' /\ ListenersOwned' /\ AddressKept' /\ ServedSoFar'
      BY <1>3, <2>1 DEF NothingElse, ListenersOwned, AddressKept, ServedSoFar, Registered
    <2> QED
      BY <1>3, <2>3, <2>4, <2>5
  <1> QED
    BY <1>2, <1>3 DEF Listen

LEMMA RegisterStep == IInv /\ RegisterSession => IInv'
  <1> SUFFICES ASSUME IInv, RegisterSession PROVE IInv'
    OBVIOUS
  <1> USE InitPluginsAssumption DEF IInv
  <1>1. /\ pc = "register" /\ pc' = "turn" /\ plugin' = plugin + 1 /\ newSock' = NoSocket
        /\ handle' = [handle EXCEPT ![plugin] = newSock]
        /\ UNCHANGED <<serverIp, type, port, m_ep, fds, bound, listening, refused>>
        /\ plugin \in Plugins /\ newSock \in fds /\ newSock \in Fds
        /\ newSock \in listening /\ bound[newSock] = Address(plugin)
    BY DEF RegisterSession, SocketInHand, outside, kernel, TypeOK
  <1>2. newSock # NoSocket
    BY <1>1 DEF NoSocket
  <1>3. TypeOK'
    BY <1>1 DEF TypeOK, Plugins
  <1>4. /\ handle'[plugin] = newSock
        /\ \A p \in Plugins \ {plugin} : handle'[p] = handle[p]
    BY <1>1 DEF TypeOK
  <1>5. plugin \notin Registered /\ Registered' = Registered \cup {plugin}
    BY <1>1, <1>2, <1>4 DEF Registered, NothingElse, Plugins
  <1>6. SocketInHand' /\ NothingElse'
    BY <1>1, <1>4 DEF SocketInHand, NothingElse, Plugins
  <1>7. \A p \in Registered : handle'[p] = handle[p]
    BY <1>4, <1>5 DEF Registered
  <1>8. ListenersOwned'
    <2>1. fds = { handle[p] : p \in Registered } \cup {newSock}
      BY <1>2 DEF ListenersOwned
    <2>2. { handle'[p] : p \in Registered' } = { handle[p] : p \in Registered } \cup {newSock}
      BY <1>4, <1>5, <1>7
    <2>3. \A p \in Registered' : handle'[p] # NoSocket
      BY <1>1 DEF Registered
    <2>4. \A p, q \in Registered' : handle'[p] = handle'[q] => p = q
      BY <1>4, <1>5, <1>7 DEF ListenersOwned
    <2> QED
      BY <1>1, <2>1, <2>2, <2>3, <2>4 DEF ListenersOwned
  <1>9. AddressKept'
    BY <1>1, <1>4, <1>5, <1>7 DEF AddressKept, Address
  <1>10. ServedSoFar'
    BY <1>1, <1>5 DEF ServedSoFar, Plugins, TypeOK
  <1> QED
    BY <1>1, <1>3, <1>6, <1>8, <1>9, <1>10

LEMMA Invariant == Spec => []IInv
  <1>1. IInv /\ [Next]_vars => IInv'
    <2> SUFFICES ASSUME IInv, [Next]_vars PROVE IInv'
      OBVIOUS
    <2>1. CASE Next
      BY <2>1, ConstructorStep, NewEndPointStep, BindStep, ListenStep, RegisterStep,
         EnterStep DEF Next
    <2>2. CASE UNCHANGED vars
      BY <2>2 DEF vars, outside, socket, kernel, IInv, TypeOK, SocketInHand, NothingElse,
                  ListenersOwned, AddressKept, ServedSoFar, Registered, Address
    <2> QED
      BY <2>1, <2>2
  <1> QED
    BY Initially, <1>1, PTL DEF Spec

-----------------------------------------------------------------------------
\* Whatever fails, InitPlugins leaves open the descriptors of the registered
\* sessions and the one it is working on, and no other (server.cpp:132).
THEOREM ListenersKept == Spec => []ListenersOwned
  BY Invariant, PTL DEF IInv

\* For every buffer size, the constructor's assertion (ip_endpoint.cpp:32) is
\* enough for the address to reach bind() unchanged through both end points.
THEOREM AddressesKept == Spec => []AddressKept
  BY Invariant, PTL DEF IInv

\* A plugin is left without a listener only for its own end point's sake, for the
\* system's, or for a plugin that is served on its port (server.cpp:138, 144, 150).
THEOREM EachServed == Spec => []OthersServed
  <1>1. IInv => OthersServed
    BY InitPluginsAssumption DEF IInv, ServedSoFar, OthersServed, Plugins
  <1> QED
    BY Invariant, <1>1, PTL
=============================================================================
