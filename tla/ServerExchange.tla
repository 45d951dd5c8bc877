--------------------------- MODULE ServerExchange ---------------------------
(***************************************************************************)
(* The select() loop implements the half-duplex exchange, as long as no    *)
(* accept() fails (a session on descriptor -1 can share its fd_set bit     *)
(* with another session, which then is read while it owes a reply).        *)
(***************************************************************************)
EXTENDS ServerLoop

\* The listeners' sessions are no connections.
Served == sessions \ acceptors

\* A registration number that is not in m_sessions any more names a connection
\* that has ended.
Past == (1 .. registered) \ sessions

\* What each connection still owes.
Left == [s \in Ids |-> IF s \in sessions THEN owed[s] ELSE 0]

Promise == INSTANCE Exchange WITH
  Connection <- Ids,
  up         <- Alive,
  open       <- Served,
  ended      <- Past,
  owed       <- Left

\* Server::Run with its sessions implements the exchange: reads and writes are
\* those CanRead and HasDataToSend permit, and sessions end once and for all.
ImplementsExchange == Promise!Spec

=============================================================================
