------------------------------ MODULE Exchange ------------------------------
(***************************************************************************)
(* What the server promises its clients: a half-duplex exchange.  A        *)
(* connection takes in a request only when it owes nothing, then sends     *)
(* its reply, which only shrinks, until nothing is left or the connection  *)
(* ends.  A connection that has ended stays ended, and all of them stop    *)
(* with the process.  No descriptors, no select(), no order of service.    *)
(***************************************************************************)
EXTENDS Naturals

CONSTANTS
  Connection,   \* the connections there can ever be
  MaxReply      \* longest reply, in units

VARIABLES
  up,           \* the server process runs
  open,         \* connections being served
  ended,        \* connections that were served
  owed          \* [Connection -> 0..MaxReply]: what is left of the reply

vars == <<up, open, ended, owed>>

Init ==
  /\ up = TRUE
  /\ open = {}
  /\ ended = {}
  /\ owed = [c \in Connection |-> 0]

Open(c) ==
  /\ up /\ c \notin open \cup ended
  /\ open' = open \cup {c}
  /\ UNCHANGED <<up, ended, owed>>

Receive(c) ==
  /\ up /\ c \in open /\ owed[c] = 0
  /\ \E reply \in 0 .. MaxReply : owed' = [owed EXCEPT ![c] = reply]
  /\ UNCHANGED <<up, open, ended>>

Send(c) ==
  /\ up /\ c \in open /\ owed[c] > 0
  /\ \E rest \in 0 .. (owed[c] - 1) : owed' = [owed EXCEPT ![c] = rest]
  /\ UNCHANGED <<up, open, ended>>

End(c) ==
  /\ up /\ c \in open
  /\ open' = open \ {c}
  /\ ended' = ended \cup {c}
  /\ owed' = [owed EXCEPT ![c] = 0]
  /\ UNCHANGED up

Stop ==
  /\ up /\ up' = FALSE
  /\ UNCHANGED <<open, ended, owed>>

Next ==
  \/ Stop
  \/ \E c \in Connection : Open(c) \/ Receive(c) \/ Send(c) \/ End(c)

Spec == Init /\ [][Next]_vars

\* A reply that has been started is not left behind.
Progress(c) == owed[c] > 0 /\ (Send(c) \/ End(c) \/ Stop)

Progresses == \A c \in Connection : WF_vars(Progress(c))

FairSpec == Spec /\ Progresses

=============================================================================
