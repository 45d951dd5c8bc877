---------------------------- MODULE HttpHandler -----------------------------
(***************************************************************************)
(* One connection of the HTTP plugin: ConnectionSession::OnRead and        *)
(* OnWrite driving HttpHandler (src/server_plugin/http/http_handler.cpp)   *)
(* with its HttpRequest and HttpResponse.                                  *)
(*                                                                         *)
(* The client's messages travel in parts, the smallest piece recv() can    *)
(* return; a message is any number of "more" parts and a "last" one.  A    *)
(* reply is a sequence of units: a line, a byte of the content, a CRLF.    *)
(***************************************************************************)
EXTENDS Integers, Sequences

CONSTANTS
  ChunkParts,   \* parts that fit in a DataChunk
  MaxContent,   \* longest content of a reply (index.html, 404_page.html)
  MaxParts      \* bound: parts that the client sends

ASSUME SizesAssumption ==
  ChunkParts \in Nat \ {0} /\ MaxContent \in Nat /\ MaxParts \in Nat

VARIABLES
  session,     \* "none" yet, "open", or "ended": ReadData or SendData deleted it
  client,      \* the other end of the connection: "up", "fin" or "rst"
  wire,        \* parts sent and not yet received
  received,    \* all parts received
  request,     \* what m_request holds, <<>> for NULL
  response,    \* m_response: the units not sent yet
  replies,     \* replies made
  made,        \* the units of all replies made, in order
  delivered,   \* the units the client was sent
  heap         \* what the plugin has allocated and not deleted, by class

net  == <<client, wire, received>>
vars == <<session, net, request, response, replies, made, delivered, heap>>

Parts == {"more", "last"}
Peers == {"up", "fin", "rst"}
Kinds == {"status", "length", "header", "crlf", "byte"}
Units == Kinds \X Nat
Classes == {"chunk", "request", "handler"}

New(h, class)    == [h EXCEPT ![class] = @ + 1]
Delete(h, class) == [h EXCEPT ![class] = @ - 1]

Init ==
  /\ session = "none" /\ client = "up"
  /\ wire = <<>> /\ received = <<>>
  /\ request = <<>> /\ response = <<>>
  /\ replies = 0 /\ made = <<>> /\ delivered = <<>>
  /\ heap = [class \in Classes |-> 0]

HasDataToSend == response # <<>>
CanReadAlways == TRUE   \* mutant
CanRead       == ~HasDataToSend

-----------------------------------------------------------------------------
(* HttpResponse.  A line brings its CRLF with it. *)

CRLF         == <<"crlf", 0>>
SetStatus(k) == << <<"status", k>> >>
AddHeader(data, name, value) == Append(data, <<name, value>>)
SetContent(data, size) ==
  data \o <<CRLF>> \o [i \in 1 .. size |-> <<"byte", i>>] \o <<CRLF, CRLF>>

\* The k-th reply, with a content of this size.  The mutant sets the content
\* before the last header.
ReplyDisordered(k, size) ==
  AddHeader(SetContent(AddHeader(SetStatus(k), "length", size), size), "header", 0)
Reply(k, size) ==
  SetContent(
    AddHeader(AddHeader(AddHeader(SetStatus(k), "length", size), "header", 1),
              "header", 2), size)

\* The units of a reply beside its content.
Framing == 7

\* HttpResponse::ShiftLeftBy; the mutant keeps the last unit that was sent.
ShiftLeftShort(n) == SubSeq(response, n, Len(response))
ShiftLeftBy(n) == SubSeq(response, n + 1, Len(response))

-----------------------------------------------------------------------------
(* HttpHandler. *)

\* The status Parse returns for a request of these bytes (module HttpParser:
\* it finishes on every request that is not empty, be it complete or not).
\* The mutant asks for more as long as the message is not complete.
ParseStatusWaits(r) == IF r[Len(r)] = "last" THEN "FINISHED" ELSE "MORE_DATA"
ParseStatus(r) == IF r = <<>> THEN "ERROR" ELSE "FINISHED"

AllocateChunk == New(heap, "chunk")

DiscardChunk(h) == Delete(h, "chunk")

\* DidReceive makes a request if there is none and deletes the chunk in h; when
\* the request is parsed it is answered and deleted.
DidReceive(h, data) ==
  LET r    == request \o data
      kept == Delete(IF request = <<>> THEN New(h, "request") ELSE h, "chunk")
  IN  IF ParseStatus(r) = "FINISHED"
      THEN \E size \in 0 .. MaxContent :
             /\ response' = Reply(replies + 1, size)
             /\ made' = made \o response'
             /\ replies' = replies + 1
             /\ request' = <<>>
             /\ heap' = Delete(kept, "request")
      ELSE /\ request' = r
           /\ heap' = kept
           /\ UNCHANGED <<response, made, replies>>

DidSend(n) ==
  response' = IF n >= Len(response) THEN <<>> ELSE ShiftLeftBy(n)

\* ReadData or SendData deletes the session and ~Session frees the handler; there
\* is no ~HttpHandler that would delete m_request.
Ends(h) ==
  /\ session' = "ended"
  /\ heap' = Delete(h, "handler")
  /\ UNCHANGED <<net, request, response, replies, made, delivered>>

-----------------------------------------------------------------------------
(* ConnectionSession, which the select() loop calls, and the client. *)

\* AcceptorSession::OnRead makes the session with a handler from NewHandler.
OnAccept ==
  /\ session = "none"
  /\ session' = "open"
  /\ heap' = New(heap, "handler")
  /\ UNCHANGED <<net, request, response, replies, made, delivered>>

\* OnRead with something to receive; the loop asks CanRead before.
OnRead ==
  /\ session = "open" /\ CanRead
  /\ \E n \in 1 .. ChunkParts :
       /\ n <= Len(wire)
       /\ wire' = SubSeq(wire, n + 1, Len(wire))
       /\ received' = received \o SubSeq(wire, 1, n)
       /\ DidReceive(AllocateChunk, SubSeq(wire, 1, n))
  /\ UNCHANGED <<session, client, delivered>>

\* OnRead with recv() returning 0 or -1.
OnReadEnds ==
  /\ session = "open" /\ CanRead
  /\ client = "rst" \/ (client = "fin" /\ wire = <<>>)
  /\ Ends(DiscardChunk(AllocateChunk))

\* OnWrite: send() takes a part of the reply or all of it.
OnWrite ==
  /\ session = "open" /\ client # "rst"
  /\ \E n \in 1 .. Len(response) :
       /\ delivered' = delivered \o SubSeq(response, 1, n)
       /\ DidSend(n)
  /\ UNCHANGED <<session, net, request, replies, made, heap>>

\* OnWrite with send() returning -1.  The mutant leaves the session as it is.
OnWriteIgnored ==
  /\ session = "open" /\ HasDataToSend /\ client = "rst"
  /\ UNCHANGED vars
OnWriteEnds ==
  /\ session = "open" /\ HasDataToSend /\ client = "rst"
  /\ Ends(heap)

ClientSends ==
  /\ client = "up" /\ Len(received) + Len(wire) < MaxParts
  /\ \E p \in Parts : wire' = Append(wire, p)
  /\ UNCHANGED <<session, client, received, request, response, replies, made,
                 delivered, heap>>

\* The client shuts down its sending half, or resets the connection.
ClientLeaves ==
  /\ client # "rst"
  /\ client' \in IF client = "up" THEN {"fin", "rst"} ELSE {"rst"}
  /\ UNCHANGED <<session, wire, received, request, response, replies, made,
                 delivered, heap>>

Next ==
  \/ OnAccept \/ OnRead \/ OnReadEnds \/ OnWrite \/ OnWriteEnds
  \/ ClientSends \/ ClientLeaves

Spec == Init /\ [][Next]_vars

\* The loop gets to a session with a reply (ServerLoop!ReplyGetsOut).
FairSpec == Spec /\ WF_vars(OnWrite \/ OnWriteEnds)

-----------------------------------------------------------------------------
(* Properties. *)

\* The client is sent every unit of every reply, once and in order, in whatever
\* pieces send() takes them: DidSend and ShiftLeftBy drop what was sent and no
\* more, and no reply is made over another one.
StreamIntact == delivered \o response = made

\* When the session has ended, nothing that the plugin allocated is left, nor is
\* anything deleted twice: DidReceive and DiscardChunk dispose of every chunk, and
\* no request is left for the ~HttpHandler that does not exist.
NothingLeaks ==
  session = "ended" => \A class \in Classes : heap[class] = 0

\* The parts of the message that is not complete yet.
Unfinished(parts) ==
  { i \in 1 .. Len(parts) : \A j \in i .. Len(parts) : parts[j] # "last" }

\* DidReceive "appends to the data received from server"
\* (plugin_api/protocol_handler.h:18): of a message that is not complete yet,
\* the handler keeps every part.
AppendsData == \A i \in Unfinished(received) : Len(request) > Len(received) - i

\* The handler under its session is one connection of the half-duplex exchange,
\* which is all that the select() loop relies on (ServerLoop).
Connections == {1}
Opened == IF session = "open" THEN Connections ELSE {}
Closed == IF session = "ended" THEN Connections ELSE {}
Left   == [c \in Connections |-> IF session = "open" THEN Len(response) ELSE 0]

Promise == INSTANCE Exchange WITH
  Connection <- Connections,
  MaxReply   <- MaxContent + Framing,
  up         <- TRUE,
  open       <- Opened,
  ended      <- Closed,
  owed       <- Left

\* Every request is received when nothing is owed, and a reply only shrinks.
ImplementsExchange == Promise!Spec

\* A reply is sent to its end, in pieces that each make progress, or the session
\* ends: DidSend never leaves more than it found (response.cpp, ShiftLeftBy).
ExchangeProgresses == Promise!Progresses

=============================================================================
