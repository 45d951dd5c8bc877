-------------------------- MODULE HttpHandlerProofs --------------------------
(***************************************************************************)
(* Whatever a connection of the HTTP plugin receives, and in whatever      *)
(* pieces send() takes its replies, the client is sent their units once    *)
(* and in order, nothing leaks, and the handler is what the select() loop  *)
(* takes it for.  A client that believes Content-length keeps in step.     *)
(***************************************************************************)
EXTENDS HttpClient, NatInduction, SequenceTheorems, TLAPS

StreamType ==
  /\ replies \in Nat
  /\ response \in Seq(Units) /\ made \in Seq(Units) /\ delivered \in Seq(Units)

LEMMA UnitsAssociative ==
  \A a, b, c \in Seq(Units) : (a \o b) \o c = a \o (b \o c)
<1> SUFFICES ASSUME NEW a \in Seq(Units), NEW b \in Seq(Units), NEW c \in Seq(Units)
             PROVE  (a \o b) \o c = a \o (b \o c)
  OBVIOUS
<1> QED
  BY ConcatAssociative, SMTT(30)

\* A reply is dropped from the left by what was sent; of all of it nothing is left.
LEMMA DropSent ==
  ASSUME StreamType, NEW n \in 1 .. Len(response), DidSend(n)
  PROVE  /\ response' = SubSeq(response, n + 1, Len(response))
         /\ response' \in Seq(Units)
<1>1. response \in Seq(Units) /\ Len(response) \in Nat /\ n \in Nat
  BY DEF StreamType
<1>2. \A i \in n + 1 .. Len(response) : response[i] \in Units
  BY <1>1
<1>3. SubSeq(response, n + 1, Len(response)) \in Seq(Units)
  BY <1>1, <1>2, SubSeqProperties
<1>4. CASE n >= Len(response)
  <2>1. SubSeq(response, n + 1, Len(response)) = <<>>
    BY <1>1, <1>4, SubSeqEmpty
  <2> QED
    BY <1>3, <1>4, <2>1 DEF DidSend
<1>5. CASE ~(n >= Len(response))
  BY <1>3, <1>5 DEF DidSend, ShiftLeftBy
<1> QED
  BY <1>4, <1>5

LEMMA UnitsConcat ==
  \A a, b \in Seq(Units) : a \o b \in Seq(Units) /\ Len(a \o b) = Len(a) + Len(b)
BY ConcatProperties

LEMMA UnitsAt ==
  ASSUME NEW a \in Seq(Units), NEW b \in Seq(Units)
  PROVE  /\ \A i \in 1 .. Len(a) : (a \o b)[i] = a[i]
         /\ \A i \in 1 .. Len(b) : (a \o b)[Len(a) + i] = b[i]
<1>1. Len(a) \in Nat /\ Len(b) \in Nat
  OBVIOUS
<1>2. ASSUME NEW i \in 1 .. Len(a) PROVE (a \o b)[i] = a[i]
  BY <1>1
<1>3. ASSUME NEW i \in 1 .. Len(b) PROVE (a \o b)[Len(a) + i] = b[i]
  <2>1. /\ Len(a) + i \in 1 .. Len(a) + Len(b)
        /\ ~(Len(a) + i <= Len(a)) /\ (Len(a) + i) - Len(a) = i
    BY <1>1
  <2> QED
    BY <2>1, ConcatProperties
<1> QED
  BY <1>2, <1>3

LEMMA UnitAdded ==
  ASSUME NEW data \in Seq(Units), NEW u \in Units
  PROVE  /\ Append(data, u) \in Seq(Units) /\ Len(Append(data, u)) = Len(data) + 1
         /\ \A i \in 1 .. Len(data) : Append(data, u)[i] = data[i]
         /\ Append(data, u)[Len(data) + 1] = u
BY AppendProperties

\* Four lines, a CRLF, the content and two more CRLFs.
LEMMA ReplyLayout ==
  ASSUME NEW k \in Nat, NEW size \in Nat
  PROVE  /\ Reply(k, size) \in Seq(Units) /\ Len(Reply(k, size)) = size + Framing
         /\ Reply(k, size)[1] = <<"status", k>>
         /\ Reply(k, size)[2] = <<"length", size>>
         /\ \A i \in {3, 4} : Reply(k, size)[i] = <<"header", i - 2>>
         /\ Reply(k, size)[5] = CRLF
         /\ \A i \in {size + 6, size + 7} : Reply(k, size)[i] = CRLF
<1> DEFINE status  == SetStatus(k)
           header1 == AddHeader(status, "length", size)
           header2 == AddHeader(header1, "header", 1)
           head    == AddHeader(header2, "header", 2)
           first   == <<"status", k>>
           second  == <<"length", size>>
           third   == <<"header", 1>>
           fourth  == <<"header", 2>>
           content == [i \in 1 .. size |-> <<"byte", i>>]
           blank   == <<CRLF>>
           trailer == <<CRLF, CRLF>>
           front   == (head \o blank) \o content
<1>0. /\ <<"status", k>> \in Units /\ <<"length", size>> \in Units
      /\ <<"header", 1>> \in Units /\ <<"header", 2>> \in Units
      /\ CRLF \in Units /\ \A i \in 1 .. size : <<"byte", i>> \in Units
  BY DEF Units, Kinds, CRLF
<1>1. /\ head \in Seq(Units) /\ Len(head) = 4
      /\ head[1] = first /\ head[2] = second
      /\ head[3] = third /\ head[4] = fourth
  <2>0. first \in Units /\ second \in Units /\ third \in Units /\ fourth \in Units
    BY <1>0
  <2>1. status \in Seq(Units) /\ Len(status) = 1 /\ status[1] = first
    BY <1>0 DEF SetStatus
  <2> HIDE DEF status
  <2>2. /\ header1 = Append(status, second)
        /\ header2 = Append(header1, third)
        /\ head = Append(header2, fourth)
    BY DEF AddHeader
  <2> HIDE DEF header1, header2, head, first, second, third, fourth
  <2>3. /\ header1 \in Seq(Units) /\ Len(header1) = 2
        /\ header1[1] = first /\ header1[2] = second
    <3>1. /\ Append(status, second) \in Seq(Units)
          /\ Len(Append(status, second)) = Len(status) + 1
          /\ \A i \in 1 .. Len(status) : Append(status, second)[i] = status[i]
          /\ Append(status, second)[Len(status) + 1] = second
      BY <2>0, <2>1, UnitAdded, Zenon
    <3> QED
      BY <2>1, <2>2, <3>1
  <2>4. /\ header2 \in Seq(Units) /\ Len(header2) = 3
        /\ header2[1] = first /\ header2[2] = second /\ header2[3] = third
    BY <2>0, <2>2, <2>3, UnitAdded
  <2> QED
    BY <2>0, <2>2, <2>4, UnitAdded
<1>2. /\ blank \in Seq(Units) /\ Len(blank) = 1 /\ blank[1] = CRLF
      /\ trailer \in Seq(Units) /\ Len(trailer) = 2
      /\ trailer[1] = CRLF /\ trailer[2] = CRLF
  BY <1>0
<1>3. content \in Seq(Units) /\ Len(content) = size
  <2>1. content \in [1 .. size -> Units]
    BY <1>0
  <2> QED
    BY <2>1
<1>4. Reply(k, size) = front \o trailer
  BY DEF Reply, SetContent
<1> HIDE DEF head, blank, content, trailer
<1>5. head \o blank \in Seq(Units) /\ Len(head \o blank) = 5
  <2>1. /\ head \o blank \in Seq(Units)
        /\ Len(head \o blank) = Len(head) + Len(blank)
    BY <1>1, <1>2, UnitsConcat, Zenon
  <2> QED
    BY <1>1, <1>2, <2>1
<1>6. front \in Seq(Units) /\ Len(front) = size + 5
  <2>1. /\ (head \o blank) \o content \in Seq(Units)
        /\ Len((head \o blank) \o content) = Len(head \o blank) + Len(content)
    BY <1>3, <1>5, UnitsConcat, Zenon
  <2> QED
    BY <1>3, <1>5, <2>1
<1>7. (\A i \in 1 .. 4 : front[i] = head[i]) /\ front[5] = CRLF
  <2>1. \A i \in 1 .. Len(head \o blank) : front[i] = (head \o blank)[i]
    BY <1>3, <1>5, UnitsAt, Zenon
  <2>2. /\ \A i \in 1 .. Len(head) : (head \o blank)[i] = head[i]
        /\ \A i \in 1 .. Len(blank) : (head \o blank)[Len(head) + i] = blank[i]
    BY <1>1, <1>2, UnitsAt, Zenon
  <2> HIDE DEF front
  <2> QED
    BY <1>1, <1>2, <1>5, <2>1, <2>2
<1> HIDE DEF front
<1>8. Reply(k, size) \in Seq(Units) /\ Len(Reply(k, size)) = size + 7
  <2>1. front \o trailer \in Seq(Units) /\ Len(front \o trailer) = Len(front) + Len(trailer)
    BY <1>2, <1>6, UnitsConcat, Zenon
  <2> QED
    BY <1>2, <1>4, <1>6, <2>1
<1>9. /\ \A i \in 1 .. Len(front) : Reply(k, size)[i] = front[i]
      /\ \A i \in 1 .. Len(trailer) : Reply(k, size)[Len(front) + i] = trailer[i]
  <2>1. /\ \A i \in 1 .. Len(front) : (front \o trailer)[i] = front[i]
        /\ \A i \in 1 .. Len(trailer) : (front \o trailer)[Len(front) + i] = trailer[i]
    BY <1>2, <1>6, UnitsAt, Zenon
  <2> QED
    BY <1>4, <2>1, Zenon
<1>10. \A i \in {size + 6, size + 7} : Reply(k, size)[i] = CRLF
  <2>1. /\ Reply(k, size)[Len(front) + 1] = trailer[1]
        /\ Reply(k, size)[Len(front) + 2] = trailer[2]
        /\ Len(front) + 1 = size + 6 /\ Len(front) + 2 = size + 7
    BY <1>2, <1>6, <1>9
  <2> QED
    BY <1>2, <2>1
<1>11. (\A i \in 1 .. 4 : Reply(k, size)[i] = head[i]) /\ Reply(k, size)[5] = CRLF
  BY <1>6, <1>7, <1>9
<1>12. first = <<"status", k>> /\ second = <<"length", size>> /\ \A i \in {3, 4} : head[i] = <<"header", i - 2>>
  BY <1>1
<1> QED
  BY <1>1, <1>8, <1>10, <1>11, <1>12 DEF Framing

\* Every part of the client's messages is one that Parse finishes on, so that no
\* request outlives the call of DidReceive that made it.
HeapWith(handlers) ==
  [class \in Classes |-> IF class = "handler" THEN handlers ELSE 0]

Answered ==
  /\ session \in {"none", "open", "ended"}
  /\ wire \in Seq(Parts)
  /\ request = <<>>
  /\ session = "none" => response = <<>>
  /\ Len(response) <= MaxContent + Framing
  /\ heap = HeapWith(IF session = "open" THEN 1 ELSE 0)

LEMMA HandlerCounted ==
  /\ New(HeapWith(0), "handler") = HeapWith(1)
  /\ Delete(HeapWith(1), "handler") = HeapWith(0)
<1>1. HeapWith(0) \in [Classes -> Int] /\ HeapWith(1) \in [Classes -> Int]
  BY DEF HeapWith
<1>2. \A h \in [Classes -> Int] :
        /\ New(h, "handler") \in [Classes -> Int]
        /\ Delete(h, "handler") \in [Classes -> Int]
  BY DEF New, Delete, Classes
<1>3. \A class \in Classes :
        /\ New(HeapWith(0), "handler")[class] = HeapWith(1)[class]
        /\ Delete(HeapWith(1), "handler")[class] = HeapWith(0)[class]
  BY <1>1 DEF New, Delete, HeapWith, Classes
<1> QED
  BY <1>1, <1>2, <1>3

\* What is received makes a new reply and leaves nothing else behind.
LEMMA ReceiveEffect ==
  ASSUME StreamType, Answered, NEW n \in 1 .. Len(wire),
         DidReceive(AllocateChunk, SubSeq(wire, 1, n))
  PROVE  /\ \E size \in 0 .. MaxContent : response' = Reply(replies + 1, size)
         /\ response' \in Seq(Units) /\ Len(response') <= MaxContent + Framing
         /\ made' = made \o response'
         /\ replies' = replies + 1
         /\ request' = <<>>
         /\ heap' = heap
<1> DEFINE data == SubSeq(wire, 1, n)
<1>1. data \in Seq(Parts) /\ Len(data) = n /\ n \in Nat /\ n >= 1
  <2>1. wire \in Seq(Parts) /\ Len(wire) \in Nat /\ n \in Nat /\ n <= Len(wire)
    BY DEF Answered
  <2>2. \A i \in 1 .. n : wire[i] \in Parts
    BY <2>1
  <2> QED
    BY <2>1, <2>2, SubSeqProperties
<1> HIDE DEF data
<1>2. request \o data = data /\ data # <<>>
  BY <1>1, ConcatEmptySeq DEF Answered
<1>3. ParseStatus(request \o data) = "FINISHED"
  BY <1>2 DEF ParseStatus
<1>4. PICK size \in 0 .. MaxContent : response' = Reply(replies + 1, size)
  BY <1>3 DEF DidReceive, data
<1>5. /\ made' = made \o response' /\ replies' = replies + 1 /\ request' = <<>>
      /\ heap' = Delete(Delete(New(AllocateChunk, "request"), "chunk"), "request")
  BY <1>3 DEF DidReceive, data, Answered
<1>6. heap' = heap
  BY <1>5 DEF New, Delete, AllocateChunk, Answered, HeapWith, Classes
<1>7. response' \in Seq(Units) /\ Len(response') = size + Framing
  <2>1. size \in Nat /\ replies + 1 \in Nat
    BY SizesAssumption DEF StreamType
  <2>2. Reply(replies + 1, size) \in Seq(Units) /\ Len(Reply(replies + 1, size)) = size + Framing
    BY <2>1, ReplyLayout, Zenon
  <2> QED
    BY <1>4, <2>2
<1> QED
  BY <1>4, <1>5, <1>6, <1>7, SizesAssumption DEF Framing

\* What OnWrite sends is the front of what was left, and the rest stays.
LEMMA WriteEffect ==
  ASSUME StreamType, OnWrite
  PROVE  /\ response' \in Seq(Units) /\ Len(response') < Len(response)
         /\ delivered' \in Seq(Units)
         /\ delivered' \o response' = delivered \o response
<1>1. PICK n \in 1 .. Len(response) :
        delivered' = delivered \o SubSeq(response, 1, n) /\ DidSend(n)
  BY DEF OnWrite
<1> DEFINE sent == SubSeq(response, 1, n)
           rest == SubSeq(response, n + 1, Len(response))
<1>2. response' = rest /\ rest \in Seq(Units)
  BY <1>1, DropSent
<1>3. response \in Seq(Units) /\ delivered \in Seq(Units) /\ Len(response) \in Nat
  BY DEF StreamType
<1>4. sent \in Seq(Units)
  <2>1. n \in Nat /\ \A i \in 1 .. n : response[i] \in Units
    BY <1>3
  <2> QED
    BY <2>1, SubSeqProperties
<1>5. Len(rest) < Len(response)
  BY <1>3, SubSeqProperties
<1>6. sent \o rest = response
  BY <1>3, ConcatAdjacentSubSeq, SubSeqFull
<1>7. delivered' = delivered \o sent
  BY <1>1
<1> HIDE DEF sent, rest
<1>8. (delivered \o sent) \o rest = delivered \o (sent \o rest)
  BY <1>2, <1>3, <1>4, UnitsAssociative, Zenon
<1>9. delivered' \in Seq(Units)
  BY <1>3, <1>4, <1>7, ConcatProperties
<1> QED
  BY <1>2, <1>5, <1>6, <1>7, <1>8, <1>9

HandlerInv == StreamType /\ StreamIntact /\ Answered

LEMMA InitHandler == Init => HandlerInv
BY SizesAssumption
DEF Init, HandlerInv, StreamType, StreamIntact, Answered, HeapWith, Classes, Framing

\* OnRead answers a client that has been sent everything.
LEMMA ReadStream ==
  ASSUME HandlerInv, OnRead
  PROVE  HandlerInv'
<1>1. PICK n \in 1 .. ChunkParts :
        /\ n <= Len(wire)
        /\ wire' = SubSeq(wire, n + 1, Len(wire))
        /\ DidReceive(AllocateChunk, SubSeq(wire, 1, n))
  BY DEF OnRead
<1>2. /\ UNCHANGED <<session, delivered>> /\ session = "open" /\ response = <<>>
      /\ wire \in Seq(Parts) /\ Len(wire) \in Nat
  BY DEF OnRead, CanRead, HasDataToSend, HandlerInv, Answered
<1>3. n \in 1 .. Len(wire)
  BY <1>1, <1>2, SizesAssumption
<1>4. /\ response' \in Seq(Units) /\ Len(response') <= MaxContent + Framing
      /\ made' = made \o response' /\ replies' = replies + 1
      /\ request' = <<>> /\ heap' = heap
  BY <1>1, <1>3, ReceiveEffect DEF HandlerInv
<1>5. wire' \in Seq(Parts)
  <2>1. \A i \in n + 1 .. Len(wire) : wire[i] \in Parts
    BY <1>2, <1>3
  <2> QED
    BY <1>1, <1>2, <1>3, <2>1, SubSeqProperties
<1>6. delivered = made /\ made' \in Seq(Units)
  BY <1>2, <1>4, ConcatEmptySeq, ConcatProperties
  DEF HandlerInv, StreamType, StreamIntact
<1> QED
  BY <1>2, <1>4, <1>5, <1>6 DEF HandlerInv, StreamType, StreamIntact, Answered

LEMMA NextHandler == HandlerInv /\ [Next]_vars => HandlerInv'
<1> SUFFICES ASSUME HandlerInv, [Next]_vars PROVE HandlerInv'
  OBVIOUS
<1> USE DEF HandlerInv, StreamType, StreamIntact, Answered, net
<1>1. CASE OnRead
  BY <1>1, ReadStream
<1>2. CASE OnWrite
  <2>1. /\ response' \in Seq(Units) /\ Len(response') < Len(response)
        /\ delivered' \in Seq(Units)
        /\ delivered' \o response' = delivered \o response
    BY <1>2, WriteEffect
  <2>2. Len(response') \in Nat /\ Len(response) \in Nat
    BY <2>1
  <2>3. /\ session = "open" /\ UNCHANGED <<session, wire, request, replies, made, heap>>
    BY <1>2 DEF OnWrite
  <2>4. Len(response') <= MaxContent + Framing
    BY <2>1, <2>2, SizesAssumption DEF Framing
  <2>5. delivered' \o response' = made'
    BY <2>1, <2>3
  <2> QED
    BY <2>1, <2>3, <2>4, <2>5
<1>3. CASE OnAccept
  <2>1. heap' = HeapWith(1)
    BY <1>3, HandlerCounted DEF OnAccept
  <2> QED
    BY <1>3, <2>1 DEF OnAccept
<1>4. CASE OnReadEnds \/ OnWriteEnds
  <2>1. heap = HeapWith(1) /\ session = "open"
    BY <1>4 DEF OnReadEnds, OnWriteEnds
  <2>2. DiscardChunk(AllocateChunk) = heap
    BY <2>1 DEF DiscardChunk, AllocateChunk, New, Delete, HeapWith, Classes
  <2>3. PICK h \in {heap} : Ends(h)
    BY <1>4, <2>2 DEF OnReadEnds, OnWriteEnds
  <2>4. heap' = HeapWith(0)
    BY <2>1, <2>3, HandlerCounted DEF Ends
  <2>5. session' = "ended" /\ UNCHANGED <<net, request, response, replies, made, delivered>>
    BY <2>3 DEF Ends
  <2> QED
    BY <2>4, <2>5
<1>5. CASE ClientSends
  <2>1. PICK p \in Parts : wire' = Append(wire, p)
    BY <1>5 DEF ClientSends
  <2>2. wire' \in Seq(Parts)
    BY <2>1, AppendProperties
  <2> QED
    BY <1>5, <2>2 DEF ClientSends
<1>6. CASE ClientLeaves \/ UNCHANGED vars
  BY <1>6 DEF ClientLeaves, vars
<1> QED
  BY <1>1, <1>2, <1>3, <1>4, <1>5, <1>6 DEF Next

LEMMA HandlerInvariant == Spec => []HandlerInv
BY InitHandler, NextHandler, PTL DEF Spec

\* Every unit of every reply is sent once and in order, for chunks, replies and
\* clients of every size.
THEOREM StreamKept == Spec => []StreamIntact
<1>1. HandlerInv => StreamIntact
  BY DEF HandlerInv
<1> QED
  BY <1>1, HandlerInvariant, PTL

\* A session that has ended has left no chunk, no request and no handler behind,
\* however it ended: DidReceive always finds the request parsed and deletes it.
THEOREM NothingLost == Spec => []NothingLeaks
<1>1. HandlerInv => NothingLeaks
  BY DEF HandlerInv, Answered, HeapWith, Classes, NothingLeaks
<1> QED
  BY <1>1, HandlerInvariant, PTL

-----------------------------------------------------------------------------
(* The handler as the select() loop sees it. *)

LEMMA StepsAsPromised ==
  ASSUME HandlerInv, HandlerInv', [Next]_vars
  PROVE  [Promise!Next]_(Promise!vars)
<1> USE DEF Connections
<1>1. ASSUME UNCHANGED <<session, response>>
      PROVE  UNCHANGED Promise!vars
  BY <1>1 DEF Promise!vars, Opened, Closed, Left
<1>2. CASE OnRead
  <2>1. /\ session = "open" /\ session' = "open" /\ response = <<>>
    BY <1>2 DEF OnRead, CanRead, HasDataToSend
  <2>2. Len(response') \in 0 .. (MaxContent + Framing)
    BY SizesAssumption DEF HandlerInv, StreamType, Answered, Framing
  <2>3. Left[1] = 0 /\ Left' = [Left EXCEPT ![1] = Len(response')]
    BY <2>1 DEF Left
  <2>4. Promise!Receive(1)
    BY <2>1, <2>2, <2>3 DEF Promise!Receive, Opened, Closed
  <2> QED
    BY <2>4 DEF Promise!Next
<1>3. CASE OnWrite
  <2>1. session = "open" /\ session' = "open"
    BY <1>3 DEF OnWrite
  <2>2. Len(response') < Len(response) /\ response' \in Seq(Units)
    BY <1>3, WriteEffect DEF HandlerInv
  <2>3. Len(response) \in Nat /\ Len(response') \in Nat
    BY <2>2 DEF HandlerInv, StreamType
  <2>4. Left[1] = Len(response) /\ Left' = [Left EXCEPT ![1] = Len(response')]
    BY <2>1 DEF Left
  <2>5. Len(response') \in 0 .. (Left[1] - 1) /\ Left[1] > 0
    BY <2>2, <2>3, <2>4
  <2>6. Promise!Send(1)
    BY <2>1, <2>4, <2>5 DEF Promise!Send, Opened, Closed
  <2> QED
    BY <2>6 DEF Promise!Next
<1>4. CASE OnAccept
  <2>1. session = "none" /\ session' = "open" /\ response' = <<>>
    BY <1>4 DEF OnAccept, HandlerInv, Answered
  <2>2. Left' = Left
    BY <2>1 DEF Left
  <2>3. Promise!Open(1)
    BY <2>1, <2>2 DEF Promise!Open, Opened, Closed
  <2> QED
    BY <2>3 DEF Promise!Next
<1>5. CASE OnReadEnds \/ OnWriteEnds
  <2>1. session = "open" /\ session' = "ended"
    BY <1>5 DEF OnReadEnds, OnWriteEnds, Ends
  <2>2. Left' = [Left EXCEPT ![1] = 0]
    BY <2>1 DEF Left
  <2>3. Promise!End(1)
    BY <2>1, <2>2 DEF Promise!End, Opened, Closed
  <2> QED
    BY <2>3 DEF Promise!Next
<1>6. CASE ClientSends \/ ClientLeaves \/ UNCHANGED vars
  BY <1>1, <1>6 DEF ClientSends, ClientLeaves, vars
<1> QED
  BY <1>2, <1>3, <1>4, <1>5, <1>6 DEF Next

\* The handler of the HTTP plugin under its session is a connection of the
\* half-duplex exchange, for contents, chunks and clients of every size: what
\* ServerLoop takes a handler for (the units it owes) is enough.
THEOREM HandlerImplementsExchange == Spec => ImplementsExchange
<1>1. Init => Promise!Init
  BY DEF Init, Promise!Init, Opened, Closed, Left
<1>2. HandlerInv /\ HandlerInv' /\ [Next]_vars => [Promise!Next]_(Promise!vars)
  BY StepsAsPromised
<1> QED
  BY <1>1, <1>2, HandlerInvariant, PTL DEF Spec, ImplementsExchange, Promise!Spec

--------
(* The client reads unit by unit. *)

\* The states of a client that reads the first n units.
Reading(data, n) ==
  CHOOSE f : f = [ m \in 0 .. n |-> IF m = 0 THEN Fresh ELSE Reads(f[m - 1], data[m]) ]

IsReading(f, data, n) ==
  f = [ m \in 0 .. n |-> IF m = 0 THEN Fresh ELSE Reads(f[m - 1], data[m]) ]

LEMMA ReadingExists ==
  ASSUME NEW data, NEW k \in Nat
  PROVE  IsReading(Reading(data, k), data, k)
<1> DEFINE A == { n \in Nat : \E f : IsReading(f, data, n) }
<1>1. 0 \in A
  <2> DEFINE f == [ m \in 0 .. 0 |-> Fresh ]
  <2>1. IsReading(f, data, 0)
    BY DEF IsReading
  <2> QED
    BY <2>1
<1>2. ASSUME NEW n \in A PROVE n + 1 \in A
  <2>1. PICK f : IsReading(f, data, n)
    OBVIOUS
  <2> DEFINE g == [ m \in 0 .. n + 1 |->
                      IF m <= n THEN f[m] ELSE Reads(f[n], data[n + 1]) ]
             h == [ m \in 0 .. n + 1 |->
                      IF m = 0 THEN Fresh ELSE Reads(g[m - 1], data[m]) ]
  <2>2. ASSUME NEW m \in 0 .. n + 1 PROVE g[m] = h[m]
    <3>1. CASE m = 0
      BY <2>1, <3>1 DEF IsReading
    <3>2. CASE m \in 1 .. n
      <4>1. m - 1 \in 0 .. n /\ g[m - 1] = f[m - 1] /\ g[m] = f[m]
        BY <3>2
      <4>2. f[m] = Reads(f[m - 1], data[m])
        BY <2>1, <3>2 DEF IsReading
      <4> QED
        BY <3>2, <4>1, <4>2
    <3>3. CASE m = n + 1
      <4>1. m - 1 = n /\ g[m - 1] = f[n] /\ g[m] = Reads(f[n], data[n + 1])
        BY <3>3
      <4> QED
        BY <3>3, <4>1
    <3> QED
      BY <3>1, <3>2, <3>3
  <2>3. g = h
    <3> HIDE DEF IsReading
    <3> QED
      BY <2>2
  <2>4. IsReading(g, data, n + 1)
    BY <2>3, Zenon DEF IsReading
  <2> QED
    BY <2>4
<1>3. A = Nat
  <2>1. A \in SUBSET Nat
    OBVIOUS
  <2> HIDE DEF A
  <2> QED
    BY <1>1, <1>2, <2>1, SetInduction
<1>4. \E f : IsReading(f, data, k)
  BY <1>3
<1> QED
  BY <1>4, Zenon DEF Reading, IsReading

LEMMA ReadAllDef ==
  ASSUME NEW data
  PROVE  ReadAll(data) = Reading(data, Len(data))[Len(data)]
BY DEF ReadAll, Reading

\* What a reading is, unit by unit.
LEMMA ReadingSteps ==
  ASSUME NEW data, NEW k \in Nat
  PROVE  /\ Reading(data, k)[0] = Fresh
         /\ \A m \in 1 .. k :
              Reading(data, k)[m] = Reads(Reading(data, k)[m - 1], data[m])
<1> DEFINE f == Reading(data, k)
<1>1. f = [ m \in 0 .. k |-> IF m = 0 THEN Fresh ELSE Reads(f[m - 1], data[m]) ]
  BY ReadingExists DEF IsReading
<1> HIDE DEF f
<1>2. f[0] = Fresh
  BY <1>1
<1>3. ASSUME NEW m \in 1 .. k PROVE f[m] = Reads(f[m - 1], data[m])
  <2>1. m \in 0 .. k /\ m # 0
    OBVIOUS
  <2> QED
    BY <1>1, <2>1
<1> QED
  BY <1>2, <1>3 DEF f

LEMMA ReadNothing == ReadAll(<<>>) = Fresh
<1>1. Len(<<>>) = 0
  OBVIOUS
<1> QED
  BY <1>1, ReadAllDef, ReadingSteps

\* One unit more is one step more.
LEMMA ReadOneMore ==
  ASSUME NEW s \in Seq(Units), NEW u \in Units
  PROVE  ReadAll(Append(s, u)) = Reads(ReadAll(s), u)
<1> DEFINE t == Append(s, u)
           N == Len(s)
           f == Reading(s, N)
           g == Reading(t, N + 1)
           A == { m \in Nat : m <= N => g[m] = f[m] }
<1>1. N \in Nat /\ Len(t) = N + 1 /\ t[N + 1] = u /\ \A m \in 1 .. N : t[m] = s[m]
  BY AppendProperties
<1> HIDE DEF t, N
<1>2. f[0] = Fresh /\ \A m \in 1 .. N : f[m] = Reads(f[m - 1], s[m])
  BY <1>1, ReadingSteps
<1>3. g[0] = Fresh /\ \A m \in 1 .. N + 1 : g[m] = Reads(g[m - 1], t[m])
  BY <1>1, ReadingSteps
<1> HIDE DEF f, g
<1>4. 0 \in A
  BY <1>2, <1>3
<1>5. ASSUME NEW m \in A PROVE m + 1 \in A
  <2>1. SUFFICES ASSUME m + 1 <= N PROVE g[m + 1] = f[m + 1]
    OBVIOUS
  <2>2. /\ m + 1 \in 1 .. N /\ m + 1 \in 1 .. N + 1 /\ (m + 1) - 1 = m
        /\ g[m] = f[m] /\ t[m + 1] = s[m + 1]
    BY <1>1, <2>1
  <2>3. g[m + 1] = Reads(g[(m + 1) - 1], t[m + 1])
    BY <1>3, <2>2
  <2>4. f[m + 1] = Reads(f[(m + 1) - 1], s[m + 1])
    BY <1>2, <2>2
  <2> QED
    BY <2>2, <2>3, <2>4
<1>6. A = Nat
  <2>1. A \in SUBSET Nat
    OBVIOUS
  <2> HIDE DEF A
  <2> QED
    BY <1>4, <1>5, <2>1, SetInduction
<1>7. g[N] = f[N]
  <2>1. N \in A
    BY <1>1, <1>6
  <2> QED
    BY <2>1
<1>8. g[N + 1] = Reads(g[(N + 1) - 1], t[N + 1]) /\ (N + 1) - 1 = N
  <2>1. N + 1 \in 1 .. N + 1 /\ (N + 1) - 1 = N
    BY <1>1
  <2> QED
    BY <1>3, <2>1
<1>9. ReadAll(t) = g[N + 1] /\ ReadAll(s) = f[N]
  BY <1>1, ReadAllDef DEF f, g, N
<1> QED
  BY <1>1, <1>7, <1>8, <1>9 DEF t

-----------------------------------------------------------------------------
(* The client in a reply. *)

\* Where the client is after i units of a reply with this content.
InReply(size, taken, i) ==
  LET over == i >= size + 5
  IN  [ at    |-> IF i = 0 \/ over THEN "start" ELSE IF i < 5 THEN "head" ELSE "body",
        left  |-> IF i < 2 \/ over THEN 0 ELSE IF i < 5 THEN size ELSE size + 5 - i,
        taken |-> IF over THEN taken + 1 ELSE taken ]

LEMMA ReadsUnit ==
  ASSUME NEW k \in Nat, NEW size \in Nat, NEW taken \in Nat, NEW i \in 0 .. size + 6
  PROVE  Reads(InReply(size, taken, i), Reply(k, size)[i + 1]) = InReply(size, taken, i + 1)
<1>0. SUFFICES
       ASSUME NEW R,
              R[1] = <<"status", k>>, R[2] = <<"length", size>>, R[5] = CRLF,
              \A j \in {3, 4} : R[j] = <<"header", j - 2>>,
              \A j \in {size + 6, size + 7} : R[j] = CRLF
       PROVE  Reads(InReply(size, taken, i), R[i + 1]) = InReply(size, taken, i + 1)
  BY ReplyLayout, Zenon
<1> DEFINE r == InReply(size, taken, i)
           u == R[i + 1]
<1> USE DEF Reads, InReply, Body, Done, CRLF
<1>1. CASE i = 0
  <2>1. u = <<"status", k>>
    BY <1>0, <1>1
  <2>2. r = [at |-> "start", left |-> 0, taken |-> taken]
    BY <1>1
  <2>3. Reads(r, u) = [r EXCEPT !.at = "head"]
    BY <2>1, <2>2
  <2> QED
    BY <1>1, <2>2, <2>3
<1>2. CASE i = 1
  <2>1. u = <<"length", size>>
    BY <1>0, <1>2
  <2>2. r = [at |-> "head", left |-> 0, taken |-> taken]
    BY <1>2
  <2>3. Reads(r, u) = [r EXCEPT !.left = size]
    BY <2>1, <2>2
  <2> QED
    BY <1>2, <2>2, <2>3
<1>3. CASE i \in {2, 3}
  <2>1. u = <<"header", i - 1>>
    <3>1. i + 1 \in {3, 4} /\ (i + 1) - 2 = i - 1
      BY <1>3
    <3> QED
      BY <1>0, <3>1
  <2>2. r = [at |-> "head", left |-> size, taken |-> taken]
    BY <1>3
  <2>3. Reads(r, u) = r
    BY <2>1, <2>2
  <2> QED
    BY <1>3, <2>2, <2>3
<1>4. CASE i = 4
  <2>1. u = CRLF
    BY <1>0, <1>4
  <2>2. r = [at |-> "head", left |-> size, taken |-> taken]
    BY <1>4
  <2>3. Reads(r, u) = Body(r)
    BY <2>1, <2>2
  <2>4. CASE size = 0
    BY <1>4, <2>2, <2>3, <2>4
  <2>5. CASE size # 0
    BY <1>4, <2>2, <2>3, <2>5
  <2> QED
    BY <2>4, <2>5
<1>5. CASE i >= 5 /\ i < size + 4
  <2>1. r = [at |-> "body", left |-> size + 5 - i, taken |-> taken]
    BY <1>5
  <2>2. Reads(r, u) = Body([r EXCEPT !.left = @ - 1])
    BY <2>1
  <2>3. [r EXCEPT !.left = @ - 1] = [at |-> "body", left |-> size + 4 - i, taken |-> taken]
    BY <1>5, <2>1
  <2>4. Reads(r, u) = [at |-> "body", left |-> size + 4 - i, taken |-> taken]
    <3> DEFINE b == [at |-> "body", left |-> size + 4 - i, taken |-> taken]
    <3>1. b.left # 0 /\ Body(b) = [b EXCEPT !.at = "body"]
      BY <1>5
    <3>2. [b EXCEPT !.at = "body"] = b
      OBVIOUS
    <3> QED
      BY <2>2, <2>3, <3>1, <3>2, Zenon
  <2>5. InReply(size, taken, i + 1) = [at |-> "body", left |-> size + 4 - i, taken |-> taken]
    <3>1. /\ size + 5 - (i + 1) = size + 4 - i
          /\ ~(i + 1 >= size + 5) /\ i + 1 # 0 /\ ~(i + 1 < 5) /\ ~(i + 1 < 2)
      BY <1>5
    <3> QED
      BY <3>1
  <2> QED
    BY <2>4, <2>5, Zenon
<1>6. CASE i >= 5 /\ i = size + 4
  <2>1. r = [at |-> "body", left |-> 1, taken |-> taken]
    BY <1>6
  <2>2. Reads(r, u) = Body([r EXCEPT !.left = @ - 1])
    BY <2>1
  <2>3. [r EXCEPT !.left = @ - 1] = [at |-> "body", left |-> 0, taken |-> taken]
    BY <2>1
  <2> QED
    BY <1>6, <2>2, <2>3
<1>7. CASE i >= size + 5
  <2>1. u = CRLF
    <3>1. i + 1 \in {size + 6, size + 7}
      BY <1>7
    <3> QED
      BY <1>0, <3>1
  <2>2. r = [at |-> "start", left |-> 0, taken |-> taken + 1]
    BY <1>7
  <2>3. Reads(r, u) = r
    BY <2>1, <2>2
  <2> QED
    BY <1>7, <2>2, <2>3
<1> QED
  BY <1>1, <1>2, <1>3, <1>4, <1>5, <1>6, <1>7

-----------------------------------------------------------------------------
(* The client and the server in step. *)

\* The client that has read a reply up to unit i reads its next units.
LEMMA ReadsOn ==
  ASSUME NEW k \in Nat, NEW size \in Nat, NEW taken \in Nat,
         NEW i \in 0 .. size + Framing, NEW n \in Nat, i + n <= size + Framing,
         NEW data \in Seq(Units), ReadAll(data) = InReply(size, taken, i)
  PROVE  ReadAll(data \o SubSeq(Reply(k, size), i + 1, i + n))
           = InReply(size, taken, i + n)
<1> DEFINE R == Reply(k, size)
           part(m) == SubSeq(R, i + 1, i + m)
           A == { m \in Nat : i + m <= size + Framing =>
                    ReadAll(data \o part(m)) = InReply(size, taken, i + m) }
<1>0. R \in Seq(Units) /\ Len(R) = size + Framing
  BY ReplyLayout, Zenon
<1>2. ASSUME NEW j \in 0 .. size + 6
      PROVE  Reads(InReply(size, taken, j), R[j + 1]) = InReply(size, taken, j + 1)
  BY ReadsUnit
<1> HIDE DEF R
<1>1. R \in Seq(Units) /\ Len(R) = size + 7 /\ Framing = 7 /\ i \in Nat
  BY <1>0 DEF Framing
<1>3. 0 \in A
  <2>1. part(0) = <<>>
    BY <1>1, SubSeqEmpty
  <2>2. data \o part(0) = data /\ i + 0 = i
    BY <1>1, <2>1, ConcatEmptySeq
  <2> QED
    BY <2>2
<1>4. ASSUME NEW m \in A PROVE m + 1 \in A
  <2>1. SUFFICES ASSUME i + (m + 1) <= size + Framing
                 PROVE  ReadAll(data \o part(m + 1)) = InReply(size, taken, i + (m + 1))
    OBVIOUS
  <2>2. ReadAll(data \o part(m)) = InReply(size, taken, i + m) /\ m \in Nat
    BY <1>1, <2>1
  <2>3. /\ i + m \in 0 .. size + 6 /\ i + (m + 1) = (i + m) + 1
        /\ i + m + 1 \in 1 .. Len(R)
    BY <1>1, <2>1, <2>2
  <2>4. part(m) \in Seq(Units) /\ Len(part(m)) = m
    <3>1. \A j \in i + 1 .. i + m : R[j] \in Units
      BY <1>1, <2>3
    <3> QED
      BY <1>1, <2>2, <2>3, <3>1, SubSeqProperties
  <2>5. R[i + m + 1] \in Units
    BY <1>1, <2>3
  <2>6. part(m + 1) = part(m) \o <<R[i + m + 1]>>
    <3>1. i + m = (i + m + 1) - 1 /\ i + 1 \in 1 .. Len(R) /\ i + 1 <= i + m + 1
          /\ i + (m + 1) = i + m + 1
      BY <1>1, <2>2, <2>3
    <3>2. i + m + 1 \in i + 1 .. Len(R)
      BY <1>1, <2>2, <2>3
    <3>3. SubSeq(R, i + 1, i + m + 1)
            = SubSeq(R, i + 1, (i + m + 1) - 1) \o <<R[i + m + 1]>>
      BY <1>1, <3>1, <3>2, SubSeqRecursiveSecond, Zenon
    <3> QED
      BY <3>1, <3>3
  <2>7. data \o (part(m) \o <<R[i + m + 1]>>) = Append(data \o part(m), R[i + m + 1])
    <3> HIDE DEF part
    <3>1. <<R[i + m + 1]>> \in Seq(Units)
      BY <2>5
    <3>2. data \o (part(m) \o <<R[i + m + 1]>>) = (data \o part(m)) \o <<R[i + m + 1]>>
      BY <2>4, <3>1, UnitsAssociative, Zenon
    <3>3. data \o part(m) \in Seq(Units)
      BY <2>4, UnitsConcat, Zenon
    <3> QED
      BY <2>5, <3>2, <3>3, AppendIsConcat
  <2>8. data \o part(m) \in Seq(Units)
    BY <2>4, UnitsConcat
  <2> HIDE DEF part
  <2>9. ReadAll(Append(data \o part(m), R[i + m + 1]))
          = Reads(ReadAll(data \o part(m)), R[i + m + 1])
    BY <2>5, <2>8, ReadOneMore
  <2> QED
    BY <1>2, <2>2, <2>3, <2>6, <2>7, <2>9
<1>5. A = Nat
  <2>1. A \in SUBSET Nat
    OBVIOUS
  <2> HIDE DEF A
  <2> QED
    BY <1>3, <1>4, <2>1, SetInduction
<1>6. n \in A /\ i + n <= size + Framing
  BY <1>5
<1> QED
  BY <1>6 DEF R

LEMMA UnitsOfUnits ==
  ASSUME NEW R \in Seq(Units), NEW a \in 1 .. Len(R), NEW b \in 1 .. Len(R),
         NEW m \in 1 .. b - a + 1, NEW n \in 1 .. b - a + 1
  PROVE  SubSeq(SubSeq(R, a, b), m, n) = SubSeq(R, a + m - 1, a + n - 1)
<1>1. R \in Seq(Units) /\ Len(R) \in Nat /\ \A j \in 1 .. Len(R) : R[j] \in Units
  OBVIOUS
<1>2. a \in Nat /\ b \in Nat /\ m \in Nat /\ n \in Nat /\ \A j \in a .. b : R[j] \in Units
  BY <1>1
<1> DEFINE T == SubSeq(R, a, b)
           lhs == SubSeq(T, m, n)
           rhs == SubSeq(R, a + m - 1, a + n - 1)
<1>3. /\ T \in Seq(Units) /\ Len(T) = b - a + 1
      /\ \A j \in 1 .. b - a + 1 : T[j] = R[a + j - 1]
  BY <1>2, SubSeqProperties
<1> HIDE DEF T
<1>4. /\ lhs \in Seq(Units) /\ Len(lhs) = IF m <= n THEN n - m + 1 ELSE 0
      /\ \A j \in 1 .. n - m + 1 : lhs[j] = T[m + j - 1]
  <2>1. \A j \in m .. n : T[j] \in Units
    BY <1>2, <1>3
  <2> QED
    BY <1>2, <2>1, SubSeqProperties
<1>5. /\ rhs \in Seq(Units) /\ Len(rhs) = IF m <= n THEN n - m + 1 ELSE 0
      /\ \A j \in 1 .. n - m + 1 : rhs[j] = R[a + m - 1 + j - 1]
  <2>1. \A j \in a + m - 1 .. a + n - 1 : R[j] \in Units
    BY <1>2
  <2>2. /\ a + m - 1 \in Int /\ a + n - 1 \in Int
        /\ (a + n - 1) - (a + m - 1) + 1 = n - m + 1
        /\ (a + m - 1 <= a + n - 1) <=> (m <= n)
    BY <1>2
  <2> QED
    BY <1>2, <2>1, <2>2, SubSeqProperties
<1> HIDE DEF lhs, rhs
<1>6. ASSUME NEW j \in 1 .. n - m + 1 PROVE lhs[j] = rhs[j]
  <2>1. /\ m + j - 1 \in 1 .. b - a + 1 /\ a + (m + j - 1) - 1 = a + m - 1 + j - 1
    BY <1>2
  <2> QED
    BY <1>3, <1>4, <1>5, <2>1
<1>7. Len(lhs) = Len(rhs) /\ \A j \in 1 .. Len(lhs) : lhs[j] = rhs[j]
  BY <1>2, <1>4, <1>5, <1>6
<1>8. lhs = rhs
  BY <1>4, <1>5, <1>7, SeqEqual
<1> QED
  BY <1>8 DEF lhs, rhs, T

\* What is sent of the rest of a reply, and what is then left of it.
LEMMA RestOfReply ==
  ASSUME NEW R \in Seq(Units), NEW i \in 0 .. Len(R), NEW n \in 1 .. Len(R) - i
  PROVE  LET rest == SubSeq(R, i + 1, Len(R))
         IN  /\ Len(rest) = Len(R) - i
             /\ SubSeq(rest, 1, n) = SubSeq(R, i + 1, i + n)
             /\ SubSeq(rest, n + 1, Len(rest)) = SubSeq(R, i + n + 1, Len(R))
<1> DEFINE rest == SubSeq(R, i + 1, Len(R))
<1>1. Len(R) \in Nat /\ i \in Nat /\ n \in Nat /\ \A j \in 1 .. Len(R) : R[j] \in Units
  OBVIOUS
<1>2. /\ rest \in Seq(Units) /\ Len(rest) = Len(R) - i
  <2>1. \A j \in i + 1 .. Len(R) : R[j] \in Units
    BY <1>1
  <2> QED
    BY <1>1, <2>1, SubSeqProperties
<1>3. i + 1 \in 1 .. Len(R) /\ Len(R) \in 1 .. Len(R)
  BY <1>1
<1>4. SubSeq(rest, 1, n) = SubSeq(R, i + 1, i + n)
  <2>1. 1 \in 1 .. Len(R) - (i + 1) + 1 /\ n \in 1 .. Len(R) - (i + 1) + 1
    BY <1>1
  <2>2. SubSeq(rest, 1, n) = SubSeq(R, (i + 1) + 1 - 1, (i + 1) + n - 1)
    BY <1>3, <2>1, UnitsOfUnits, Zenon
  <2>3. (i + 1) + 1 - 1 = i + 1 /\ (i + 1) + n - 1 = i + n
    BY <1>1
  <2> QED
    BY <2>2, <2>3
<1>5. SubSeq(rest, n + 1, Len(rest)) = SubSeq(R, i + n + 1, Len(R))
  <2>1. CASE n = Len(R) - i
    <3>1. n + 1 > Len(rest) /\ i + n + 1 > Len(R)
      BY <1>1, <1>2, <2>1
    <3>2. SubSeq(rest, n + 1, Len(rest)) = <<>>
      BY <1>1, <1>2, <3>1, SubSeqEmpty
    <3>3. SubSeq(R, i + n + 1, Len(R)) = <<>>
      BY <1>1, <3>1, SubSeqEmpty
    <3> QED
      BY <3>2, <3>3
  <2>2. CASE n < Len(R) - i
    <3>1. /\ n + 1 \in 1 .. Len(R) - (i + 1) + 1 /\ Len(rest) \in 1 .. Len(R) - (i + 1) + 1
      BY <1>1, <1>2, <2>2
    <3>2. SubSeq(rest, n + 1, Len(rest))
            = SubSeq(R, (i + 1) + (n + 1) - 1, (i + 1) + Len(rest) - 1)
      BY <1>3, <3>1, UnitsOfUnits, Zenon
    <3>3. (i + 1) + (n + 1) - 1 = i + n + 1 /\ (i + 1) + Len(rest) - 1 = Len(R)
      <4> HIDE DEF rest
      <4> QED
        BY <1>1, <1>2
    <3> QED
      BY <3>2, <3>3
  <2> QED
    BY <1>1, <2>1, <2>2
<1> QED
  BY <1>2, <1>4, <1>5

\* The client has read as much of the last reply as the server has sent of it.
InStep(size, i) ==
  /\ replies >= 1
  /\ ReadAll(delivered) = InReply(size, replies - 1, i)
  /\ response = SubSeq(Reply(replies, size), i + 1, size + Framing)

ClientInv ==
  \/ replies = 0 /\ delivered = <<>> /\ response = <<>>
  \/ \E size \in 0 .. MaxContent : \E i \in 0 .. size + Framing : InStep(size, i)

LEMMA RestLength ==
  ASSUME StreamType, NEW size \in 0 .. MaxContent, NEW i \in 0 .. size + Framing,
         InStep(size, i)
  PROVE  Len(response) = size + Framing - i
<1>0. size \in Nat /\ replies \in Nat
  BY SizesAssumption DEF StreamType
<1>1. /\ Reply(replies, size) \in Seq(Units) /\ Len(Reply(replies, size)) = size + Framing
      /\ size \in Nat
  BY <1>0, ReplyLayout, Zenon
<1>2. response = SubSeq(Reply(replies, size), i + 1, size + Framing)
  BY DEF InStep
<1> DEFINE R == Reply(replies, size)
<1> HIDE DEF R
<1>3. R \in Seq(Units) /\ Len(R) = size + Framing
  BY <1>1 DEF R
<1>4. \A j \in i + 1 .. size + Framing : R[j] \in Units
  BY <1>1, <1>3
<1>5. Len(SubSeq(R, i + 1, size + Framing)) = size + Framing - i
  BY <1>1, <1>3, <1>4, SubSeqProperties DEF Framing
<1> QED
  BY <1>2, <1>5 DEF R

LEMMA ClientFollowsSend ==
  ASSUME StreamType, ClientInv, OnWrite
  PROVE  ClientInv'
<1>1. PICK n \in 1 .. Len(response) :
        delivered' = delivered \o SubSeq(response, 1, n) /\ DidSend(n)
  BY DEF OnWrite
<1>2. response # <<>> /\ replies' = replies
  BY <1>1 DEF OnWrite, StreamType
<1>0. PICK size \in 0 .. MaxContent : \E i \in 0 .. size + Framing : InStep(size, i)
  BY <1>2 DEF ClientInv
<1>3. PICK i \in 0 .. size + Framing : InStep(size, i)
  BY <1>0
<1>4. Len(response) = size + Framing - i
  BY <1>3, RestLength
<1>5. /\ size \in Nat /\ i \in Nat /\ Framing = 7 /\ replies \in Nat /\ replies >= 1
      /\ replies - 1 \in Nat /\ delivered \in Seq(Units)
  BY <1>3, SizesAssumption DEF StreamType, Framing, InStep
<1> DEFINE R == Reply(replies, size)
<1>6. R \in Seq(Units) /\ Len(R) = size + Framing
  BY <1>5, ReplyLayout, Zenon
<1>7. /\ ReadAll(delivered) = InReply(size, replies - 1, i)
      /\ response = SubSeq(R, i + 1, Len(R))
  BY <1>3, <1>6, Zenon DEF InStep
<1>9. ReadAll(delivered \o SubSeq(R, i + 1, i + n)) = InReply(size, replies - 1, i + n)
  <2>1. n \in Nat /\ i + n <= size + Framing
    BY <1>4, <1>5
  <2>2. \A k, t \in Nat, data \in Seq(Units) :
          ReadAll(data) = InReply(size, t, i)
            => ReadAll(data \o SubSeq(Reply(k, size), i + 1, i + n)) = InReply(size, t, i + n)
    BY <1>3, <1>5, <2>1, ReadsOn
  <2> QED
    BY <1>5, <1>7, <2>2, Zenon
<1> HIDE DEF R
<1>10. i \in 0 .. Len(R) /\ n \in 1 .. Len(R) - i
  BY <1>4, <1>5, <1>6
<1>11. /\ SubSeq(response, 1, n) = SubSeq(R, i + 1, i + n)
       /\ SubSeq(response, n + 1, Len(response)) = SubSeq(R, i + n + 1, Len(R))
  BY <1>6, <1>7, <1>10, RestOfReply, Zenon
<1>12. response' = SubSeq(R, i + n + 1, Len(R))
  BY <1>1, <1>11, DropSent
<1>13. ReadAll(delivered)' = InReply(size, replies - 1, i + n)
  BY <1>1, <1>9, <1>11, Zenon
<1>14. i + n \in 0 .. size + Framing
  BY <1>4, <1>5
<1>15. InStep(size, i + n)'
  BY <1>2, <1>5, <1>6, <1>12, <1>13, Zenon DEF InStep, R
<1> QED
  BY <1>14, <1>15 DEF ClientInv

LEMMA ClientFollowsReply ==
  ASSUME HandlerInv, ClientInv, OnRead
  PROVE  ClientInv'
<1>1. PICK n \in 1 .. ChunkParts :
        n <= Len(wire) /\ DidReceive(AllocateChunk, SubSeq(wire, 1, n))
  BY DEF OnRead
<1>2. /\ UNCHANGED delivered /\ response = <<>> /\ n \in 1 .. Len(wire)
  BY <1>1, SizesAssumption DEF OnRead, CanRead, HasDataToSend, HandlerInv, Answered
<1>3. PICK size \in 0 .. MaxContent : response' = Reply(replies + 1, size)
  BY <1>1, <1>2, ReceiveEffect DEF HandlerInv
<1>4. replies' = replies + 1
  BY <1>1, <1>2, ReceiveEffect DEF HandlerInv
<1>5. size \in Nat /\ replies \in Nat /\ replies + 1 \in Nat /\ Framing = 7
  BY SizesAssumption DEF HandlerInv, StreamType, Framing
<1>6. ReadAll(delivered) = InReply(size, replies, 0)
  <2>1. InReply(size, replies, 0) = [at |-> "start", left |-> 0, taken |-> replies]
    BY <1>5 DEF InReply
  <2>2. CASE replies = 0 /\ delivered = <<>>
    BY <2>1, <2>2, ReadNothing DEF Fresh
  <2>3. ASSUME NEW s \in 0 .. MaxContent, NEW i \in 0 .. s + Framing, InStep(s, i)
        PROVE  ReadAll(delivered) = InReply(size, replies, 0)
    <3>1. i = s + Framing /\ s \in Nat
      BY <1>2, <1>5, <2>3, RestLength, SizesAssumption DEF HandlerInv
    <3>2. InReply(s, replies - 1, i) = [at |-> "start", left |-> 0, taken |-> replies]
      <4>1. i >= s + 5 /\ (replies - 1) + 1 = replies
        BY <1>5, <3>1
      <4> QED
        BY <4>1 DEF InReply
    <3> QED
      BY <2>1, <2>3, <3>2 DEF InStep
  <2> QED
    BY <1>2, <2>2, <2>3 DEF ClientInv
<1>7. response' = SubSeq(Reply(replies + 1, size), 0 + 1, size + Framing)
  <2> DEFINE R == Reply(replies + 1, size)
  <2>1. R \in Seq(Units) /\ Len(R) = size + Framing
    BY <1>5, ReplyLayout, Zenon
  <2> HIDE DEF R
  <2>2. SubSeq(R, 1, Len(R)) = R
    BY <2>1, SubSeqFull
  <2>3. response' = R
    BY <1>3 DEF R
  <2> QED
    BY <2>1, <2>2, <2>3 DEF R
<1>8. InStep(size, 0)'
  <2>1. replies' >= 1 /\ replies' - 1 = replies
    BY <1>4, <1>5
  <2>2. ReadAll(delivered)' = InReply(size, replies' - 1, 0)
    BY <1>2, <1>6, <2>1
  <2> QED
    BY <1>4, <1>7, <2>1, <2>2 DEF InStep
<1>9. 0 \in 0 .. size + Framing
  BY <1>5
<1> QED
  BY <1>8, <1>9 DEF ClientInv

LEMMA ClientIdle ==
  ASSUME ClientInv, UNCHANGED <<replies, response, delivered>>
  PROVE  ClientInv'
BY DEF ClientInv, InStep, ReadAll

LEMMA ClientInvariant == Spec => []ClientInv
<1>1. Init => ClientInv
  BY DEF Init, ClientInv
<1>2. HandlerInv /\ ClientInv /\ [Next]_vars => ClientInv'
  <2> SUFFICES ASSUME HandlerInv, ClientInv, [Next]_vars PROVE ClientInv'
    OBVIOUS
  <2>1. CASE OnRead
    BY <2>1, ClientFollowsReply
  <2>2. CASE OnWrite
    BY <2>2, ClientFollowsSend DEF HandlerInv
  <2>3. CASE OnAccept \/ OnReadEnds \/ OnWriteEnds \/ ClientSends \/ ClientLeaves
    BY <2>3, ClientIdle
    DEF OnAccept, OnReadEnds, OnWriteEnds, Ends, ClientSends, ClientLeaves
  <2>4. CASE UNCHANGED vars
    BY <2>4, ClientIdle DEF vars
  <2> QED
    BY <2>1, <2>2, <2>3, <2>4 DEF Next
<1> QED
  BY <1>1, <1>2, HandlerInvariant, PTL DEF Spec

\* A client that believes Content-length and skips empty lines finds every reply of
\* a connection where it expects one, for contents and pieces of every size.
THEOREM ClientFollows == Spec => []ClientInStep
<1>1. HandlerInv /\ ClientInv => ClientInStep
  <2> SUFFICES ASSUME HandlerInv, ClientInv PROVE ClientInStep
    OBVIOUS
  <2>1. replies \in Nat
    BY DEF HandlerInv, StreamType
  <2>2. CASE replies = 0 /\ delivered = <<>> /\ response = <<>>
    BY <2>2, ReadNothing DEF ClientInStep, Fresh
  <2>3. ASSUME NEW size \in 0 .. MaxContent, NEW i \in 0 .. size + Framing,
               InStep(size, i)
        PROVE  ClientInStep
    <3>1. ReadAll(delivered) = InReply(size, replies - 1, i) /\ replies >= 1
      BY <2>3 DEF InStep
    <3>2. size \in Nat /\ i \in Nat /\ Framing = 7
      BY SizesAssumption DEF Framing
    <3>3. response = <<>> => i >= size + 5
      BY <2>3, <3>2, RestLength DEF HandlerInv
    <3>4. /\ InReply(size, replies - 1, i).at \in {"start", "head", "body"}
          /\ InReply(size, replies - 1, i).taken \in {replies - 1, replies}
          /\ i >= size + 5 => /\ InReply(size, replies - 1, i).at = "start"
                              /\ InReply(size, replies - 1, i).taken = replies
      BY <2>1, <3>1, <3>2 DEF InReply
    <3> QED
      BY <2>1, <3>1, <3>3, <3>4 DEF ClientInStep
  <2> QED
    BY <2>2, <2>3 DEF ClientInv
<1> QED
  BY <1>1, HandlerInvariant, ClientInvariant, PTL
=============================================================================
