-------------------------- MODULE HttpParserProofs --------------------------
(***************************************************************************)
(* HttpRequestParser::Parse stays inside its request, for every request,   *)
(* and cuts every message into its parts.                                  *)
(***************************************************************************)
EXTENDS HttpMessages, NatInduction, SequenceTheorems, TLAPS

\* The piece being read ends where the parser is, or before it when carriage
\* returns were passed over, and lies behind every header that was cut off.
ReadingInRequest ==
  /\ start + pieceLen <= pos
  /\ \A i \in 1 .. Len(headers) : EndOf(headers[i]) < start

ParserInv == TypeOK /\ PiecesInRequest /\ ReadingInRequest

LEMMA NatPos == ASSUME TypeOK PROVE pos \in Nat /\ Len(request) \in Nat
<1>1. Len(request) \in Nat
  BY RequestsAssumption DEF TypeOK
<1> QED
  BY <1>1 DEF TypeOK

\* A byte that is not the end is inside the request.
LEMMA CharInside ==
  ASSUME TypeOK, Char # "NUL"
  PROVE  pos + 1 \in 0 .. Len(request)
BY NatPos DEF Char

LEMMA InitInv == Init => ParserInv
<1> SUFFICES ASSUME Init PROVE ParserInv
  OBVIOUS
<1>1. Len(request) \in Nat
  BY RequestsAssumption DEF Init
<1>2. TypeOK
  BY <1>1 DEF Init, TypeOK, PieceType, NoPiece
<1> QED
  BY <1>2 DEF Init, ParserInv, PiecesInRequest, ReadingInRequest, EndOf, NoPiece

\* Turns that cut nothing off.
LEMMA NoCut ==
  ASSUME ParserInv, UNCHANGED <<request, method, url, http, headers>>,
         \/ Finish
         \/ (Char # "NUL") /\ (Grow \/ Skip)
         \/ status' \in {"METHOD", "HEADER"} /\ UNCHANGED <<pos, start, pieceLen>>
  PROVE  ParserInv'
<1>1. /\ TypeOK /\ pos \in Nat /\ Len(request) \in Nat /\ pos' \in 0 .. Len(request)
      /\ start \in Nat /\ pieceLen \in Nat
  BY NatPos, CharInside DEF ParserInv, TypeOK, Finish, Grow, Skip
<1>2. TypeOK'
  BY <1>1 DEF TypeOK, Finish, Grow, Skip
<1>3. pos <= pos' /\ pos' \in Nat
  BY <1>1 DEF Finish, Grow, Skip
<1>4. start' = start /\ start' + pieceLen' <= pos'
  BY <1>1 DEF ParserInv, ReadingInRequest, Finish, Grow, Skip
<1>5. \A p \in PieceType : EndOf(p) \in Nat
  BY DEF PieceType, EndOf
<1>6. PiecesInRequest'
  BY <1>1, <1>3, <1>5 DEF ParserInv, PiecesInRequest, TypeOK
<1> QED
  BY <1>2, <1>4, <1>6 DEF ParserInv, ReadingInRequest

\* Cutting off the method, the URL or the version.
LEMMA CutLine ==
  ASSUME ParserInv, Char # "NUL", NEW next \in {"URL", "HTTP", "HEADER"}, Cut(next),
         UNCHANGED <<request, headers>>,
         method' \in {method, Piece}, url' \in {url, Piece}, http' \in {http, Piece}
  PROVE  ParserInv'
<1>1. /\ TypeOK /\ pos \in Nat /\ Len(request) \in Nat /\ pos' \in 0 .. Len(request)
      /\ start \in Nat /\ pieceLen \in Nat /\ pos' = pos + 1
  BY NatPos, CharInside DEF ParserInv, TypeOK, Cut
<1>2. Piece \in PieceType /\ EndOf(Piece) <= pos /\ EndOf(Piece) \in Nat
  BY <1>1 DEF ParserInv, ReadingInRequest, Piece, PieceType, EndOf
<1>3. TypeOK'
  BY <1>1, <1>2 DEF TypeOK, Cut
<1>4. \A p \in PieceType : EndOf(p) \in Nat
  BY DEF PieceType, EndOf
<1>5. \A i \in 1 .. Len(headers) : EndOf(headers[i]) \in Nat
  BY <1>1, <1>4 DEF TypeOK
<1>6. PiecesInRequest'
  <2>1. \A p \in {method, url, http} : EndOf(p) \in Nat /\ EndOf(p) <= pos
    BY <1>1, <1>4 DEF ParserInv, PiecesInRequest, TypeOK
  <2>2. \A p \in {method', url', http'} :
          p = Piece \/ p \in {method, url, http}
    OBVIOUS
  <2>3. \A p \in {method', url', http'} : EndOf(p) \in Nat /\ EndOf(p) <= pos
    BY <1>2, <2>1, <2>2, Zenon
  <2>4. \A p \in {method', url', http'} : EndOf(p) <= pos'
    BY <1>1, <2>3
  <2>5. \A i \in 1 .. Len(headers) : EndOf(headers[i]) <= pos'
    BY <1>1, <1>5 DEF ParserInv, PiecesInRequest
  <2> QED
    BY <2>4, <2>5 DEF ParserInv, PiecesInRequest, EndOf
<1>7. ReadingInRequest'
  BY <1>1, <1>5 DEF ParserInv, PiecesInRequest, ReadingInRequest, Cut
<1> QED
  BY <1>3, <1>6, <1>7 DEF ParserInv

\* Cutting off a header.
LEMMA CutHeader ==
  ASSUME ParserInv, Char # "NUL", Cut("HEADER_NEWLINE"),
         UNCHANGED <<request, method, url, http>>,
         headers' = Append(headers, Piece)
  PROVE  ParserInv'
<1>1. /\ TypeOK /\ pos \in Nat /\ Len(request) \in Nat /\ pos' \in 0 .. Len(request)
      /\ start \in Nat /\ pieceLen \in Nat /\ pos' = pos + 1
      /\ headers \in Seq(PieceType)
  BY NatPos, CharInside DEF ParserInv, TypeOK, Cut
<1>2. /\ Piece \in PieceType /\ EndOf(Piece) <= pos /\ EndOf(Piece) \in Nat
      /\ Piece.start = start
  BY <1>1 DEF ParserInv, ReadingInRequest, Piece, PieceType, EndOf
<1>3. /\ headers' \in Seq(PieceType) /\ Len(headers') = Len(headers) + 1
      /\ Len(headers) \in Nat
      /\ headers'[Len(headers) + 1] = Piece
      /\ \A i \in 1 .. Len(headers) : headers'[i] = headers[i]
  <2>1. headers \in Seq(PieceType) /\ Piece \in PieceType
    BY <1>1, <1>2
  <2> HIDE DEF Piece
  <2> DEFINE longer == Append(headers, Piece)
  <2>2. /\ longer \in Seq(PieceType) /\ Len(longer) = Len(headers) + 1
        /\ Len(headers) \in Nat
        /\ longer[Len(headers) + 1] = Piece
        /\ \A i \in 1 .. Len(headers) : longer[i] = headers[i]
    BY <2>1
  <2> QED
    BY <2>2
<1>4. TypeOK'
  BY <1>1, <1>3 DEF TypeOK, Cut
<1>5. \A i \in 1 .. Len(headers) : /\ EndOf(headers[i]) \in Nat
                                   /\ EndOf(headers[i]) <= pos
                                   /\ EndOf(headers[i]) < start
  <2>1. \A p \in PieceType : EndOf(p) \in Nat
    BY DEF PieceType, EndOf
  <2>2. \A i \in 1 .. Len(headers) : headers[i] \in PieceType
    BY <1>1
  <2> QED
    BY <2>1, <2>2 DEF ParserInv, PiecesInRequest, ReadingInRequest
<1>6. \A p \in {method, url, http} : EndOf(p) \in Nat /\ EndOf(p) <= pos
  BY <1>1 DEF ParserInv, PiecesInRequest, TypeOK, PieceType, EndOf
<1>7. \A p \in {method', url', http'} : EndOf(p) <= pos'
  BY <1>1, <1>6
<1>8. \A i \in 1 .. Len(headers') : /\ EndOf(headers'[i]) \in Nat
                                    /\ EndOf(headers'[i]) <= pos
  BY <1>2, <1>3, <1>5
<1>9. \A i, j \in 1 .. Len(headers') :
        i < j => EndOf(headers'[i]) < headers'[j].start
  <2> SUFFICES ASSUME NEW i \in 1 .. Len(headers'), NEW j \in 1 .. Len(headers'),
                      i < j
               PROVE  EndOf(headers'[i]) < headers'[j].start
    OBVIOUS
  <2>1. i \in 1 .. Len(headers)
    BY <1>3
  <2>2. CASE j \in 1 .. Len(headers)
    BY <1>3, <2>1, <2>2 DEF ParserInv, PiecesInRequest
  <2>3. CASE j = Len(headers) + 1
    BY <1>2, <1>3, <1>5, <2>1, <2>3
  <2> QED
    BY <1>3, <2>2, <2>3
<1>10. PiecesInRequest'
  <2>1. \A i \in 1 .. Len(headers') : EndOf(headers'[i]) <= pos'
    BY <1>1, <1>8
  <2> QED
    BY <1>7, <1>9, <2>1 DEF PiecesInRequest, EndOf
<1>11. ReadingInRequest'
  BY <1>1, <1>8 DEF ReadingInRequest, Cut
<1> QED
  BY <1>4, <1>10, <1>11 DEF ParserInv

LEMMA NextInv == ParserInv /\ [Next]_vars => ParserInv'
<1> SUFFICES ASSUME ParserInv, [Next]_vars PROVE ParserInv'
  OBVIOUS
<1>1. CASE Start
  BY <1>1, NoCut DEF Start
<1>2. CASE Method
  BY <1>2, NoCut, CutLine DEF Method
<1>3. CASE Url
  BY <1>3, NoCut, CutLine DEF Url
<1>4. CASE Http
  BY <1>4, NoCut, CutLine DEF Http
<1>5. CASE HeaderLine
  BY <1>5, NoCut, CutHeader DEF HeaderLine
<1>6. CASE HeaderNewline
  BY <1>6, NoCut DEF HeaderNewline
<1>7. CASE UNCHANGED vars
  BY <1>7 DEF vars, ParserInv, TypeOK, PiecesInRequest, ReadingInRequest
<1> QED
  BY <1>1, <1>2, <1>3, <1>4, <1>5, <1>6, <1>7 DEF Next

LEMMA Invariant == Spec => []ParserInv
  BY InitInv, NextInv, PTL DEF Spec

\* For every request, Parse's pointers stay within it and its terminator, and
\* its status is one that the switch knows.
THEOREM ParserTyped == Spec => []TypeOK
  BY Invariant, PTL DEF ParserInv

\* For every request, all pieces that Parse hands out lie inside of it, and the
\* headers lie behind one another.
THEOREM PiecesSafe == Spec => []PiecesInRequest
  BY Invariant, PTL DEF ParserInv

LEMMA TurnNearer ==
  ASSUME TypeOK, TypeOK', Next
  PROVE  TurnsLeft' \in 0 .. TurnsLeft - 1
<1> DEFINE n == Len(request)
<1>1. n \in Nat /\ request' = request /\ pos \in 0 .. n /\ pos' \in 0 .. n
  <2>1. request' = request
    BY DEF Next, Start, Method, Url, Http, HeaderLine, HeaderNewline
  <2> QED
    BY <2>1, NatPos DEF TypeOK
<1>2. \/ status = "START" /\ status' = "METHOD" /\ pos' = pos
      \/ status = "HEADER_NEWLINE" /\ status' = "HEADER" /\ pos' = pos
      \/ status \notin {"FINISHED", "ERROR"} /\ status' = "FINISHED" /\ pos' = pos
      \/ status \notin {"START", "FINISHED", "ERROR"} /\ pos' = pos + 1
  BY DEF Next, Start, Method, Url, Http, HeaderLine, HeaderNewline, Finish, Grow, Skip, Cut
<1>3. TurnsLeft = 2 * (n - pos) + TurnsHere /\ TurnsLeft' = 2 * (n - pos') + TurnsHere'
  BY <1>1 DEF TurnsLeft
<1>4. TurnsHere \in 0 .. 2 /\ TurnsHere' \in 0 .. 2
  BY DEF TurnsHere
<1>5. \/ pos' = pos /\ TurnsHere' < TurnsHere
      \/ pos' = pos + 1 /\ 1 <= TurnsHere
  BY <1>2 DEF TurnsHere
<1>6. ASSUME NEW m \in Nat, NEW p \in 0 .. m, NEW q \in 0 .. m,
             NEW a \in 0 .. 2, NEW b \in 0 .. 2,
             (q = p /\ b < a) \/ (q = p + 1 /\ 1 <= a)
      PROVE  2 * (m - q) + b \in 0 .. (2 * (m - p) + a) - 1
  <2>1. m - q \in Nat /\ m - p \in Nat /\ (q = p + 1 => m - q = (m - p) - 1)
    OBVIOUS
  <2> QED
    BY <1>6, <2>1
<1> HIDE DEF n
<1> QED
  BY <1>1, <1>3, <1>4, <1>5, <1>6

\* For every request of n bytes, Parse takes at most 2 n + 2 turns of its loop.
THEOREM ParserNeverSpins == Spec => NeverSpins
<1>1. TypeOK /\ TypeOK' /\ [Next]_vars => [TurnsLeft' \in 0 .. TurnsLeft - 1]_vars
  BY TurnNearer
<1> QED
  BY <1>1, ParserTyped, PTL DEF Spec, NeverSpins

-----------------------------------------------------------------------------
(* Where the pieces of a message lie. *)

\* The piece s lies in r behind its first at bytes.
Occurs(s, at, r) == at + Len(s) <= Len(r) /\ \A i \in 1 .. Len(s) : r[at + i] = s[i]

LEMMA BytesConcat ==
  \A a, b \in Seq(Bytes) : a \o b \in Seq(Bytes) /\ Len(a \o b) = Len(a) + Len(b)
BY ConcatProperties

LEMMA BytesLength == \A a \in Seq(Bytes) : Len(a) \in Nat
OBVIOUS

LEMMA OccursFirst ==
  ASSUME NEW a \in Seq(Bytes), NEW b \in Seq(Bytes), NEW s \in Seq(Bytes), NEW at \in Nat,
         Occurs(s, at, a)
  PROVE  Occurs(s, at, a \o b)
<1>1. /\ Len(a \o b) = Len(a) + Len(b) /\ Len(a) \in Nat /\ Len(b) \in Nat /\ Len(s) \in Nat
      /\ at + Len(s) <= Len(a) /\ \A i \in 1 .. Len(s) : a[at + i] = s[i]
  BY ConcatProperties DEF Occurs
<1>2. ASSUME NEW i \in 1 .. Len(s) PROVE (a \o b)[at + i] = s[i]
  <2>1. at + i \in 1 .. Len(a) + Len(b) /\ at + i <= Len(a) /\ a[at + i] = s[i]
    BY <1>1
  <2> QED
    BY <2>1, ConcatProperties
<1> QED
  BY <1>1, <1>2 DEF Occurs

LEMMA OccursSecond ==
  ASSUME NEW a \in Seq(Bytes), NEW b \in Seq(Bytes)
  PROVE  Occurs(b, Len(a), a \o b)
<1>1. Len(a \o b) = Len(a) + Len(b) /\ Len(a) \in Nat /\ Len(b) \in Nat
  BY ConcatProperties
<1>2. ASSUME NEW i \in 1 .. Len(b) PROVE (a \o b)[Len(a) + i] = b[i]
  <2>1. /\ Len(a) + i \in 1 .. Len(a) + Len(b)
        /\ ~(Len(a) + i <= Len(a)) /\ (Len(a) + i) - Len(a) = i
    BY <1>1
  <2> QED
    BY <2>1, ConcatProperties
<1> QED
  BY <1>1, <1>2 DEF Occurs

\* The lines' bytes, a line at a time.
IsLines(f, hs, n) ==
  f = [ i \in 0 .. n |-> IF i = 0 THEN <<>> ELSE AddLine(f[i - 1], hs[i]) ]

LinesOf(hs, n) ==
  CHOOSE f : f = [ i \in 0 .. n |-> IF i = 0 THEN <<>> ELSE AddLine(f[i - 1], hs[i]) ]

LEMMA LinesExist ==
  ASSUME NEW hs, NEW k \in Nat
  PROVE  IsLines(LinesOf(hs, k), hs, k)
<1> DEFINE A == { n \in Nat : \E f : IsLines(f, hs, n) }
<1>1. 0 \in A
  <2> DEFINE f == [ i \in 0 .. 0 |-> <<>> ]
  <2>1. IsLines(f, hs, 0)
    BY DEF IsLines
  <2> QED
    BY <2>1
<1>2. ASSUME NEW n \in A PROVE n + 1 \in A
  <2>1. PICK f : IsLines(f, hs, n)
    OBVIOUS
  <2> DEFINE g == [ i \in 0 .. n + 1 |->
                      IF i <= n THEN f[i] ELSE AddLine(f[n], hs[n + 1]) ]
             h == [ i \in 0 .. n + 1 |->
                      IF i = 0 THEN <<>> ELSE AddLine(g[i - 1], hs[i]) ]
  <2>2. ASSUME NEW i \in 0 .. n + 1 PROVE g[i] = h[i]
    <3>1. CASE i = 0
      BY <2>1, <3>1 DEF IsLines
    <3>2. CASE i \in 1 .. n
      <4>1. i - 1 \in 0 .. n /\ g[i - 1] = f[i - 1] /\ g[i] = f[i]
        BY <3>2
      <4>2. f[i] = AddLine(f[i - 1], hs[i])
        BY <2>1, <3>2 DEF IsLines
      <4> QED
        BY <3>2, <4>1, <4>2
    <3>3. CASE i = n + 1
      <4>1. i - 1 = n /\ g[i - 1] = f[n] /\ g[i] = AddLine(f[n], hs[n + 1])
        BY <3>3
      <4> QED
        BY <3>3, <4>1
    <3> QED
      BY <3>1, <3>2, <3>3
  <2>3. g = h
    <3> HIDE DEF IsLines
    <3> QED
      BY <2>2
  <2>4. IsLines(g, hs, n + 1)
    BY <2>3, Zenon DEF IsLines
  <2> QED
    BY <2>4
<1>3. A = Nat
  <2>1. A \in SUBSET Nat
    OBVIOUS
  <2> HIDE DEF A
  <2> QED
    BY <1>1, <1>2, <2>1, SetInduction
<1>4. \E f : IsLines(f, hs, k)
  BY <1>3
<1> QED
  BY <1>4, Zenon DEF LinesOf, IsLines

LEMMA LinesStep ==
  ASSUME NEW hs, NEW k \in Nat
  PROVE  /\ LinesOf(hs, k)[0] = <<>>
         /\ \A i \in 1 .. k :
              LinesOf(hs, k)[i] = AddLine(LinesOf(hs, k)[i - 1], hs[i])
<1> DEFINE f == LinesOf(hs, k)
<1>1. f = [ i \in 0 .. k |-> IF i = 0 THEN <<>> ELSE AddLine(f[i - 1], hs[i]) ]
  BY LinesExist DEF IsLines
<1> HIDE DEF f
<1>2. f[0] = <<>>
  BY <1>1
<1>3. ASSUME NEW i \in 1 .. k PROVE f[i] = AddLine(f[i - 1], hs[i])
  <2>1. i \in 0 .. k /\ i # 0
    OBVIOUS
  <2> QED
    BY <1>1, <2>1
<1> QED
  BY <1>2, <1>3 DEF f

LEMMA LinesIs == ASSUME NEW hs, NEW n PROVE Lines(hs, n) = LinesOf(hs, n)[n]
BY DEF Lines, LinesOf

\* No line is nothing, and a line more is its bytes and CRLF.
LEMMA OneLineMore ==
  ASSUME NEW hs, NEW n \in Nat
  PROVE  /\ Lines(hs, 0) = <<>>
         /\ Lines(hs, n + 1) = AddLine(Lines(hs, n), hs[n + 1])
<1> DEFINE f == LinesOf(hs, n)
           g == LinesOf(hs, n + 1)
           A == { i \in Nat : i <= n => g[i] = f[i] }
<1>1. Lines(hs, 0) = <<>>
  BY LinesIs, LinesStep
<1>2. f[0] = <<>> /\ \A i \in 1 .. n : f[i] = AddLine(f[i - 1], hs[i])
  BY LinesStep
<1>3. g[0] = <<>> /\ \A i \in 1 .. n + 1 : g[i] = AddLine(g[i - 1], hs[i])
  BY LinesStep
<1>4. Lines(hs, n) = f[n] /\ Lines(hs, n + 1) = g[n + 1]
  BY LinesIs
<1> HIDE DEF f, g
<1>5. 0 \in A
  BY <1>2, <1>3
<1>6. ASSUME NEW i \in A PROVE i + 1 \in A
  <2>1. SUFFICES ASSUME i + 1 <= n PROVE g[i + 1] = f[i + 1]
    OBVIOUS
  <2>2. i + 1 \in 1 .. n /\ i + 1 \in 1 .. n + 1 /\ (i + 1) - 1 = i /\ g[i] = f[i]
    BY <2>1
  <2>3. g[i + 1] = AddLine(g[(i + 1) - 1], hs[i + 1])
    BY <1>3, <2>2
  <2>4. f[i + 1] = AddLine(f[(i + 1) - 1], hs[i + 1])
    BY <1>2, <2>2
  <2> QED
    BY <2>2, <2>3, <2>4
<1>7. A = Nat
  <2>1. A \in SUBSET Nat
    OBVIOUS
  <2> HIDE DEF A
  <2> QED
    BY <1>5, <1>6, <2>1, SetInduction
<1>8. g[n] = f[n]
  BY <1>7
<1>9. g[n + 1] = AddLine(g[(n + 1) - 1], hs[n + 1]) /\ (n + 1) - 1 = n
  <2>1. n + 1 \in 1 .. n + 1 /\ (n + 1) - 1 = n
    OBVIOUS
  <2> QED
    BY <1>3, <2>1
<1> QED
  BY <1>1, <1>4, <1>8, <1>9

LEMMA CRLFType == CRLF \in Seq(Bytes) /\ Len(CRLF) = 2 /\ CRLF[1] = "CR" /\ CRLF[2] = "LF"
BY DEF CRLF, Bytes

LEMMA LineAdded ==
  ASSUME NEW l \in Seq(Bytes), NEW h \in Seq(Bytes)
  PROVE  /\ AddLine(l, h) \in Seq(Bytes)
         /\ Len(AddLine(l, h)) = Len(l) + Len(h) + 2
         /\ Occurs(h, Len(l), AddLine(l, h))
         /\ Occurs(CRLF, Len(l) + Len(h), AddLine(l, h))
         /\ \A s \in Seq(Bytes), at \in Nat :
              Occurs(s, at, l) => Occurs(s, at, AddLine(l, h))
<1> DEFINE lh == l \o h
<1>1. lh \in Seq(Bytes) /\ Len(lh) = Len(l) + Len(h) /\ Len(l) \in Nat
  BY BytesConcat
<1>2. AddLine(l, h) = lh \o CRLF
  BY DEF AddLine
<1>3. Occurs(h, Len(l), lh)
  BY OccursSecond
<1>4. ASSUME NEW s \in Seq(Bytes), NEW at \in Nat, Occurs(s, at, l)
      PROVE  Occurs(s, at, lh)
  BY <1>4, OccursFirst
<1> HIDE DEF lh
<1>5. lh \o CRLF \in Seq(Bytes) /\ Len(lh \o CRLF) = Len(lh) + 2
  <2>1. /\ lh \o CRLF \in Seq(Bytes) /\ Len(lh \o CRLF) = Len(lh) + Len(CRLF)
    BY <1>1, CRLFType, BytesConcat, Zenon
  <2> QED
    BY <2>1, CRLFType
<1>6. Occurs(CRLF, Len(lh), lh \o CRLF)
  BY <1>1, CRLFType, OccursSecond
<1>7. \A s \in Seq(Bytes), at \in Nat : Occurs(s, at, lh) => Occurs(s, at, lh \o CRLF)
  BY <1>1, CRLFType, OccursFirst
<1> QED
  BY <1>1, <1>2, <1>3, <1>4, <1>5, <1>6, <1>7

\* Header k of the first n.
LaidOut(hs, k, n) ==
  /\ Lines(hs, k - 1) \in Seq(Bytes)
  /\ Len(Lines(hs, k)) = Len(Lines(hs, k - 1)) + Len(hs[k]) + 2
  /\ Occurs(hs[k], Len(Lines(hs, k - 1)), Lines(hs, n))
  /\ Occurs(CRLF, Len(Lines(hs, k - 1)) + Len(hs[k]), Lines(hs, n))

AllLaidOut(hs, n) == Lines(hs, n) \in Seq(Bytes) /\ \A k \in 1 .. n : LaidOut(hs, k, n)

LEMMA NextLaidOut ==
  ASSUME NEW hs \in Seq(Seq(Bytes)), NEW n \in Nat, n + 1 <= Len(hs), AllLaidOut(hs, n)
  PROVE  AllLaidOut(hs, n + 1)
<1> DEFINE l == Lines(hs, n)
           h == hs[n + 1]
           longer == Lines(hs, n + 1)
<1>1. /\ l \in Seq(Bytes) /\ h \in Seq(Bytes) /\ (n + 1) - 1 = n
      /\ \A k \in 1 .. n : LaidOut(hs, k, n) /\ hs[k] \in Seq(Bytes)
  BY DEF AllLaidOut
<1>2. longer = AddLine(l, h)
  BY OneLineMore
<1>3. /\ longer \in Seq(Bytes) /\ Len(longer) = Len(l) + Len(h) + 2
      /\ Occurs(h, Len(l), longer) /\ Occurs(CRLF, Len(l) + Len(h), longer)
      /\ \A s \in Seq(Bytes), at \in Nat : Occurs(s, at, l) => Occurs(s, at, longer)
  <2> HIDE DEF longer, l, h
  <2> QED
    BY <1>1, <1>2, LineAdded
<1>4. LaidOut(hs, n + 1, n + 1)
  BY <1>1, <1>3 DEF LaidOut
<1>5. ASSUME NEW k \in 1 .. n PROVE LaidOut(hs, k, n + 1)
  <2>1. LaidOut(hs, k, n) /\ hs[k] \in Seq(Bytes) /\ Lines(hs, k - 1) \in Seq(Bytes)
    BY <1>1 DEF LaidOut
  <2>2. Len(Lines(hs, k - 1)) \in Nat /\ Len(Lines(hs, k - 1)) + Len(hs[k]) \in Nat
    <3> DEFINE before == Len(Lines(hs, k - 1))
               length == Len(hs[k])
    <3>1. before \in Nat /\ length \in Nat
      BY <2>1, BytesLength, Zenon
    <3> HIDE DEF before, length
    <3>2. before \in Nat /\ before + length \in Nat
      BY <3>1
    <3> QED
      BY <3>2 DEF before, length
  <2>3. /\ Occurs(hs[k], Len(Lines(hs, k - 1)), l)
        /\ Occurs(CRLF, Len(Lines(hs, k - 1)) + Len(hs[k]), l)
    BY <2>1 DEF LaidOut
  <2> HIDE DEF longer, l
  <2>4. /\ Occurs(hs[k], Len(Lines(hs, k - 1)), longer)
        /\ Occurs(CRLF, Len(Lines(hs, k - 1)) + Len(hs[k]), longer)
    BY <1>3, <2>1, <2>2, <2>3, CRLFType
  <2> QED
    BY <2>1, <2>4 DEF LaidOut, longer
<1>6. \A k \in 1 .. n + 1 : k = n + 1 \/ k \in 1 .. n
  OBVIOUS
<1>7. \A k \in 1 .. n + 1 : LaidOut(hs, k, n + 1)
  BY <1>4, <1>5, <1>6, Zenon
<1> QED
  BY <1>3, <1>7, Zenon DEF AllLaidOut

LEMMA LinesLayout ==
  ASSUME NEW hs \in Seq(Seq(Bytes)), NEW n \in 0 .. Len(hs)
  PROVE  AllLaidOut(hs, n)
<1> DEFINE A == { m \in Nat : m <= Len(hs) => AllLaidOut(hs, m) }
<1>0. Len(hs) \in Nat
  OBVIOUS
<1>1. 0 \in A
  <2>1. Lines(hs, 0) \in Seq(Bytes)
    <3>1. Lines(hs, 0) = <<>>
      BY OneLineMore
    <3>2. <<>> \in Seq(Bytes)
      OBVIOUS
    <3> QED
      BY <3>1, <3>2, Zenon
  <2>2. AllLaidOut(hs, 0)
    BY <2>1 DEF AllLaidOut
  <2> QED
    BY <2>2
<1>2. ASSUME NEW m \in A PROVE m + 1 \in A
  <2>1. SUFFICES ASSUME m + 1 <= Len(hs) PROVE AllLaidOut(hs, m + 1)
    OBVIOUS
  <2>2. m \in Nat /\ AllLaidOut(hs, m)
    BY <1>0, <2>1
  <2> QED
    BY <2>1, <2>2, NextLaidOut
<1>3. A = Nat
  <2>1. A \in SUBSET Nat
    OBVIOUS
  <2> HIDE DEF A
  <2> QED
    BY <1>1, <1>2, <2>1, SetInduction
<1>4. n \in A /\ n <= Len(hs)
  BY <1>0, <1>3
<1> QED
  BY <1>4

LEMMA OccursShifted ==
  ASSUME NEW a \in Seq(Bytes), NEW b \in Seq(Bytes), NEW s \in Seq(Bytes), NEW at \in Nat,
         Occurs(s, at, b)
  PROVE  Occurs(s, Len(a) + at, a \o b)
<1>1. /\ Len(a \o b) = Len(a) + Len(b) /\ Len(a) \in Nat /\ Len(b) \in Nat /\ Len(s) \in Nat
      /\ at + Len(s) <= Len(b) /\ \A i \in 1 .. Len(s) : b[at + i] = s[i]
  BY ConcatProperties DEF Occurs
<1>2. ASSUME NEW i \in 1 .. Len(s) PROVE (a \o b)[(Len(a) + at) + i] = s[i]
  <2>1. /\ (Len(a) + at) + i \in 1 .. Len(a) + Len(b) /\ ~((Len(a) + at) + i <= Len(a))
        /\ ((Len(a) + at) + i) - Len(a) = at + i /\ b[at + i] = s[i]
    BY <1>1
  <2> QED
    BY <2>1, ConcatProperties
<1> QED
  BY <1>1, <1>2 DEF Occurs

\* What follows something leaves it where it is.
LEMMA Joined ==
  ASSUME NEW a \in Seq(Bytes), NEW b \in Seq(Bytes)
  PROVE  /\ a \o b \in Seq(Bytes) /\ Len(a \o b) = Len(a) + Len(b)
         /\ Occurs(b, Len(a), a \o b)
         /\ \A s \in Seq(Bytes), at \in Nat : Occurs(s, at, a) => Occurs(s, at, a \o b)
BY BytesConcat, OccursFirst, OccursSecond, Zenon

LEMMA WordsAndLines == Word \subseteq Seq(Bytes) /\ Line \subseteq Seq(Bytes)
BY DEF Word, Line

\* Where the pieces of a message begin.
UrlAt(q)       == Len(q.m) + 1
HttpAt(q)      == UrlAt(q) + Len(q.u) + 1
LinesAt(q)     == HttpAt(q) + Len(q.v) + 2
HeaderAt(q, k) == LinesAt(q) + Len(Lines(q.hs, k - 1))

LEMMA SentTypes ==
  ASSUME NEW q \in Sent
  PROVE  /\ q.m \in Seq(Bytes) /\ q.u \in Seq(Bytes) /\ q.v \in Seq(Bytes)
         /\ q.tail \in Seq(Bytes) /\ q.hs \in Seq(Seq(Bytes))
         /\ Len(q.m) \in Nat /\ Len(q.u) \in Nat /\ Len(q.v) \in Nat
         /\ Len(q.tail) \in Nat /\ Len(q.hs) \in Nat
         /\ \A k \in 1 .. Len(q.hs) : q.hs[k] \in Line /\ Len(q.hs[k]) \in Nat \ {0}
<1>1. /\ q.m \in Word /\ q.u \in Word /\ q.v \in Line /\ q.tail \in Seq(Bytes)
      /\ q.hs \in Seq(Line \ {<<>>})
  BY SentAssumption
<1>2. q.m \in Seq(Bytes) /\ q.u \in Seq(Bytes) /\ q.v \in Seq(Bytes)
  BY <1>1, WordsAndLines
<1>3. Len(q.m) \in Nat /\ Len(q.u) \in Nat /\ Len(q.v) \in Nat /\ Len(q.tail) \in Nat
  BY <1>1, <1>2, BytesLength, Zenon
<1>4. Len(q.hs) \in Nat /\ \A k \in 1 .. Len(q.hs) : q.hs[k] \in Line \ {<<>>}
  <2> DEFINE L == Line \ {<<>>}
  <2> HIDE DEF L
  <2>1. q.hs \in Seq(L)
    BY <1>1 DEF L
  <2>2. Len(q.hs) \in Nat /\ \A k \in 1 .. Len(q.hs) : q.hs[k] \in L
    BY <2>1
  <2> QED
    BY <2>2 DEF L
<1>5. \A l \in Line \ {<<>>} : Len(l) \in Nat \ {0}
  <2>1. \A l \in Seq(Bytes) : l # <<>> => Len(l) \in Nat \ {0}
    BY EmptySeq
  <2> QED
    BY <2>1, WordsAndLines
<1>6. q.hs \in Seq(Seq(Bytes))
  <2> DEFINE L == Line \ {<<>>}
             B == Seq(Bytes)
  <2>1. L \subseteq B
    BY WordsAndLines
  <2>2. q.hs \in Seq(L)
    BY <1>1
  <2> HIDE DEF L, B
  <2>3. q.hs \in Seq(B)
    BY <2>1, <2>2
  <2> QED
    BY <2>3 DEF B
<1> QED
  BY <1>1, <1>2, <1>3, <1>4, <1>5, <1>6

BLANK == <<"SP">>

LEMMA BlankType == BLANK \in Seq(Bytes) /\ Len(BLANK) = 1 /\ BLANK[1] = "SP"
BY DEF BLANK, Bytes

LEMMA RequestLineLayout ==
  ASSUME NEW q \in Sent
  PROVE  /\ RequestLine(q) \in Seq(Bytes) /\ Len(RequestLine(q)) = LinesAt(q)
         /\ Occurs(q.m, 0, RequestLine(q)) /\ Occurs(BLANK, Len(q.m), RequestLine(q))
         /\ Occurs(q.u, UrlAt(q), RequestLine(q))
         /\ Occurs(BLANK, UrlAt(q) + Len(q.u), RequestLine(q))
         /\ Occurs(q.v, HttpAt(q), RequestLine(q))
         /\ Occurs(CRLF, HttpAt(q) + Len(q.v), RequestLine(q))
<1> DEFINE m == q.m
           u == q.u
           v == q.v
           p1 == m \o BLANK
           p2 == p1 \o u
           p3 == p2 \o BLANK
           p4 == p3 \o v
           p5 == p4 \o CRLF
<1>0. /\ m \in Seq(Bytes) /\ u \in Seq(Bytes) /\ v \in Seq(Bytes)
      /\ Len(m) \in Nat /\ Len(u) \in Nat /\ Len(v) \in Nat
  BY SentTypes
<1>a. RequestLine(q) = p5
  BY DEF RequestLine, BLANK
<1>b. /\ UrlAt(q) = Len(m) + 1 /\ HttpAt(q) = UrlAt(q) + Len(u) + 1
      /\ LinesAt(q) = HttpAt(q) + Len(v) + 2
  BY DEF UrlAt, HttpAt, LinesAt
<1> HIDE DEF m, u, v
<1>1. /\ p1 \in Seq(Bytes) /\ Len(p1) = Len(m) + Len(BLANK) /\ Occurs(BLANK, Len(m), p1)
      /\ Occurs(m, 0, p1)
  <2>1. Occurs(m, 0, m)
    BY <1>0 DEF Occurs
  <2>2. 0 \in Nat
    OBVIOUS
  <2> QED
    BY <1>0, <2>1, <2>2, BlankType, Joined, Zenon
<1> HIDE DEF p1
<1>2. /\ p2 \in Seq(Bytes) /\ Len(p2) = Len(p1) + Len(u) /\ Occurs(u, Len(p1), p2)
      /\ \A s \in Seq(Bytes), at \in Nat : Occurs(s, at, p1) => Occurs(s, at, p2)
  BY <1>0, <1>1, Joined, Zenon
<1> HIDE DEF p2
<1>3. /\ p3 \in Seq(Bytes) /\ Len(p3) = Len(p2) + Len(BLANK) /\ Occurs(BLANK, Len(p2), p3)
      /\ \A s \in Seq(Bytes), at \in Nat : Occurs(s, at, p2) => Occurs(s, at, p3)
  BY <1>2, BlankType, Joined, Zenon
<1> HIDE DEF p3
<1>4. /\ p4 \in Seq(Bytes) /\ Len(p4) = Len(p3) + Len(v) /\ Occurs(v, Len(p3), p4)
      /\ \A s \in Seq(Bytes), at \in Nat : Occurs(s, at, p3) => Occurs(s, at, p4)
  BY <1>0, <1>3, Joined, Zenon
<1> HIDE DEF p4
<1>5. /\ p5 \in Seq(Bytes) /\ Len(p5) = Len(p4) + Len(CRLF) /\ Occurs(CRLF, Len(p4), p5)
      /\ \A s \in Seq(Bytes), at \in Nat : Occurs(s, at, p4) => Occurs(s, at, p5)
  BY <1>4, CRLFType, Joined, Zenon
<1> HIDE DEF p5
<1>6. /\ Len(p1) = UrlAt(q) /\ Len(p2) = UrlAt(q) + Len(u) /\ Len(p3) = HttpAt(q)
      /\ Len(p4) = HttpAt(q) + Len(v) /\ Len(p5) = LinesAt(q)
      /\ UrlAt(q) \in Nat /\ UrlAt(q) + Len(u) \in Nat /\ HttpAt(q) \in Nat
  BY <1>0, <1>b, <1>1, <1>2, <1>3, <1>4, <1>5, BlankType, CRLFType
<1>7. Occurs(m, 0, p5) /\ Occurs(BLANK, Len(m), p5)
  <2>1. 0 \in Nat
    OBVIOUS
  <2> QED
    BY <1>0, <1>1, <1>2, <1>3, <1>4, <1>5, <2>1, BlankType, Zenon
<1>8. Occurs(u, UrlAt(q), p5) /\ Occurs(BLANK, UrlAt(q) + Len(u), p5)
  BY <1>0, <1>2, <1>3, <1>4, <1>5, <1>6, BlankType
<1>9. Occurs(v, HttpAt(q), p5) /\ Occurs(CRLF, HttpAt(q) + Len(v), p5)
  BY <1>0, <1>4, <1>5, <1>6
<1> QED
  BY <1>a, <1>5, <1>6, <1>7, <1>8, <1>9 DEF m, u, v

\* The request line's pieces, the headers and the empty line lie in the request.
Layout(q) ==
  LET r == RequestOf(q)
      n == Len(q.hs)
  IN  /\ r \in Seq(Bytes) /\ Len(r) = HeaderAt(q, n + 1) + 2 + Len(q.tail)
      /\ Occurs(q.m, 0, r) /\ Occurs(BLANK, Len(q.m), r)
      /\ Occurs(q.u, UrlAt(q), r) /\ Occurs(BLANK, UrlAt(q) + Len(q.u), r)
      /\ Occurs(q.v, HttpAt(q), r) /\ Occurs(CRLF, HttpAt(q) + Len(q.v), r)
      /\ HeaderAt(q, 1) = HttpAt(q) + Len(q.v) + 2
      /\ \A k \in 1 .. n :
           /\ HeaderAt(q, k) \in Nat
           /\ Occurs(q.hs[k], HeaderAt(q, k), r)
           /\ Occurs(CRLF, HeaderAt(q, k) + Len(q.hs[k]), r)
           /\ HeaderAt(q, k + 1) = HeaderAt(q, k) + Len(q.hs[k]) + 2
      /\ HeaderAt(q, n + 1) \in Nat /\ Occurs(CRLF, HeaderAt(q, n + 1), r)

LEMMA RequestLayout ==
  ASSUME NEW q \in Sent
  PROVE  Layout(q)
<1> DEFINE a == RequestLine(q)
           hs == q.hs
           n == Len(hs)
           l == Lines(hs, n)
           b == a \o l
           c == b \o CRLF
           tail == q.tail
           r == c \o tail
<1>0. r = RequestOf(q)
  BY DEF RequestOf
<1>1. /\ hs \in Seq(Seq(Bytes)) /\ n \in Nat /\ tail \in Seq(Bytes) /\ Len(tail) \in Nat
      /\ q.m \in Seq(Bytes) /\ q.u \in Seq(Bytes) /\ q.v \in Seq(Bytes)
      /\ Len(q.m) \in Nat /\ Len(q.u) \in Nat /\ Len(q.v) \in Nat
      /\ \A k \in 1 .. n : hs[k] \in Seq(Bytes) /\ Len(hs[k]) \in Nat
  BY SentTypes, WordsAndLines
<1>2. a \in Seq(Bytes) /\ Len(a) = LinesAt(q)
  BY RequestLineLayout
<1>3. AllLaidOut(hs, n)
  <2>1. n \in 0 .. n
    BY <1>1
  <2> QED
    BY <1>1, <2>1, LinesLayout, Zenon
<1>4. l \in Seq(Bytes) /\ \A k \in 1 .. n : LaidOut(hs, k, n)
  BY <1>3, Zenon DEF AllLaidOut
<1>5. /\ UrlAt(q) \in Nat /\ HttpAt(q) \in Nat /\ LinesAt(q) \in Nat
      /\ UrlAt(q) + Len(q.u) \in Nat /\ HttpAt(q) + Len(q.v) \in Nat
      /\ LinesAt(q) = HttpAt(q) + Len(q.v) + 2
  <2> DEFINE lm == Len(q.m)
             lu == Len(q.u)
             lv == Len(q.v)
  <2>1. lm \in Nat /\ lu \in Nat /\ lv \in Nat
    BY <1>1, Zenon
  <2>2. /\ UrlAt(q) = lm + 1 /\ HttpAt(q) = UrlAt(q) + lu + 1
        /\ LinesAt(q) = HttpAt(q) + lv + 2
    BY DEF UrlAt, HttpAt, LinesAt
  <2> HIDE DEF lm, lu, lv
  <2>3. /\ UrlAt(q) \in Nat /\ HttpAt(q) \in Nat /\ LinesAt(q) \in Nat
        /\ UrlAt(q) + lu \in Nat /\ HttpAt(q) + lv \in Nat
    BY <2>1, <2>2
  <2> QED
    BY <2>2, <2>3 DEF lu, lv
<1>6. /\ HeaderAt(q, 1) = LinesAt(q) /\ HeaderAt(q, n + 1) = LinesAt(q) + Len(l)
  <2>1. Lines(hs, 0) = <<>> /\ Len(<<>>) = 0 /\ 1 - 1 = 0 /\ (n + 1) - 1 = n
    BY <1>1, OneLineMore
  <2> QED
    BY <1>5, <2>1 DEF HeaderAt
<1> HIDE DEF a, l, b, c, r, hs, n, tail
<1>7. /\ b \in Seq(Bytes) /\ Len(b) = Len(a) + Len(l)
      /\ \A s \in Seq(Bytes), at \in Nat : Occurs(s, at, a) => Occurs(s, at, b)
      /\ \A s \in Seq(Bytes), at \in Nat : Occurs(s, at, l) => Occurs(s, Len(a) + at, b)
  BY <1>2, <1>4, Joined, OccursShifted, Zenon DEF b
<1>8. /\ c \in Seq(Bytes) /\ Len(c) = Len(b) + Len(CRLF) /\ Occurs(CRLF, Len(b), c)
      /\ \A s \in Seq(Bytes), at \in Nat : Occurs(s, at, b) => Occurs(s, at, c)
  BY <1>7, CRLFType, Joined, Zenon DEF c
<1>9. /\ r \in Seq(Bytes) /\ Len(r) = Len(c) + Len(tail)
      /\ \A s \in Seq(Bytes), at \in Nat : Occurs(s, at, c) => Occurs(s, at, r)
  BY <1>1, <1>8, Joined, Zenon DEF r
<1>10. /\ Len(l) \in Nat /\ Len(b) = HeaderAt(q, n + 1) /\ HeaderAt(q, n + 1) \in Nat
       /\ Len(r) = HeaderAt(q, n + 1) + 2 + Len(tail)
  BY <1>1, <1>2, <1>4, <1>5, <1>6, <1>7, <1>8, <1>9, BytesLength, CRLFType
<1>11. /\ \A s \in Seq(Bytes), at \in Nat : Occurs(s, at, a) => Occurs(s, at, r)
       /\ \A s \in Seq(Bytes), at \in Nat : Occurs(s, at, l) => Occurs(s, Len(a) + at, r)
  <2>1. \A at \in Nat : Len(a) + at \in Nat
    BY <1>2, <1>5
  <2> QED
    BY <1>7, <1>8, <1>9, <2>1, Zenon
<1>12. Occurs(CRLF, HeaderAt(q, n + 1), r)
  BY <1>8, <1>9, <1>10, CRLFType
<1>13. /\ Occurs(q.m, 0, r) /\ Occurs(BLANK, Len(q.m), r)
       /\ Occurs(q.u, UrlAt(q), r) /\ Occurs(BLANK, UrlAt(q) + Len(q.u), r)
       /\ Occurs(q.v, HttpAt(q), r) /\ Occurs(CRLF, HttpAt(q) + Len(q.v), r)
  <2>1. /\ Occurs(q.m, 0, a) /\ Occurs(BLANK, Len(q.m), a)
        /\ Occurs(q.u, UrlAt(q), a) /\ Occurs(BLANK, UrlAt(q) + Len(q.u), a)
        /\ Occurs(q.v, HttpAt(q), a) /\ Occurs(CRLF, HttpAt(q) + Len(q.v), a)
    BY RequestLineLayout, Zenon DEF a
  <2>2. 0 \in Nat
    OBVIOUS
  <2> QED
    BY <1>1, <1>5, <1>11, <2>1, <2>2, BlankType, CRLFType, Zenon
<1>14. ASSUME NEW k \in 1 .. n
       PROVE  /\ HeaderAt(q, k) \in Nat
              /\ Occurs(hs[k], HeaderAt(q, k), r)
              /\ Occurs(CRLF, HeaderAt(q, k) + Len(hs[k]), r)
              /\ HeaderAt(q, k + 1) = HeaderAt(q, k) + Len(hs[k]) + 2
  <2> DEFINE before == Len(Lines(hs, k - 1))
             upto == Len(Lines(hs, k))
             length == Len(hs[k])
  <2>1. /\ Lines(hs, k - 1) \in Seq(Bytes) /\ upto = before + length + 2
        /\ Occurs(hs[k], before, l) /\ Occurs(CRLF, before + length, l)
    BY <1>4, Zenon DEF LaidOut, l
  <2>2. before \in Nat /\ length \in Nat
    BY <1>1, <2>1, BytesLength, Zenon
  <2>3. HeaderAt(q, k) = LinesAt(q) + before
    BY DEF HeaderAt, hs
  <2>4. HeaderAt(q, k + 1) = LinesAt(q) + upto
    <3>1. (k + 1) - 1 = k
      BY <1>1
    <3> QED
      BY <3>1 DEF HeaderAt, hs
  <2>a. LinesAt(q) \in Nat /\ upto = before + length + 2
    BY <1>5, <2>1, Zenon
  <2> HIDE DEF before, upto, length
  <2>5. /\ before + length \in Nat /\ HeaderAt(q, k) \in Nat
        /\ LinesAt(q) + (before + length) = HeaderAt(q, k) + length
        /\ HeaderAt(q, k + 1) = HeaderAt(q, k) + length + 2
    BY <2>a, <2>2, <2>3, <2>4
  <2>6. /\ Occurs(hs[k], LinesAt(q) + before, r)
        /\ Occurs(CRLF, LinesAt(q) + (before + length), r)
    BY <1>1, <1>2, <1>11, <2>1, <2>2, <2>5, CRLFType
  <2> QED
    BY <2>3, <2>5, <2>6 DEF length
<1> QED
  BY <1>0, <1>5, <1>6, <1>9, <1>10, <1>12, <1>13, <1>14 DEF Layout, hs, n, tail

\* The lines that Parse takes for headers: of a message without headers the empty line
\* at its end, and behind it whatever follows, of which nothing is said.
LinesSeen(q) == IF q.hs = <<>> THEN << <<>> >> ELSE q.hs

\* Where those lines are in the request.
LEMMA HeaderLayout ==
  ASSUME NEW q \in Sent
  PROVE  /\ Len(LinesSeen(q)) \in Nat \ {0}
         /\ q.hs = <<>> => Len(LinesSeen(q)) = 1
         /\ q.hs # <<>> => /\ Occurs(CRLF, HeaderAt(q, Len(LinesSeen(q)) + 1), RequestOf(q))
                           /\ HeaderAt(q, Len(LinesSeen(q)) + 1) \in Nat
                           /\ Len(RequestOf(q))
                                = HeaderAt(q, Len(LinesSeen(q)) + 1) + 2 + Len(q.tail)
                           /\ \A k \in 1 .. Len(LinesSeen(q)) :
                                /\ Len(LinesSeen(q)[k]) # 0
                                /\ HeaderAt(q, k + 1) \in Nat
                                /\ HeaderAt(q, k + 1)
                                     = HeaderAt(q, k) + Len(LinesSeen(q)[k]) + 2
         /\ \A k \in 1 .. Len(LinesSeen(q)) :
              /\ LinesSeen(q)[k] \in Line /\ HeaderAt(q, k) \in Nat
              /\ Len(LinesSeen(q)[k]) \in Nat
              /\ Occurs(LinesSeen(q)[k], HeaderAt(q, k), RequestOf(q))
              /\ Occurs(CRLF, HeaderAt(q, k) + Len(LinesSeen(q)[k]), RequestOf(q))
<1> DEFINE r == RequestOf(q)
           hs == q.hs
           n == Len(hs)
<1>1. /\ n \in Nat /\ Len(q.tail) \in Nat
      /\ \A k \in 1 .. n : hs[k] \in Line /\ Len(hs[k]) \in Nat \ {0}
  BY SentTypes, Zenon
<1>2. /\ r \in Seq(Bytes) /\ Len(r) = HeaderAt(q, n + 1) + 2 + Len(q.tail)
      /\ HeaderAt(q, n + 1) \in Nat /\ Occurs(CRLF, HeaderAt(q, n + 1), r)
      /\ \A k \in 1 .. n :
           /\ HeaderAt(q, k) \in Nat
           /\ Occurs(hs[k], HeaderAt(q, k), r)
           /\ Occurs(CRLF, HeaderAt(q, k) + Len(hs[k]), r)
           /\ HeaderAt(q, k + 1) = HeaderAt(q, k) + Len(hs[k]) + 2
  BY RequestLayout, Zenon DEF Layout
<1>3. CASE hs = <<>>
  <2>1. /\ LinesSeen(q) = << <<>> >> /\ Len(LinesSeen(q)) = 1 /\ LinesSeen(q)[1] = <<>>
        /\ n = 0 /\ Len(<<>>) = 0 /\ <<>> \in Line
    BY <1>3 DEF LinesSeen, Line
  <2>3. /\ HeaderAt(q, 1) \in Nat /\ Occurs(CRLF, HeaderAt(q, 1), r)
        /\ Len(r) = HeaderAt(q, 1) + 2 + Len(q.tail)
    <3>1. n + 1 = 1
      BY <2>1
    <3> QED
      BY <1>2, <3>1, Zenon
  <2>4. Occurs(<<>>, HeaderAt(q, 1), r)
    <3>1. Len(<<>>) = 0
      OBVIOUS
    <3> DEFINE lr == Len(r)
               lt == Len(q.tail)
               at == HeaderAt(q, 1)
    <3>2. lt \in Nat /\ at \in Nat /\ lr = at + 2 + lt
      BY <1>1, <2>3, Zenon
    <3> HIDE DEF r, lr, lt, at
    <3>3. at + 0 <= lr
      BY <3>2
    <3> QED
      BY <3>1, <3>3 DEF Occurs, lr, at
  <2>5. HeaderAt(q, 1) + 0 = HeaderAt(q, 1)
    BY <2>3
  <2>6. ASSUME NEW k \in 1 .. Len(LinesSeen(q)) PROVE k = 1
    BY <2>1
  <2> QED
    BY <1>3, <2>1, <2>3, <2>4, <2>5, <2>6
<1>4. CASE hs # <<>>
  <2>1. LinesSeen(q) = hs /\ n # 0
    <3>1. hs \in Seq(Seq(Bytes))
      BY SentTypes
    <3> QED
      BY <1>4, <3>1, EmptySeq DEF LinesSeen
  <2>2. \A k \in 1 .. n : HeaderAt(q, k + 1) \in Nat
    <3> SUFFICES ASSUME NEW k \in 1 .. n PROVE HeaderAt(q, k + 1) \in Nat
      OBVIOUS
    <3> DEFINE h == HeaderAt(q, k)
               h1 == HeaderAt(q, k + 1)
               length == Len(hs[k])
    <3>1. h \in Nat /\ length \in Nat /\ h1 = h + length + 2
      BY <1>1, <1>2
    <3> HIDE DEF h, h1, length
    <3>2. h1 \in Nat
      BY <3>1
    <3> QED
      BY <3>2 DEF h1
  <2> HIDE DEF n, hs
  <2> QED
    BY <1>1, <1>2, <1>4, <2>1, <2>2 DEF n, hs
<1> QED
  BY <1>3, <1>4

-----------------------------------------------------------------------------
(* How far the parser is in a message. *)

PieceOf(s, at) == [start |-> at, length |-> Len(s)]

\* The parser is in the piece s, which begins at at, or has its carriage return.
ReadingWord(s, at) ==
  start = at /\ pos \in at .. at + Len(s) /\ pieceLen = pos - at
ReadingLine(s, at) ==
  \/ ReadingWord(s, at)
  \/ start = at /\ pos = at + Len(s) + 1 /\ pieceLen = Len(s)

\* What was cut off so far.
LineRead(q) ==
  /\ status \notin {"START", "METHOD"} => method = PieceOf(q.m, 0)
  /\ status \notin {"START", "METHOD", "URL"} => url = PieceOf(q.u, UrlAt(q))
  /\ status \notin {"START", "METHOD", "URL", "HTTP"} => http = PieceOf(q.v, HttpAt(q))
  /\ status \in {"START", "METHOD", "URL", "HTTP"} => headers = <<>>

HeadersRead(q) ==
  q.hs # <<>> =>
    /\ Len(headers) <= Len(LinesSeen(q))
    /\ \A i \in 1 .. Len(headers) : headers[i] = PieceOf(LinesSeen(q)[i], HeaderAt(q, i))

\* Behind the end of a message without headers.
RunsOn(q, k) == q.hs = <<>> /\ k # 0

\* Behind the k-th header line.
AtHeader(q, k) ==
  \/ k < Len(LinesSeen(q)) /\ ReadingLine(LinesSeen(q)[k + 1], HeaderAt(q, k + 1))
  \/ RunsOn(q, k)

AtNewline(q, k) ==
  \/ /\ k \in 1 .. Len(LinesSeen(q)) - 1
     /\ pos = HeaderAt(q, k + 1) /\ start = pos /\ pieceLen = 0
  \/ RunsOn(q, k)
  \/ /\ k = Len(LinesSeen(q)) /\ q.hs # <<>>
     /\ pos \in HeaderAt(q, k + 1) .. HeaderAt(q, k + 1) + 1

Position(q) ==
  /\ status # "ERROR"
  /\ status \in {"START", "METHOD"} => ReadingWord(q.m, 0)
  /\ status = "URL" => ReadingWord(q.u, UrlAt(q))
  /\ status = "HTTP" => ReadingLine(q.v, HttpAt(q))
  /\ status = "HEADER" => AtHeader(q, Len(headers))
  /\ status = "HEADER_NEWLINE" => AtNewline(q, Len(headers))
  /\ status = "FINISHED" /\ q.hs # <<>> =>
       /\ Len(headers) = Len(LinesSeen(q))
       /\ pos = HeaderAt(q, Len(LinesSeen(q)) + 1) + 1

MessageRead(q) == LineRead(q) /\ HeadersRead(q) /\ Position(q)

MessagesRead == \A q \in Sent : request = RequestOf(q) => MessageRead(q)

LEMMA CharAt ==
  ASSUME TypeOK, NEW s \in Seq(Bytes), NEW at \in Nat, Occurs(s, at, request),
         at <= pos, pos < at + Len(s)
  PROVE  Char = s[pos - at + 1] /\ pos - at + 1 \in 1 .. Len(s)
<1>1. pos \in Nat /\ Len(request) \in Nat /\ Len(s) \in Nat
  BY NatPos
<1>2. /\ at + Len(s) <= Len(request) /\ \A i \in 1 .. Len(s) : request[at + i] = s[i]
  BY DEF Occurs
<1> DEFINE i == pos - at + 1
<1>3. i \in 1 .. Len(s) /\ at + i = pos + 1 /\ pos < Len(request)
  BY <1>1, <1>2
<1> HIDE DEF i
<1>4. request[at + i] = s[i]
  BY <1>2, <1>3
<1>5. Char = request[pos + 1]
  BY <1>3 DEF Char
<1>6. Char = s[i]
  BY <1>3, <1>4, <1>5
<1> QED
  BY <1>3, <1>6 DEF i

\* A turn of the loop in a word that a blank ends.
LEMMA WordStep ==
  ASSUME TypeOK, NEW s \in Word, NEW at \in Nat,
         Occurs(s, at, request), Occurs(BLANK, at + Len(s), request), ReadingWord(s, at)
  PROVE  /\ Char # "NUL"
         /\ Char = "SP" => Piece = PieceOf(s, at) /\ pos = at + Len(s)
         /\ Char # "SP" /\ Grow => ReadingWord(s, at)'
<1>1. s \in Seq(Bytes) /\ Len(s) \in Nat /\ pos \in Nat
  BY WordsAndLines, BytesLength, NatPos
<1>2. start = at /\ pos \in at .. at + Len(s) /\ pieceLen = pos - at
  BY DEF ReadingWord
<1>3. CASE pos < at + Len(s)
  <2>1. Char = s[pos - at + 1] /\ pos - at + 1 \in 1 .. Len(s)
    BY <1>1, <1>2, <1>3, CharAt
  <2>2. \A i \in 1 .. Len(s) : s[i] \in Bytes \ {"SP", "NUL"}
    BY DEF Word
  <2>3. Char \notin {"SP", "NUL"}
    BY <2>1, <2>2
  <2>4. Grow => ReadingWord(s, at)'
    BY <1>1, <1>2, <1>3 DEF Grow, ReadingWord
  <2> QED
    BY <2>3, <2>4
<1>4. CASE pos = at + Len(s)
  <2>1. at + Len(s) \in Nat /\ at + Len(s) <= pos /\ pos < (at + Len(s)) + Len(BLANK)
        /\ pos - (at + Len(s)) + 1 = 1
    BY <1>1, <1>4, BlankType
  <2>2. Char = "SP"
    BY <2>1, BlankType, CharAt
  <2>3. Piece = PieceOf(s, at)
    BY <1>1, <1>2, <1>4 DEF Piece, PieceOf
  <2> QED
    BY <1>4, <2>2, <2>3
<1> QED
  BY <1>1, <1>2, <1>3, <1>4

\* A turn of the loop in a line or its CRLF.
LEMMA LineStep ==
  ASSUME TypeOK, NEW s \in Line, NEW at \in Nat,
         Occurs(s, at, request), Occurs(CRLF, at + Len(s), request), ReadingLine(s, at)
  PROVE  /\ Char # "NUL"
         /\ Char = "LF" => Piece = PieceOf(s, at) /\ pos = at + Len(s) + 1
         /\ Char = "CR" /\ Skip => ReadingLine(s, at)'
         /\ Char \notin {"CR", "LF"} /\ Grow => ReadingLine(s, at)'
<1>1. s \in Seq(Bytes) /\ Len(s) \in Nat /\ pos \in Nat
  BY WordsAndLines, BytesLength, NatPos
<1>2. CASE ReadingWord(s, at) /\ pos < at + Len(s)
  <2>0. start = at /\ pos \in at .. at + Len(s) /\ pieceLen = pos - at
    BY <1>2 DEF ReadingWord
  <2>1. Char = s[pos - at + 1] /\ pos - at + 1 \in 1 .. Len(s)
    BY <1>1, <1>2, <2>0, CharAt
  <2>2. \A i \in 1 .. Len(s) : s[i] \in Bytes \ {"CR", "LF", "NUL"}
    BY DEF Line
  <2>3. Char \notin {"CR", "LF", "NUL"}
    BY <2>1, <2>2
  <2>4. Grow => ReadingLine(s, at)'
    BY <1>1, <1>2, <2>0 DEF Grow, ReadingLine, ReadingWord
  <2> QED
    BY <2>3, <2>4
<1>3. CASE ReadingWord(s, at) /\ pos = at + Len(s)
  <2>0. start = at /\ pieceLen = Len(s)
    BY <1>1, <1>3 DEF ReadingWord
  <2>1. at + Len(s) \in Nat /\ at + Len(s) <= pos /\ pos < (at + Len(s)) + Len(CRLF)
        /\ pos - (at + Len(s)) + 1 = 1
    BY <1>1, <1>3, CRLFType
  <2>2. Char = "CR"
    BY <2>1, CRLFType, CharAt
  <2>3. Skip => ReadingLine(s, at)'
    BY <1>1, <1>3, <2>0 DEF Skip, ReadingLine
  <2> QED
    BY <2>2, <2>3
<1>4. CASE start = at /\ pos = at + Len(s) + 1 /\ pieceLen = Len(s)
  <2>1. at + Len(s) \in Nat /\ at + Len(s) <= pos /\ pos < (at + Len(s)) + Len(CRLF)
        /\ pos - (at + Len(s)) + 1 = 2
    BY <1>1, <1>4, CRLFType
  <2>2. Char = "LF"
    BY <2>1, CRLFType, CharAt
  <2>3. Piece = PieceOf(s, at)
    BY <1>4 DEF Piece, PieceOf
  <2> QED
    BY <1>4, <2>2, <2>3
<1> QED
  BY <1>1, <1>2, <1>3, <1>4 DEF ReadingLine, ReadingWord

-----------------------------------------------------------------------------
(* What every turn of the loop does in a message. *)

\* The next piece begins behind the byte that ended this one.
LEMMA NextPiece ==
  ASSUME NEW s \in Seq(Bytes), NEW at \in Nat, at = pos + 1, NEW next, Cut(next)
  PROVE  ReadingWord(s, at)'
<1>1. Len(s) \in Nat
  BY BytesLength
<1>2. pos' = at /\ start' = at /\ pieceLen' = 0
  BY DEF Cut
<1> QED
  BY <1>1, <1>2 DEF ReadingWord

LEMMA StartFollows ==
  ASSUME NEW q \in Sent, MessageRead(q), Start
  PROVE  MessageRead(q)'
<1>1. status = "START" /\ status' = "METHOD"
  BY DEF Start
<1>2. UNCHANGED <<pos, start, pieceLen, method, url, http, headers>>
  BY DEF Start
<1>3. LineRead(q)'
  BY <1>1, <1>2 DEF MessageRead, LineRead
<1>4. HeadersRead(q)'
  BY <1>2 DEF MessageRead, HeadersRead
<1>5. Position(q)'
  BY <1>1, <1>2 DEF MessageRead, Position, ReadingWord
<1> QED
  BY <1>3, <1>4, <1>5 DEF MessageRead

LEMMA MethodFollows ==
  ASSUME TypeOK, NEW q \in Sent, request = RequestOf(q), MessageRead(q), Method
  PROVE  MessageRead(q)'
<1>1. status = "METHOD" /\ UNCHANGED <<url, http, headers>>
  BY DEF Method
<1>2. /\ q.m \in Word /\ q.m \in Seq(Bytes) /\ q.u \in Seq(Bytes)
      /\ Len(q.m) \in Nat /\ 0 + Len(q.m) = Len(q.m) /\ UrlAt(q) = Len(q.m) + 1
  BY SentAssumption, SentTypes DEF UrlAt
<1>3. Occurs(q.m, 0, request) /\ Occurs(BLANK, Len(q.m), request)
  BY RequestLayout, Zenon DEF Layout
<1>4. ReadingWord(q.m, 0)
  BY <1>1 DEF MessageRead, Position
<1>5. /\ Char # "NUL"
      /\ Char = "SP" => Piece = PieceOf(q.m, 0) /\ pos = 0 + Len(q.m)
      /\ Char # "SP" /\ Grow => ReadingWord(q.m, 0)'
  BY <1>2, <1>3, <1>4, WordStep
<1>6. HeadersRead(q)'
  BY <1>1 DEF MessageRead, HeadersRead
<1>7. CASE Char = "SP" /\ Cut("URL") /\ method' = Piece
  <2>1. status' = "URL" /\ method' = PieceOf(q.m, 0)
    BY <1>5, <1>7 DEF Cut
  <2>2. ReadingWord(q.u, UrlAt(q))'
    <3>1. UrlAt(q) \in Nat /\ UrlAt(q) = pos + 1
      BY <1>2, <1>5, <1>7
    <3> QED
      BY <1>2, <1>7, <3>1, NextPiece
  <2>3. LineRead(q)'
    BY <1>1, <2>1 DEF MessageRead, LineRead
  <2> QED
    BY <1>6, <2>1, <2>2, <2>3 DEF MessageRead, Position
<1>8. CASE Char # "SP" /\ Grow /\ UNCHANGED method
  <2>1. status' = "METHOD" /\ ReadingWord(q.m, 0)'
    BY <1>1, <1>5, <1>8 DEF Grow
  <2>2. LineRead(q)'
    BY <1>1, <1>8, <2>1 DEF MessageRead, LineRead
  <2> QED
    BY <1>6, <2>1, <2>2 DEF MessageRead, Position
<1> QED
  BY <1>5, <1>7, <1>8 DEF Method

LEMMA UrlFollows ==
  ASSUME TypeOK, NEW q \in Sent, request = RequestOf(q), MessageRead(q), Url
  PROVE  MessageRead(q)'
<1>1. status = "URL" /\ UNCHANGED <<method, http, headers>>
  BY DEF Url
<1>2. /\ q.u \in Word /\ q.u \in Seq(Bytes) /\ q.v \in Seq(Bytes)
      /\ Len(q.u) \in Nat /\ UrlAt(q) \in Nat /\ HttpAt(q) = UrlAt(q) + Len(q.u) + 1
  BY SentAssumption, SentTypes DEF UrlAt, HttpAt
<1>3. Occurs(q.u, UrlAt(q), request) /\ Occurs(BLANK, UrlAt(q) + Len(q.u), request)
  BY RequestLayout, Zenon DEF Layout
<1>4. ReadingWord(q.u, UrlAt(q))
  BY <1>1 DEF MessageRead, Position
<1>5. /\ Char # "NUL"
      /\ Char = "SP" => Piece = PieceOf(q.u, UrlAt(q)) /\ pos = UrlAt(q) + Len(q.u)
      /\ Char # "SP" /\ Grow => ReadingWord(q.u, UrlAt(q))'
  BY <1>2, <1>3, <1>4, WordStep
<1>6. HeadersRead(q)'
  BY <1>1 DEF MessageRead, HeadersRead
<1>7. CASE Char = "SP" /\ Cut("HTTP") /\ url' = Piece
  <2>1. status' = "HTTP" /\ url' = PieceOf(q.u, UrlAt(q))
    BY <1>5, <1>7 DEF Cut
  <2>2. ReadingLine(q.v, HttpAt(q))'
    <3>1. HttpAt(q) \in Nat /\ HttpAt(q) = pos + 1
      BY <1>2, <1>5, <1>7
    <3>2. ReadingWord(q.v, HttpAt(q))'
      BY <1>2, <1>7, <3>1, NextPiece
    <3> QED
      BY <3>2 DEF ReadingLine
  <2>3. LineRead(q)'
    BY <1>1, <2>1 DEF MessageRead, LineRead
  <2> QED
    BY <1>6, <2>1, <2>2, <2>3 DEF MessageRead, Position
<1>8. CASE Char # "SP" /\ Grow /\ UNCHANGED url
  <2>1. status' = "URL" /\ ReadingWord(q.u, UrlAt(q))'
    BY <1>1, <1>5, <1>8 DEF Grow
  <2>2. LineRead(q)'
    BY <1>1, <1>8, <2>1 DEF MessageRead, LineRead
  <2> QED
    BY <1>6, <2>1, <2>2 DEF MessageRead, Position
<1> QED
  BY <1>5, <1>7, <1>8 DEF Url

LEMMA HttpFollows ==
  ASSUME TypeOK, NEW q \in Sent, request = RequestOf(q), MessageRead(q), Http
  PROVE  MessageRead(q)'
<1>1. status = "HTTP" /\ UNCHANGED <<method, url, headers>>
  BY DEF Http
<1>2. q.v \in Line /\ q.v \in Seq(Bytes) /\ Len(q.v) \in Nat /\ HttpAt(q) \in Nat
  <2>1. q.v \in Line /\ q.v \in Seq(Bytes)
    BY SentAssumption, SentTypes
  <2> DEFINE m == Len(q.m)
             u == Len(q.u)
  <2>2. m \in Nat /\ u \in Nat /\ Len(q.v) \in Nat
    BY SentTypes, Zenon
  <2>3. HttpAt(q) = m + 1 + u + 1
    BY DEF UrlAt, HttpAt
  <2> HIDE DEF m, u
  <2> QED
    BY <2>1, <2>2, <2>3
<1>3. /\ Occurs(q.v, HttpAt(q), request) /\ Occurs(CRLF, HttpAt(q) + Len(q.v), request)
      /\ HeaderAt(q, 1) = HttpAt(q) + Len(q.v) + 2
  BY RequestLayout, Zenon DEF Layout
<1>4. ReadingLine(q.v, HttpAt(q))
  BY <1>1 DEF MessageRead, Position
<1>5. /\ Char # "NUL"
      /\ Char = "LF" => Piece = PieceOf(q.v, HttpAt(q)) /\ pos = HttpAt(q) + Len(q.v) + 1
      /\ Char = "CR" /\ Skip => ReadingLine(q.v, HttpAt(q))'
      /\ Char \notin {"CR", "LF"} /\ Grow => ReadingLine(q.v, HttpAt(q))'
  BY <1>2, <1>3, <1>4, LineStep
<1>6. HeadersRead(q)'
  BY <1>1 DEF MessageRead, HeadersRead
<1>7. CASE Char = "LF" /\ Cut("HEADER") /\ http' = Piece
  <2>1. status' = "HEADER" /\ http' = PieceOf(q.v, HttpAt(q))
    BY <1>5, <1>7 DEF Cut
  <2>2. LineRead(q)'
    BY <1>1, <2>1 DEF MessageRead, LineRead
  <2>3. headers' = <<>> /\ Len(headers') = 0 /\ 0 + 1 = 1
    BY <1>1 DEF MessageRead, LineRead
  <2>4. /\ 0 < Len(LinesSeen(q)) /\ LinesSeen(q)[1] \in Line
        /\ HeaderAt(q, 1) \in Nat
    <3>1. Len(LinesSeen(q)) \in Nat \ {0}
      BY HeaderLayout
    <3>2. 1 \in 1 .. Len(LinesSeen(q)) /\ 0 < Len(LinesSeen(q))
      BY <3>1
    <3> QED
      BY <3>2, HeaderLayout, Zenon
  <2>5. ReadingWord(LinesSeen(q)[1], HeaderAt(q, 1))'
    <3>1. HeaderAt(q, 1) = pos + 1
      BY <1>2, <1>3, <1>5, <1>7
    <3>2. LinesSeen(q)[1] \in Seq(Bytes)
      BY <2>4, WordsAndLines
    <3> QED
      BY <1>7, <2>4, <3>1, <3>2, NextPiece
  <2>6. AtHeader(q, Len(headers))'
    BY <2>3, <2>4, <2>5 DEF AtHeader, ReadingLine
  <2> QED
    BY <1>6, <2>1, <2>2, <2>6 DEF MessageRead, Position
<1>8. CASE UNCHANGED http /\ ((Char = "CR" /\ Skip) \/ (Char \notin {"CR", "LF"} /\ Grow))
  <2>1. status' = "HTTP" /\ ReadingLine(q.v, HttpAt(q))'
    BY <1>1, <1>5, <1>8 DEF Grow, Skip
  <2>2. LineRead(q)'
    BY <1>1, <1>8, <2>1 DEF MessageRead, LineRead
  <2> QED
    BY <1>6, <2>1, <2>2 DEF MessageRead, Position
<1>9. \/ Char = "LF" /\ Cut("HEADER") /\ http' = Piece
      \/ UNCHANGED http /\ ((Char = "CR" /\ Skip) \/ (Char \notin {"CR", "LF"} /\ Grow))
  BY <1>5 DEF Http
<1> QED
  BY <1>7, <1>8, <1>9

\* A header line that was read.
LEMMA HeaderCut ==
  ASSUME TypeOK, NEW q \in Sent, request = RequestOf(q), MessageRead(q),
         status = "HEADER", UNCHANGED <<request, method, url, http>>,
         Cut("HEADER_NEWLINE"), headers' = Append(headers, Piece),
         NEW k \in Nat, k = Len(headers), k < Len(LinesSeen(q)),
         Piece = PieceOf(LinesSeen(q)[k + 1], HeaderAt(q, k + 1)),
         pos = HeaderAt(q, k + 1) + Len(LinesSeen(q)[k + 1]) + 1
  PROVE  MessageRead(q)'
<1> DEFINE lines == LinesSeen(q)
           n == Len(lines)
           length == Len(lines[k + 1])
           at == HeaderAt(q, k + 1)
           next == HeaderAt(q, (k + 1) + 1)
<1>1. /\ n \in Nat \ {0} /\ k + 1 \in 1 .. n
  BY HeaderLayout
<1>2. /\ at \in Nat /\ length \in Nat
      /\ q.hs # <<>> => next \in Nat /\ next = at + length + 2
  BY <1>1, HeaderLayout, Zenon
<1>4. /\ status' = "HEADER_NEWLINE" /\ pos' = pos + 1 /\ start' = pos + 1 /\ pieceLen' = 0
  BY DEF Cut
<1>5. /\ Len(headers') = k + 1 /\ headers'[k + 1] = Piece
      /\ \A i \in 1 .. k : headers'[i] = headers[i]
  <2> DEFINE longer == Append(headers, Piece)
  <2>1. headers \in Seq(PieceType)
    BY DEF TypeOK
  <2> HIDE DEF Piece
  <2>2. /\ Len(longer) = Len(headers) + 1 /\ longer[Len(headers) + 1] = Piece
        /\ \A i \in 1 .. Len(headers) : longer[i] = headers[i]
    BY <2>1
  <2> QED
    BY <2>2
<1>6. LineRead(q)'
  BY <1>4 DEF MessageRead, LineRead
<1>7. HeadersRead(q)'
  <2> SUFFICES ASSUME q.hs # <<>>
               PROVE  HeadersRead(q)'
    BY DEF HeadersRead
  <2>1. ASSUME NEW i \in 1 .. k + 1
        PROVE  headers'[i] = PieceOf(LinesSeen(q)[i], HeaderAt(q, i))
    <3>1. CASE i = k + 1
      BY <1>5, <3>1
    <3>2. CASE i \in 1 .. k
      BY <1>5, <3>2 DEF MessageRead, HeadersRead
    <3> QED
      BY <3>1, <3>2
  <2>2. k + 1 <= n
    BY <1>1
  <2> QED
    BY <1>5, <2>1, <2>2 DEF HeadersRead
<1>8. AtNewline(q, k + 1)'
  <2>1. CASE q.hs = <<>>
    <3>1. k + 1 # 0
      OBVIOUS
    <3> QED
      BY <2>1, <3>1 DEF AtNewline, RunsOn
  <2>2. CASE q.hs # <<>>
    <3>1. pos' = next /\ start' = pos' /\ pieceLen' = 0 /\ next \in Nat
      <4> HIDE DEF n, length, at, next, lines
      <4>1. pos = at + length + 1
        BY DEF lines, length, at
      <4> QED
        BY <1>2, <1>4, <2>2, <4>1
    <3>2. k + 1 = n \/ k + 1 \in 1 .. n - 1
      BY <1>1
    <3>3. next \in next .. next + 1
      <4> HIDE DEF next
      <4> QED
        BY <3>1
    <3> QED
      BY <2>2, <3>1, <3>2, <3>3 DEF AtNewline
  <2> QED
    BY <2>1, <2>2
<1> QED
  BY <1>4, <1>5, <1>6, <1>7, <1>8 DEF MessageRead, Position

LEMMA HeaderLineFollows ==
  ASSUME TypeOK, NEW q \in Sent, request = RequestOf(q), MessageRead(q), HeaderLine
  PROVE  MessageRead(q)'
<1>0. PICK k \in Nat : k = Len(headers)
  BY DEF TypeOK
<1> DEFINE s == LinesSeen(q)[k + 1]
           at == HeaderAt(q, k + 1)
<1>1. status = "HEADER" /\ UNCHANGED <<request, method, url, http>>
  BY DEF HeaderLine
<1>2. k \in Nat /\ k = Len(headers) /\ Len(LinesSeen(q)) \in Nat
  BY <1>0, HeaderLayout
<1>3. AtHeader(q, k)
  BY <1>1, <1>2 DEF MessageRead, Position
<1>4. CASE k < Len(LinesSeen(q)) /\ ReadingLine(s, at)
  <2>1. k + 1 \in 1 .. Len(LinesSeen(q))
    BY <1>2, <1>4
  <2>2. /\ s \in Line /\ at \in Nat /\ Occurs(s, at, request)
        /\ Occurs(CRLF, at + Len(s), request)
    BY <2>1, HeaderLayout, Zenon
  <2>3. /\ Char # "NUL"
        /\ Char = "LF" => Piece = PieceOf(s, at) /\ pos = at + Len(s) + 1
        /\ Char = "CR" /\ Skip => ReadingLine(s, at)'
        /\ Char \notin {"CR", "LF"} /\ Grow => ReadingLine(s, at)'
    BY <1>4, <2>2, LineStep
  <2>4. CASE Char = "LF" /\ Cut("HEADER_NEWLINE") /\ headers' = Append(headers, Piece)
    BY <1>1, <1>2, <1>4, <2>3, <2>4, HeaderCut
  <2>5. CASE UNCHANGED headers /\ ((Char = "CR" /\ Skip) \/ (Char \notin {"CR", "LF"} /\ Grow))
    <3>1. status' = "HEADER" /\ ReadingLine(s, at)'
      BY <1>1, <2>3, <2>5 DEF Grow, Skip
    <3>2. LineRead(q)' /\ HeadersRead(q)'
      BY <1>1, <2>5, <3>1 DEF MessageRead, LineRead, HeadersRead
    <3>3. AtHeader(q, k)'
      BY <1>4, <2>5, <3>1 DEF AtHeader
    <3>4. headers' = headers /\ Len(headers') = k
      BY <1>2, <2>5
    <3> QED
      BY <3>1, <3>2, <3>3, <3>4 DEF MessageRead, Position
  <2>6. \/ Char = "LF" /\ Cut("HEADER_NEWLINE") /\ headers' = Append(headers, Piece)
        \/ UNCHANGED headers /\ ((Char = "CR" /\ Skip) \/ (Char \notin {"CR", "LF"} /\ Grow))
    BY <2>3 DEF HeaderLine
  <2> QED
    BY <2>4, <2>5, <2>6
<1>5. CASE RunsOn(q, k)
  <2>1. /\ status' \in {"HEADER", "HEADER_NEWLINE", "FINISHED"}
        /\ headers' = headers \/ headers' = Append(headers, Piece)
    BY <1>1 DEF HeaderLine, Finish, Skip, Grow, Cut
  <2>2. Len(headers') # 0
    <3>1. headers \in Seq(PieceType) /\ Len(headers) # 0
      BY <1>2, <1>5 DEF TypeOK, RunsOn
    <3> HIDE DEF Piece
    <3>2. Len(Append(headers, Piece)) = Len(headers) + 1 /\ Len(headers) \in Nat
      BY <3>1
    <3> QED
      BY <2>1, <3>1, <3>2
  <2>3. LineRead(q)' /\ HeadersRead(q)'
    BY <1>1, <1>5, <2>1 DEF MessageRead, LineRead, HeadersRead, RunsOn
  <2>4. RunsOn(q, Len(headers'))
    BY <1>5, <2>2 DEF RunsOn
  <2> QED
    BY <2>1, <2>3, <2>4 DEF MessageRead, Position, AtHeader, AtNewline, RunsOn
<1> QED
  BY <1>3, <1>4, <1>5 DEF AtHeader

LEMMA HeaderNewlineFollows ==
  ASSUME TypeOK, NEW q \in Sent, request = RequestOf(q), MessageRead(q), HeaderNewline
  PROVE  MessageRead(q)'
<1>0. PICK k \in Nat : k = Len(headers)
  BY DEF TypeOK
<1> DEFINE n == Len(LinesSeen(q))
           at == HeaderAt(q, k + 1)
<1>1. status = "HEADER_NEWLINE" /\ UNCHANGED <<request, method, url, http, headers>>
  BY DEF HeaderNewline
<1>2. /\ k \in Nat /\ k = Len(headers) /\ n \in Nat /\ pos \in Nat
      /\ status' \in {"HEADER", "HEADER_NEWLINE", "FINISHED"}
  BY <1>0, <1>1, NatPos, HeaderLayout DEF TypeOK, HeaderNewline, Skip, Finish
<1>3. LineRead(q)' /\ HeadersRead(q)'
  BY <1>1, <1>2 DEF MessageRead, LineRead, HeadersRead
<1>4. AtNewline(q, k)
  BY <1>1, <1>2 DEF MessageRead, Position
<1>5. CASE k \in 1 .. n - 1 /\ pos = at /\ start = pos /\ pieceLen = 0
  <2> DEFINE s == LinesSeen(q)[k + 1]
  <2>1. k + 1 \in 1 .. n /\ k < n /\ n # 1
    <3>1. k \in 1 .. n - 1 /\ n \in Nat /\ k \in Nat
      BY <1>2, <1>5
    <3> HIDE DEF n
    <3> QED
      BY <3>1
  <2>2. q.hs # <<>>
    BY <2>1, HeaderLayout
  <2>3. /\ s \in Line /\ at \in Nat /\ Occurs(s, at, request)
        /\ Len(s) # 0 /\ Len(s) \in Nat
    BY <2>1, <2>2, HeaderLayout, Zenon
  <2>4. Char = s[1] /\ 1 \in 1 .. Len(s)
    <3>1. s \in Seq(Bytes)
      BY <2>3, WordsAndLines
    <3>2. at <= pos /\ pos < at + Len(s) /\ pos - at + 1 = 1
      BY <1>5, <2>3
    <3> QED
      BY <2>3, <3>1, <3>2, CharAt
  <2>5. Char \notin {"CR", "LF"}
    BY <2>3, <2>4 DEF Line
  <2>6. status' = "HEADER" /\ UNCHANGED <<pos, start, pieceLen>>
    BY <2>5 DEF HeaderNewline
  <2>7. ReadingWord(s, at)'
    BY <1>5, <2>3, <2>6 DEF ReadingWord
  <2>8. AtHeader(q, k)'
    BY <1>1, <2>1, <2>7 DEF AtHeader, ReadingLine
  <2> QED
    BY <1>1, <1>2, <1>3, <2>6, <2>8 DEF MessageRead, Position
<1>6. CASE RunsOn(q, k)
  <2>1. RunsOn(q, Len(headers'))
    BY <1>1, <1>2, <1>6
  <2> QED
    BY <1>2, <1>3, <2>1 DEF MessageRead, Position, AtHeader, AtNewline, RunsOn
<1>7. CASE k = n /\ q.hs # <<>> /\ pos \in at .. at + 1
  <2>1. n \in Nat \ {0} /\ n \in 1 .. n
    BY <1>2, HeaderLayout
  <2>2. at \in Nat /\ Occurs(CRLF, at, request)
    BY <1>7, <2>1, HeaderLayout, Zenon
  <2>3. CASE pos = at
    <3>1. at <= pos /\ pos < at + Len(CRLF) /\ pos - at + 1 = 1
      BY <2>2, <2>3, CRLFType
    <3>2. Char = "CR"
      BY <2>2, <3>1, CRLFType, CharAt
    <3>3. status' = "HEADER_NEWLINE" /\ pos' \in at .. at + 1
      BY <1>1, <2>2, <2>3, <3>2 DEF HeaderNewline, Skip
    <3>4. AtNewline(q, k)'
      BY <1>1, <1>7, <3>3 DEF AtNewline
    <3> QED
      BY <1>1, <1>2, <1>3, <3>3, <3>4 DEF MessageRead, Position
  <2>4. CASE pos = at + 1
    <3>1. at <= pos /\ pos < at + Len(CRLF) /\ pos - at + 1 = 2
      BY <2>2, <2>4, CRLFType
    <3>2. Char = "LF"
      BY <2>2, <3>1, CRLFType, CharAt
    <3>3. status' = "FINISHED" /\ pos' = at + 1
      BY <2>4, <3>2 DEF HeaderNewline, Finish
    <3> QED
      BY <1>1, <1>2, <1>3, <1>7, <3>3 DEF MessageRead, Position
  <2> QED
    BY <1>7, <2>2, <2>3, <2>4
<1> QED
  BY <1>4, <1>5, <1>6, <1>7 DEF AtNewline

LEMMA InitMessages == Init => MessagesRead
<1> SUFFICES ASSUME Init, NEW q \in Sent, request = RequestOf(q) PROVE MessageRead(q)
  BY DEF MessagesRead
<1>1. request # <<>>
  <2>1. /\ Len(request) = HeaderAt(q, Len(q.hs) + 1) + 2 + Len(q.tail)
        /\ HeaderAt(q, Len(q.hs) + 1) \in Nat /\ Len(q.tail) \in Nat
    BY RequestLayout, SentTypes, Zenon DEF Layout
  <2>2. Len(request) # 0
    BY <2>1
  <2> QED
    BY <2>2
<1>2. /\ status = "START" /\ pos = 0 /\ start = 0 /\ pieceLen = 0 /\ headers = <<>>
  BY <1>1 DEF Init
<1>3. Len(q.m) \in Nat /\ Len(LinesSeen(q)) \in Nat
  BY SentTypes, HeaderLayout
<1>4. LineRead(q)
  BY <1>2 DEF LineRead
<1>5. HeadersRead(q)
  BY <1>2, <1>3 DEF HeadersRead
<1>6. Position(q)
  BY <1>2, <1>3 DEF Position, ReadingWord
<1> QED
  BY <1>4, <1>5, <1>6 DEF MessageRead

LEMMA NextMessages == ParserInv /\ MessagesRead /\ [Next]_vars => MessagesRead'
<1> SUFFICES ASSUME ParserInv, MessagesRead, [Next]_vars,
                    NEW q \in Sent, request' = RequestOf(q)
             PROVE  MessageRead(q)'
  BY DEF MessagesRead
<1>1. TypeOK /\ request' = request
  BY DEF ParserInv, Next, vars, Start, Method, Url, Http, HeaderLine, HeaderNewline
<1>2. request = RequestOf(q) /\ MessageRead(q)
  BY <1>1 DEF MessagesRead
<1>3. CASE Start
  BY <1>2, <1>3, StartFollows
<1>4. CASE Method
  BY <1>1, <1>2, <1>4, MethodFollows
<1>5. CASE Url
  BY <1>1, <1>2, <1>5, UrlFollows
<1>6. CASE Http
  BY <1>1, <1>2, <1>6, HttpFollows
<1>7. CASE HeaderLine
  BY <1>1, <1>2, <1>7, HeaderLineFollows
<1>8. CASE HeaderNewline
  BY <1>1, <1>2, <1>8, HeaderNewlineFollows
<1>9. CASE UNCHANGED vars
  BY <1>2, <1>9 DEF vars, MessageRead, LineRead, HeadersRead, Position, ReadingWord,
     ReadingLine, AtHeader, AtNewline, RunsOn
<1> QED
  BY <1>3, <1>4, <1>5, <1>6, <1>7, <1>8, <1>9 DEF Next

\* A piece that lies where a part of the message does reads as that part.
LEMMA PieceText ==
  ASSUME TypeOK, NEW s \in Seq(Bytes), NEW at \in Nat, Occurs(s, at, request)
  PROVE  Text(PieceOf(s, at)) = s
<1> DEFINE t == SubSeq(request, at + 1, at + Len(s))
<1>1. /\ request \in Seq(Bytes) /\ Len(s) \in Nat /\ Len(request) \in Nat
      /\ at + Len(s) <= Len(request) /\ \A i \in 1 .. Len(s) : request[at + i] = s[i]
  BY RequestsAssumption, NatPos DEF TypeOK, Occurs
<1>2. /\ at + 1 \in Int /\ at + Len(s) \in Int
      /\ \A i \in at + 1 .. at + Len(s) : request[i] \in Bytes
  <2>1. \A i \in 1 .. Len(request) : request[i] \in Bytes
    BY <1>1
  <2> QED
    BY <1>1, <2>1
<1>3. /\ t \in Seq(Bytes)
      /\ Len(t) = IF at + 1 <= at + Len(s) THEN at + Len(s) - (at + 1) + 1 ELSE 0
      /\ \A i \in 1 .. at + Len(s) - (at + 1) + 1 : t[i] = request[at + 1 + i - 1]
  BY <1>2, SubSeqProperties
<1> HIDE DEF t
<1> DEFINE n == Len(s)
           tn == Len(t)
<1>4. tn = n /\ \A i \in 1 .. n : t[i] = s[i]
  <2>1. n \in Nat
    BY <1>1
  <2>2. tn = IF at + 1 <= at + n THEN at + n - (at + 1) + 1 ELSE 0
    BY <1>3, Zenon
  <2>3. \A i \in 1 .. at + n - (at + 1) + 1 : t[i] = request[at + 1 + i - 1]
    BY <1>3, Zenon
  <2>4. \A i \in 1 .. n : request[at + i] = s[i]
    BY <1>1, Zenon
  <2> HIDE DEF n, tn
  <2>5. tn = n /\ at + n - (at + 1) + 1 = n /\ \A i \in 1 .. n : at + 1 + i - 1 = at + i
    BY <2>1, <2>2
  <2> QED
    BY <2>3, <2>4, <2>5
<1>5. t = s
  BY <1>3, <1>4, SeqEqual
<1> QED
  BY <1>5 DEF t, Text, PieceOf

LEMMA MessagesInvariant == Spec => [](ParserInv /\ MessagesRead)
  BY InitInv, NextInv, InitMessages, NextMessages, PTL DEF Spec

LEMMA MessageParsed ==
  ASSUME TypeOK, NEW q \in Sent, request = RequestOf(q), MessageRead(q), status = "FINISHED"
  PROVE  /\ Text(method) = q.m /\ Text(url) = q.u /\ Text(http) = q.v
         /\ q.hs # <<>> =>
              /\ [i \in DOMAIN headers |-> Text(headers[i])] = q.hs
              /\ pos + 1 + Len(q.tail) = Len(request)
<1>1. /\ q.m \in Seq(Bytes) /\ q.u \in Seq(Bytes) /\ q.v \in Seq(Bytes)
      /\ Len(q.m) \in Nat /\ Len(q.u) \in Nat
  BY SentTypes, Zenon
<1>2. UrlAt(q) \in Nat /\ HttpAt(q) \in Nat
  <2> DEFINE m == Len(q.m)
             u == Len(q.u)
  <2>1. UrlAt(q) = m + 1 /\ HttpAt(q) = m + 1 + u + 1
    BY DEF UrlAt, HttpAt
  <2>2. m \in Nat /\ u \in Nat
    BY <1>1
  <2> HIDE DEF m, u
  <2> QED
    BY <2>1, <2>2
<1>3. /\ Occurs(q.m, 0, request) /\ Occurs(q.u, UrlAt(q), request)
      /\ Occurs(q.v, HttpAt(q), request)
  BY RequestLayout, Zenon DEF Layout
<1>4. /\ method = PieceOf(q.m, 0) /\ url = PieceOf(q.u, UrlAt(q))
      /\ http = PieceOf(q.v, HttpAt(q))
  BY DEF MessageRead, LineRead
<1>5. Text(method) = q.m /\ Text(url) = q.u /\ Text(http) = q.v
  BY <1>1, <1>2, <1>3, <1>4, PieceText
<1> SUFFICES ASSUME q.hs # <<>>
             PROVE  /\ [i \in DOMAIN headers |-> Text(headers[i])] = q.hs
                    /\ pos + 1 + Len(q.tail) = Len(request)
  BY <1>5
<1> DEFINE n == Len(LinesSeen(q))
           texts == [i \in DOMAIN headers |-> Text(headers[i])]
<1>6. /\ n \in Nat /\ DOMAIN headers = 1 .. n
      /\ \A i \in 1 .. n : headers[i] = PieceOf(LinesSeen(q)[i], HeaderAt(q, i))
  <2>1. headers \in Seq(PieceType) /\ Len(headers) = n
    BY DEF TypeOK, MessageRead, Position
  <2> QED
    BY <2>1, HeaderLayout DEF MessageRead, HeadersRead
<1>7. ASSUME NEW i \in 1 .. n PROVE Text(headers[i]) = LinesSeen(q)[i]
  <2>1. /\ LinesSeen(q)[i] \in Line /\ HeaderAt(q, i) \in Nat
        /\ Occurs(LinesSeen(q)[i], HeaderAt(q, i), request)
    BY HeaderLayout, Zenon
  <2>2. LinesSeen(q)[i] \in Seq(Bytes)
    BY <2>1, WordsAndLines
  <2> QED
    BY <1>6, <2>1, <2>2, PieceText
<1>8. LinesSeen(q) \in Seq(Seq(Bytes))
  <2>1. q.hs \in Seq(Seq(Bytes)) /\ <<>> \in Seq(Bytes)
    BY SentTypes
  <2> DEFINE B == Seq(Bytes)
  <2> HIDE DEF B
  <2>2. q.hs \in Seq(B) /\ << <<>> >> \in Seq(B)
    BY <2>1 DEF B
  <2> QED
    BY <2>2 DEF LinesSeen, B
<1>9. LinesSeen(q) = [i \in 1 .. n |-> LinesSeen(q)[i]]
  BY <1>8
<1> HIDE DEF n
<1>10. texts = [i \in 1 .. n |-> LinesSeen(q)[i]]
  BY <1>6, <1>7
<1>11. texts = q.hs
  BY <1>9, <1>10 DEF LinesSeen
<1>12. pos + 1 + Len(q.tail) = Len(request)
  <2> DEFINE end == HeaderAt(q, n + 1)
             lt == Len(q.tail)
             lr == Len(request)
  <2>1. end \in Nat /\ lr = end + 2 + lt /\ lt \in Nat
    BY HeaderLayout, SentTypes, Zenon DEF n
  <2>2. pos = end + 1
    BY DEF MessageRead, Position, n
  <2> HIDE DEF end, lt, lr
  <2>3. pos + 1 + lt = lr
    BY <2>1, <2>2
  <2> QED
    BY <2>3 DEF lt, lr
<1> QED
  BY <1>11, <1>12

\* Whatever is sent behind them, messages are cut into method, URL and version, and
\* those with headers, any number of any length, into these too, with Parse stopping
\* on their last byte (HttpRequestParser::Parse).
THEOREM MessagesParsed == Spec => []ParsesMessages
<1>1. ParserInv /\ MessagesRead => ParsesMessages
  <2> SUFFICES ASSUME ParserInv, MessagesRead, status = "FINISHED",
                      NEW q \in Sent, request = RequestOf(q)
               PROVE  /\ Text(method) = q.m /\ Text(url) = q.u /\ Text(http) = q.v
                      /\ q.hs # <<>> =>
                           /\ [i \in DOMAIN headers |-> Text(headers[i])] = q.hs
                           /\ pos + 1 + Len(q.tail) = Len(request)
    BY DEF ParsesMessages
  <2>1. TypeOK /\ MessageRead(q)
    BY DEF ParserInv, MessagesRead
  <2> QED
    BY <2>1, MessageParsed
<1> QED
  BY <1>1, MessagesInvariant, PTL

=============================================================================
