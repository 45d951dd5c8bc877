---------------------------- MODULE HttpMessages ----------------------------
(***************************************************************************)
(* Messages as clients send them to HttpRequestParser::Parse, and what it  *)
(* should cut them into.                                                   *)
(***************************************************************************)
EXTENDS HttpParser

CONSTANT Sent   \* messages and what is sent behind them

\* The request line ends its words with blanks and its version with CRLF; a header
\* is a line that is not empty.
Word == Seq(Bytes \ {"SP", "NUL"})
Line == Seq(Bytes \ {"CR", "LF", "NUL"})

ASSUME SentAssumption ==
  \A q \in Sent :
    /\ q.m \in Word /\ q.u \in Word /\ q.v \in Line
    /\ q.hs \in Seq(Line \ {<<>>})
    /\ q.tail \in Seq(Bytes)

CRLF == <<"CR", "LF">>

\* The first n headers with their ends of line.
AddLine(lines, h) == lines \o h \o CRLF
Lines(hs, n) ==
  LET lines[i \in 0 .. n] ==
        IF i = 0 THEN <<>> ELSE AddLine(lines[i - 1], hs[i])
  IN  lines[n]

\* The request line, the headers, an empty line.
RequestLine(q) == q.m \o <<"SP">> \o q.u \o <<"SP">> \o q.v \o CRLF
RequestOf(q) == RequestLine(q) \o Lines(q.hs, Len(q.hs)) \o CRLF \o q.tail

Text(p) == SubSeq(request, p.start + 1, p.start + p.length)

\* Parse cuts a message into its method, URL and version, and a message that has
\* headers into its headers too, whatever follows it: it then stops on the last byte
\* of the message, although it finds all ends in one pass and leaves carriage returns
\* out of the pieces' lengths (HttpRequestParser::Parse).  It promises no more of
\* a message without headers: only a header line leads to HEADER_NEWLINE, so that
\* Parse takes the empty line for a header and runs on into what follows.
ParsesMessages ==
  status = "FINISHED" =>
    \A q \in Sent : request = RequestOf(q) =>
      /\ Text(method) = q.m /\ Text(url) = q.u /\ Text(http) = q.v
      /\ q.hs # <<>> =>
           /\ [i \in DOMAIN headers |-> Text(headers[i])] = q.hs
           /\ pos + 1 + Len(q.tail) = Len(request)

=============================================================================
