----------------------------- MODULE HttpParser -----------------------------
(***************************************************************************)
(* HttpRequestParser::Parse (src/server_plugin/http/request.cpp): one run  *)
(* of the loop over a request's bytes, a step per turn of the loop.        *)
(*                                                                         *)
(* A byte is its class: a blank, a carriage return, a line feed, a zero or *)
(* another byte.  Positions count from 0, as in the code.  HttpHandler     *)
(* always calls Parse on a new HttpRequest, so a run begins in START at 0. *)
(* No path leads to MORE_DATA, in which the loop would spin.               *)
(***************************************************************************)
EXTENDS Integers, Sequences

CONSTANT Requests   \* the requests that Parse is run on

Bytes == {"x", "y", "SP", "CR", "LF", "NUL"}

ASSUME RequestsAssumption == Requests \subseteq Seq(Bytes)

VARIABLES
  request,    \* requestString
  status,     \* the ParseStatus
  pos,        \* currentPos
  start,      \* where the piece being read starts
  pieceLen,   \* its length so far
  method, url, http,   \* the pieces that were cut off, or NoPiece
  headers     \* request.m_headers

vars == <<request, status, pos, start, pieceLen, method, url, http, headers>>

\* StringPiece: a place in the request and a length; initially NULL and 0.
Piece   == [start |-> start, length |-> pieceLen]
NoPiece == [start |-> 0, length |-> 0]

\* getChar: a zero byte stands for the end of the data.
Char == IF pos < Len(request) THEN request[pos + 1] ELSE "NUL"

Init ==
  /\ request \in Requests
  /\ status = IF request = <<>> THEN "ERROR" ELSE "START"
  /\ pos = 0 /\ start = 0 /\ pieceLen = 0
  /\ method = NoPiece /\ url = NoPiece /\ http = NoPiece
  /\ headers = <<>>

-----------------------------------------------------------------------------
(* What a turn of the loop does with the next byte. *)

FinishBehind ==   \* mutant: stoppedAt is behind the last byte looked at
  /\ status' = "FINISHED" /\ pos' = pos + 1
  /\ UNCHANGED <<start, pieceLen>>

Finish ==
  /\ status' = "FINISHED"
  /\ UNCHANGED <<pos, start, pieceLen>>

\* The byte joins the piece.
Grow ==
  /\ pos' = pos + 1 /\ pieceLen' = pieceLen + 1
  /\ UNCHANGED <<status, start>>

SkipCounted == Grow   \* mutant: the carriage return is counted

\* A carriage return is passed over and not counted.
Skip ==
  /\ pos' = pos + 1
  /\ UNCHANGED <<status, start, pieceLen>>

CutKeepsLength(next) ==   \* mutant: pieceLen is not reset
  /\ status' = next
  /\ pos' = pos + 1 /\ start' = pos + 1
  /\ UNCHANGED pieceLen

CutStays(next) ==   \* mutant: currentPos is not moved on
  /\ status' = next
  /\ start' = pos + 1 /\ pieceLen' = 0
  /\ UNCHANGED pos

\* The byte ends the piece, and the next one starts behind it.
Cut(next) ==
  /\ status' = next
  /\ pos' = pos + 1 /\ start' = pos + 1 /\ pieceLen' = 0

Start ==
  /\ status = "START"
  /\ status' = "METHOD"
  /\ UNCHANGED <<request, pos, start, pieceLen, method, url, http, headers>>

Method ==
  /\ status = "METHOD"
  /\ \/ Char = "NUL" /\ Finish /\ UNCHANGED method
     \/ Char = "SP" /\ Cut("URL") /\ method' = Piece
     \/ Char \notin {"NUL", "SP"} /\ Grow /\ UNCHANGED method
  /\ UNCHANGED <<request, url, http, headers>>

Url ==
  /\ status = "URL"
  /\ \/ Char = "NUL" /\ Finish /\ UNCHANGED url
     \/ Char = "SP" /\ Cut("HTTP") /\ url' = Piece
     \/ Char \notin {"NUL", "SP"} /\ Grow /\ UNCHANGED url
  /\ UNCHANGED <<request, method, http, headers>>

Http ==
  /\ status = "HTTP"
  /\ \/ Char = "NUL" /\ Finish /\ UNCHANGED http
     \/ Char = "CR" /\ Skip /\ UNCHANGED http
     \/ Char = "LF" /\ Cut("HEADER") /\ http' = Piece
     \/ Char \notin {"NUL", "CR", "LF"} /\ Grow /\ UNCHANGED http
  /\ UNCHANGED <<request, method, url, headers>>

HeaderLine ==
  /\ status = "HEADER"
  /\ \/ Char = "NUL" /\ Finish /\ UNCHANGED headers
     \/ Char = "CR" /\ Skip /\ UNCHANGED headers
     \/ Char = "LF" /\ Cut("HEADER_NEWLINE") /\ headers' = Append(headers, Piece)
     \/ Char \notin {"NUL", "CR", "LF"} /\ Grow /\ UNCHANGED headers
  /\ UNCHANGED <<request, method, url, http>>

HeaderNewlineStuck ==   \* mutant: the carriage return is not passed over
  /\ status = "HEADER_NEWLINE"
  /\ \/ Char = "LF" /\ Finish
     \/ Char \notin {"CR", "LF"} /\ status' = "HEADER"
        /\ UNCHANGED <<pos, start, pieceLen>>
  /\ UNCHANGED <<request, method, url, http, headers>>

HeaderNewline ==
  /\ status = "HEADER_NEWLINE"
  /\ \/ Char = "CR" /\ Skip
     \/ Char = "LF" /\ Finish
     \/ Char \notin {"CR", "LF"} /\ status' = "HEADER"
        /\ UNCHANGED <<pos, start, pieceLen>>
  /\ UNCHANGED <<request, method, url, http, headers>>

Next == Start \/ Method \/ Url \/ Http \/ HeaderLine \/ HeaderNewline

\* The loop runs until it ends.
Spec == Init /\ [][Next]_vars /\ WF_vars(Next)

-----------------------------------------------------------------------------
(* Properties. *)

PieceType == [start : Nat, length : Nat]

TypeOK ==
  /\ request \in Requests
  /\ status \in {"START", "METHOD", "URL", "HTTP", "HEADER", "HEADER_NEWLINE",
                 "FINISHED", "ERROR"}
  /\ pos \in 0 .. Len(request)
  /\ start \in Nat /\ pieceLen \in Nat
  /\ method \in PieceType /\ url \in PieceType /\ http \in PieceType
  /\ headers \in Seq(PieceType)

EndOf(p) == p.start + p.length

\* StringPiece::ToString and operator== read m_length bytes from m_start: every
\* piece lies in what has been read, and a header lies behind the one before it,
\* although carriage returns are left out of a piece's length.
PiecesInRequest ==
  /\ \A p \in {method, url, http} : EndOf(p) <= pos
  /\ \A i \in 1 .. Len(headers) : EndOf(headers[i]) <= pos
  /\ \A i, j \in 1 .. Len(headers) : i < j => EndOf(headers[i]) < headers[j].start

\* The turns that may still be needed: those of the status, and two for a byte.
TurnsHere == IF status \in {"FINISHED", "ERROR"} THEN 0
             ELSE IF status \in {"START", "HEADER_NEWLINE"} THEN 2 ELSE 1
TurnsLeft == 2 * (Len(request) - pos) + TurnsHere

\* Every turn of Parse's loop brings its end nearer, although HEADER_NEWLINE gives
\* way to HEADER without moving currentPos: n bytes take 2 n + 2 turns at most.
NeverSpins == [][TurnsLeft' \in 0 .. TurnsLeft - 1]_vars

\* Parse always returns, and with FINISHED: no input makes the loop spin.
Finishes == <>(status = "FINISHED")

=============================================================================
