----------------------------- MODULE HttpClient -----------------------------
(***************************************************************************)
(* What a client makes of the replies on one connection.  It believes the  *)
(* Content-length header and skips empty lines in front of a status line,  *)
(* where HttpResponse::SetContent leaves two CRLFs of the reply before.    *)
(***************************************************************************)
EXTENDS HttpHandler

\* Where the client is in a reply, how much of the content it still expects, and
\* the contents it has taken.
Fresh == [at |-> "start", left |-> 0, taken |-> 0]
Done(r) == [at |-> "start", left |-> 0, taken |-> r.taken + 1]
Lost(r) == [r EXCEPT !.at = "lost"]

\* The content may hold anything: its units are counted, not looked at.
Body(r) == IF r.left = 0 THEN Done(r) ELSE [r EXCEPT !.at = "body"]

Reads(r, unit) ==
  CASE r.at = "start" /\ unit = CRLF         -> r
    [] r.at = "start" /\ unit[1] = "status"  -> [r EXCEPT !.at = "head"]
    [] r.at = "head"  /\ unit[1] = "length"  -> [r EXCEPT !.left = unit[2]]
    [] r.at = "head"  /\ unit[1] = "header"  -> r
    [] r.at = "head"  /\ unit = CRLF         -> Body(r)
    [] r.at = "body"                         -> Body([r EXCEPT !.left = @ - 1])
    [] OTHER                                 -> Lost(r)

\* What it makes of all it was sent.
ReadAll(data) ==
  LET read[n \in 0 .. Len(data)] ==
        IF n = 0 THEN Fresh ELSE Reads(read[n - 1], data[n])
  IN  read[Len(data)]

\* The client in step with the server finds every reply where it expects one and
\* takes its whole content, although Content-length leaves the last two CRLFs out
\* (HttpHandler::DidReceive, HttpResponse::SetContent).
ClientInStep ==
  LET r == ReadAll(delivered)
  IN  /\ r.at # "lost" /\ r.taken <= replies
      /\ response = <<>> => r.at = "start" /\ r.taken = replies

=============================================================================
