---------------------------- MODULE MCHttpParser ----------------------------
(***************************************************************************)
(* Requests for TLC: every short string of bytes; messages as clients send *)
(* them, alone and with more data behind them; and all their beginnings,   *)
(* which is what the server sees when a message comes in parts.            *)
(***************************************************************************)
EXTENDS HttpMessages

Words       == { <<"x">>, <<"x", "y">> }
HeaderTexts == { <<"y">>, <<"x", "SP", "y">> }
HeaderLists == UNION { [1 .. n -> HeaderTexts] : n \in 0 .. 2 }

Second == [m |-> <<"y">>, u |-> <<"y">>, v |-> <<"y">>, hs |-> << <<"y">> >>, tail |-> <<>>]
Tails  == { <<>>, <<"x">>, RequestOf(Second) }

MCSent == [m : Words, u : Words, v : Words, hs : HeaderLists, tail : Tails]

ShortStrings == UNION { [1 .. n -> {"x", "SP", "CR", "LF", "NUL"}] : n \in 1 .. 5 }
SentRequests == { RequestOf(q) : q \in MCSent }
Beginnings   == UNION { { SubSeq(r, 1, n) : n \in 1 .. Len(r) } : r \in SentRequests }

MCRequests == ShortStrings \cup Beginnings

=============================================================================
