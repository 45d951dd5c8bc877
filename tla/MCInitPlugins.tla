--------------------------- MODULE MCInitPlugins ---------------------------
(* InitPlugins on a buffer of 4: texts that fit, that just do not pass the *)
(* assertion, and that do not fit; "b" alone is no address.                *)
EXTENDS InitPlugins

MCJunk      == { [i \in 0 .. 3 |-> c] : c \in {"a", "b", "NUL"} }
MCIps       == UNION { [1 .. n -> {"a"}] : n \in 0 .. 5 } \cup {<<"b">>}
MCAddresses == UNION { [1 .. n -> {"a"}] : n \in 1 .. 5 }
=============================================================================
